--------------------------- MODULE EmitLayers_proofs ---------------------------
(***************************************************************************)
(* For every number of layers, seeds, processes and every interleaving of  *)
(* their writes and crashes: what success of emit-layers means, and what a *)
(* run that was alone leaves behind.                                       *)
(***************************************************************************)
EXTENDS EmitLayers, TLAPS

Ends == {"ok", "bail", "io", "killed"}
Pcs  == {"idle", "verify", "chain", "mkdir", "open", "write", "done"}
ProcRecord ==
    [pc : Pcs, cmd : Commands \cup {None}, seed : Seeds \cup {None},
     out : Outs \cup {None}, j : 0 .. D, exit : Ends \cup {None}]

TypeInv ==
    /\ proc \in [Procs -> ProcRecord]
    /\ files = [f \in Files |-> files[f]]

\* What is known of a process by where it is.
Shape(r) ==
    /\ r.pc = "idle" => r.cmd = None /\ r.out = None
    /\ r.pc # "idle" => r.cmd \in Commands /\ r.seed \in Seeds
    /\ r.pc = "done" <=> r.exit # None
    /\ r.pc = "chain" => r.cmd = "emit-layers" /\ r.j \in 1 .. D
    /\ r.pc \in {"mkdir", "open", "write"} => r.cmd # "self-check"
    /\ r.cmd = "emit-monolithic" => r.out \in Files
    /\ r.pc # "idle" /\ r.cmd # "emit-monolithic" => r.out = None
    /\ r.pc = "write" => IF r.cmd = "emit-layers" THEN r.j < D ELSE r.j = 0

ShapeInv == \A p \in Procs : Shape(proc[p])

\* The first n layers of a seed link up; all of them do, and end at the root.
Linked(s, n) == \A k \in 1 .. n - 1 : Witness(s, k).prev_root = Witness(s, k - 1).next_root
Chained(s)   == Linked(s, D) /\ Witness(s, D - 1).next_root = Root(s)

ChainInv ==
    \A p \in Emitters :
        /\ proc[p].pc = "chain" => Linked(proc[p].seed, proc[p].j)
        /\ proc[p].pc \in {"mkdir", "open", "write"} \/ proc[p].exit = "ok" => Chained(proc[p].seed)

\* All emitters of the directory have seed s, and none has failed so far; nothing else writes there.
Together(s) == Apart /\ \A p \in Emitters : proc[p].seed = s /\ proc[p].exit \in {None, "ok"}

HasWritten(p, k) ==
    proc[p].exit = "ok" \/ (proc[p].pc \in {"open", "write"} /\ k < proc[p].j)

IsAt(p, k) == proc[p].pc = "write" /\ proc[p].j = k

\* A layer one of them has written is there, unless another is writing it again.
SharedInv ==
    \A s \in Seeds : Together(s) =>
        \A p \in Emitters, k \in Layers :
            /\ HasWritten(p, k) =>
                 \/ files[k] = Content(s, k)
                 \/ files[k] = Empty /\ \E q \in Emitters : IsAt(q, k)
            /\ IsAt(p, k) => files[k] \in {Empty, Content(s, k)}

\* Layers below n are the seed's, those above it as they were found.
PrefixTo(p, n) ==
    \A k \in Layers :
        /\ k < n => files[k] = Content(proc[p].seed, k)
        /\ k = n => files[k] \in {Empty, Torn, before[k]}
        /\ k > n => files[k] = before[k]

Untouched == \A k \in Layers : files[k] = before[k]

UntouchedBut(f) == \A k \in Layers \ {f} : files[k] = before[k]

\* What a process that is alone has done to the layers.
AloneSoFar(p) ==
    IF proc[p].pc \in {"verify", "chain", "mkdir"} \/ proc[p].exit = "bail"
    THEN Untouched
    ELSE IF proc[p].cmd # "emit-layers" THEN UntouchedBut(proc[p].out)
    ELSE /\ proc[p].pc \in {"open", "write"} => PrefixTo(p, proc[p].j)
         /\ proc[p].pc = "write" => files[proc[p].j] = Empty
         /\ proc[p].pc = "open" /\ proc[p].j < D => files[proc[p].j] = before[proc[p].j]
         /\ proc[p].exit \in {"io", "killed"} => \E n \in 0 .. D : PrefixTo(p, n)

AloneInv ==
    before # None =>
        \A p \in Procs : proc[p].pc # "idle" =>
            /\ \A q \in Procs \ {p} : proc[q].pc = "idle"
            /\ AloneSoFar(p)

IInv == TypeInv /\ ShapeInv /\ ChainInv /\ SharedInv /\ AloneInv
-----------------------------------------------------------------------------
USE SizeAssumption

\* One running process goes somewhere else; its command and seed stay.
Moved(p, where, at, how) ==
    /\ proc' \in [Procs -> ProcRecord]
    /\ \A q \in Procs \ {p} : proc'[q] = proc[q]
    /\ proc'[p].pc = where /\ proc'[p].j = at /\ proc'[p].exit = how
    /\ proc'[p].cmd = proc[p].cmd /\ proc'[p].seed = proc[p].seed /\ proc'[p].out = proc[p].out

LEMMA MoveFacts ==
    ASSUME TypeInv, NEW p \in Procs, NEW where \in Pcs, NEW at \in 0 .. D, NEW how \in Ends \cup {None},
           proc' = [proc EXCEPT ![p] = [proc[p] EXCEPT !.pc = where, !.j = at, !.exit = how]]
    PROVE  Moved(p, where, at, how)
<1> DEFINE r == [proc[p] EXCEPT !.pc = where, !.j = at, !.exit = how]
<1>1. proc \in [Procs -> ProcRecord] /\ proc[p] \in ProcRecord  BY DEF TypeInv
<1>2. /\ r \in ProcRecord
      /\ r.pc = where /\ r.j = at /\ r.exit = how /\ r.cmd = proc[p].cmd /\ r.seed = proc[p].seed /\ r.out = proc[p].out
  BY <1>1 DEF ProcRecord
<1>3. proc' = [proc EXCEPT ![p] = r]  OBVIOUS
<1> HIDE DEF r
<1>4. proc'[p] = r /\ \A q \in Procs \ {p} : proc'[q] = proc[q]  BY <1>1, <1>3
<1>5. proc' \in [Procs -> ProcRecord]  BY <1>1, <1>2, <1>3
<1> QED  BY <1>2, <1>4, <1>5 DEF Moved

\* The updates of the actions are such moves.
LEMMA ExitMoves ==
    ASSUME TypeInv, NEW p \in Procs, NEW how \in Ends, Exit(p, how)
    PROVE  Moved(p, "done", 0, how)
<1>1. proc \in [Procs -> ProcRecord] /\ proc[p] \in ProcRecord  BY DEF TypeInv
<1>2. proc' = [proc EXCEPT ![p] = [proc[p] EXCEPT !.pc = "done", !.j = 0, !.exit = how]]
  BY <1>1 DEF Exit
<1>3. "done" \in Pcs /\ 0 \in 0 .. D /\ how \in Ends \cup {None}  BY DEF Pcs
<1> QED  BY <1>2, <1>3, MoveFacts

LEMMA GoMoves ==
    ASSUME TypeInv, NEW p \in Procs, NEW where \in Pcs, Go(p, where)
    PROVE  Moved(p, where, proc[p].j, proc[p].exit)
<1>1. proc \in [Procs -> ProcRecord] /\ proc[p] \in ProcRecord  BY DEF TypeInv
<1>2. proc' = [proc EXCEPT ![p] =
                 [proc[p] EXCEPT !.pc = where, !.j = proc[p].j, !.exit = proc[p].exit]]
  BY <1>1 DEF Go, ProcRecord
<1> QED  BY <1>1, <1>2, MoveFacts DEF ProcRecord

LEMMA SetMoves ==
    ASSUME TypeInv, NEW p \in Procs, NEW where \in Pcs, NEW at \in 0 .. D,
           proc' = [proc EXCEPT ![p].pc = where, ![p].j = at]
    PROVE  Moved(p, where, at, proc[p].exit)
<1>1. proc \in [Procs -> ProcRecord] /\ proc[p] \in ProcRecord  BY DEF TypeInv
<1>2. proc' = [proc EXCEPT ![p] = [proc[p] EXCEPT !.pc = where, !.j = at, !.exit = proc[p].exit]]
  BY <1>1 DEF ProcRecord
<1> QED  BY <1>1, <1>2, MoveFacts DEF ProcRecord

LEMMA SameEmitters ==
    ASSUME NEW p \in Procs, NEW where, NEW at, NEW how, Moved(p, where, at, how)
    PROVE  Emitters' = Emitters
  BY DEF Moved, Emitters
-----------------------------------------------------------------------------
\* What a move of p has to respect for each part of the invariant.
LEMMA KeepShape ==
    ASSUME ShapeInv, NEW p \in Procs, NEW where, NEW at, NEW how, Moved(p, where, at, how),
           Shape(proc'[p])
    PROVE  ShapeInv'
<1>1. ASSUME NEW q \in Procs PROVE Shape(proc'[q])
  <2>1. CASE q = p  BY <2>1
  <2>2. CASE q # p
    <3>1. proc'[q] = proc[q]  BY <2>2 DEF Moved
    <3> QED  BY <3>1 DEF ShapeInv
  <2> QED  BY <2>1, <2>2
<1> QED  BY <1>1 DEF ShapeInv, Shape

LEMMA KeepChain ==
    ASSUME ChainInv, NEW p \in Procs, NEW where, NEW at, NEW how, Moved(p, where, at, how),
           p \in Emitters =>
             /\ where = "chain" => Linked(proc[p].seed, at)
             /\ where \in {"mkdir", "open", "write"} \/ how = "ok" => Chained(proc[p].seed)
    PROVE  ChainInv'
<1>1. Emitters' = Emitters  BY SameEmitters
<1>2. ASSUME NEW q \in Emitters
      PROVE  /\ proc'[q].pc = "chain" => Linked(proc'[q].seed, proc'[q].j)
             /\ proc'[q].pc \in {"mkdir", "open", "write"} \/ proc'[q].exit = "ok" => Chained(proc'[q].seed)
  <2>1. CASE q = p  BY <2>1 DEF Moved
  <2>2. CASE q # p
    <3>1. proc'[q] = proc[q]  BY <2>2 DEF Moved, Emitters
    <3> QED  BY <3>1 DEF ChainInv
  <2> QED  BY <2>1, <2>2
<1> QED  BY <1>1, <1>2 DEF ChainInv, Linked, Chained

\* No layer changes and p neither starts nor ends a write; or p is an emitter that
\* fails, and its company is no longer together.
LEMMA KeepShared ==
    ASSUME SharedInv, NEW p \in Procs, NEW where, NEW at, NEW how, Moved(p, where, at, how),
           p \in Emitters =>
             \/ how \notin {None, "ok"}
             \/ /\ proc[p].exit \in {None, "ok"}
                /\ \A k \in Layers : /\ files'[k] = files[k]
                                     /\ ~IsAt(p, k) /\ ~IsAt(p, k)'
                                     /\ HasWritten(p, k)' => HasWritten(p, k),
           p \notin Emitters => \A k \in Layers \ {proc[p].out} : files'[k] = files[k]
    PROVE  SharedInv'
<1>1. Emitters' = Emitters  BY SameEmitters
<1> SUFFICES ASSUME NEW s \in Seeds, Together(s)', NEW q \in Emitters, NEW k \in Layers
             PROVE  /\ HasWritten(q, k)' =>
                         \/ files'[k] = Content(s, k)
                         \/ files'[k] = Empty /\ \E o \in Emitters : IsAt(o, k)'
                    /\ IsAt(q, k)' => files'[k] \in {Empty, Content(s, k)}
  <2> Emitters' = Emitters  BY <1>1
  <2> QED  BY DEF SharedInv, Content, ht_layer_witness_json
<1>2. \A o \in Emitters : o \in Procs  BY DEF Emitters
<1>3. \A o \in Emitters \ {p} : proc'[o] = proc[o]  BY <1>2 DEF Moved
<1>4. \A o \in Emitters : proc'[o].seed = s /\ proc'[o].exit \in {None, "ok"}
  BY <1>1 DEF Together
<1>5. p \in Emitters => how \in {None, "ok"} /\ proc[p].seed = s  BY <1>4 DEF Moved
<1>6. p \in Emitters => proc[p].exit \in {None, "ok"} /\ ~IsAt(p, k) /\ ~IsAt(p, k)'
                        /\ (HasWritten(p, k)' => HasWritten(p, k))
  BY <1>5
<1>b. Apart
  <2>1. \A o \in Procs : proc'[o].out = proc[o].out  BY DEF Moved
  <2> QED  BY <2>1 DEF Together, Apart
<1>7. files'[k] = files[k]
  <2>1. proc[p].out # k  BY <1>b DEF Apart
  <2> QED  BY <1>5, <2>1
<1>8. Together(s)  BY <1>3, <1>4, <1>5, <1>6, <1>b DEF Together
<1>9. \A o \in Emitters : IsAt(o, k)' <=> IsAt(o, k)
  <2>1. \A o \in Emitters \ {p} : IsAt(o, k)' <=> IsAt(o, k)  BY <1>3 DEF IsAt
  <2> QED  BY <1>6, <2>1
<1>10. HasWritten(q, k)' => HasWritten(q, k)
  <2>1. CASE q = p  BY <2>1, <1>6
  <2>2. CASE q # p  BY <2>2, <1>3 DEF HasWritten
  <2> QED  BY <2>1, <2>2
<1>11. /\ HasWritten(q, k) => \/ files[k] = Content(s, k)
                              \/ files[k] = Empty /\ \E o \in Emitters : IsAt(o, k)
       /\ IsAt(q, k) => files[k] \in {Empty, Content(s, k)}
  BY <1>8 DEF SharedInv
<1> QED  BY <1>7, <1>9, <1>10, <1>11

LEMMA KeepAlone ==
    ASSUME AloneInv, NEW p \in Procs, NEW where, NEW at, NEW how, Moved(p, where, at, how),
           proc[p].pc # "idle", before' = before,
           before # None => AloneSoFar(p)'
    PROVE  AloneInv'
<1> SUFFICES ASSUME before' # None, NEW q \in Procs, proc'[q].pc # "idle"
             PROVE  /\ \A o \in Procs \ {q} : proc'[o].pc = "idle"
                    /\ AloneSoFar(q)'
  BY DEF AloneInv
<1>1. \A o \in Procs \ {p} : proc'[o] = proc[o] /\ proc[o].pc = "idle"
  BY DEF AloneInv, Moved
<1>2. q = p  BY <1>1
<1> QED  BY <1>1, <1>2

\* The files and what was there before stay the same.
LEMMA SamePrefix ==
    ASSUME NEW p, NEW n, files' = files, before' = before, proc'[p].seed = proc[p].seed
    PROVE  PrefixTo(p, n)' = PrefixTo(p, n)
  BY DEF PrefixTo, Content, ht_layer_witness_json
-----------------------------------------------------------------------------
\* A step that leaves the files alone.
LEMMA QuietStep ==
    ASSUME IInv, NEW p \in Procs, NEW where \in Pcs \ {"idle", "write"}, NEW at, NEW how,
           Moved(p, where, at, how), files' = files, before' = before,
           proc[p].pc \in {"verify", "chain", "mkdir", "open"},
           Shape(proc'[p]),
           p \in Emitters =>
             /\ where = "chain" => Linked(proc[p].seed, at)
             /\ where \in {"mkdir", "open"} \/ how = "ok" => Chained(proc[p].seed)
             /\ \A k \in Layers : HasWritten(p, k)' => HasWritten(p, k),
           before # None => AloneSoFar(p)'
    PROVE  IInv'
<1>1. TypeInv'  BY DEF IInv, TypeInv, Moved
<1>2. proc[p].exit = None
  <2>1. Shape(proc[p])  BY DEF IInv, ShapeInv
  <2> QED  BY <2>1 DEF Shape
<1>3. ShapeInv'  BY KeepShape DEF IInv
<1>4. ChainInv'  BY KeepChain DEF IInv
<1>5. \A k \in Layers : ~IsAt(p, k) /\ ~IsAt(p, k)'  BY DEF IsAt, Moved
<1>6. SharedInv'  BY <1>2, <1>5, KeepShared DEF IInv
<1>7. AloneInv'  BY KeepAlone DEF IInv
<1> QED  BY <1>1, <1>3, <1>4, <1>6, <1>7 DEF IInv

\* A process that has not reached the files has left the layers alone.
LEMMA EarlyIsUntouched ==
    ASSUME IInv, NEW p \in Procs, proc[p].pc \in {"verify", "chain", "mkdir"}, before # None
    PROVE  Untouched
  BY DEF IInv, AloneInv, AloneSoFar

LEMMA VerifyStep == ASSUME IInv, NEW p \in Procs, Verify(p) PROVE IInv'
<1>1. TypeInv /\ Shape(proc[p]) /\ proc[p] \in ProcRecord  BY DEF IInv, ShapeInv, TypeInv
<1>2. proc[p].pc = "verify" /\ files' = files /\ before' = before /\ proc[p].exit = None
      /\ proc[p].cmd \in Commands /\ proc[p].seed \in Seeds
  BY <1>1 DEF Verify, At, Shape
<1>3. before # None => Untouched  BY <1>2, EarlyIsUntouched
<1>4. \/ \E how \in {"ok", "bail"} :
            Exit(p, how) /\ (how = "ok" => proc[p].cmd = "self-check")
      \/ Go(p, "mkdir") /\ proc[p].cmd = "emit-monolithic"
      \/ proc' = [proc EXCEPT ![p].pc = "chain", ![p].j = 1] /\ proc[p].cmd = "emit-layers"
  BY DEF Verify
<1>5. CASE \E how \in {"ok", "bail"} :
             Exit(p, how) /\ (how = "ok" => proc[p].cmd = "self-check")
  <2>1. PICK how \in {"ok", "bail"} : Exit(p, how) /\ (how = "ok" => proc[p].cmd = "self-check")
    BY <1>5
  <2>2. how \in Ends /\ "done" \in Pcs \ {"idle", "write"}  BY DEF Ends, Pcs
  <2>3. Moved(p, "done", 0, how)  BY <1>1, <2>1, <2>2, ExitMoves
  <2>4. Shape(proc'[p])  BY <1>1, <1>2, <2>1, <2>3, ContentAssumption DEF Shape, Moved
  <2>5. p \in Emitters => how = "bail"  BY <2>1 DEF Emitters
  <2>6. \A k \in Layers : p \in Emitters => ~HasWritten(p, k)'  BY <2>3, <2>5 DEF Moved, HasWritten
  <2>7. before # None => AloneSoFar(p)'
    BY <1>2, <1>3, <2>1, <2>3 DEF AloneSoFar, Moved, Untouched, UntouchedBut
  <2> QED  BY <1>2, <2>2, <2>3, <2>4, <2>5, <2>6, <2>7, QuietStep
<1>6. CASE Go(p, "mkdir") /\ proc[p].cmd = "emit-monolithic"
  <2>1. "mkdir" \in Pcs \ {"idle", "write"}  BY DEF Pcs
  <2>2. Moved(p, "mkdir", proc[p].j, None)  BY <1>1, <1>2, <1>6, <2>1, GoMoves
  <2>3. Shape(proc'[p])  BY <1>1, <1>2, <1>6, <2>2 DEF Shape, Moved
  <2>4. p \notin Emitters  BY <1>6 DEF Emitters
  <2>5. before # None => AloneSoFar(p)'
    BY <1>2, <1>3, <2>2 DEF AloneSoFar, Moved, Untouched
  <2> QED  BY <1>2, <2>1, <2>2, <2>3, <2>4, <2>5, QuietStep
<1>7. CASE proc' = [proc EXCEPT ![p].pc = "chain", ![p].j = 1] /\ proc[p].cmd = "emit-layers"
  <2>1. "chain" \in Pcs \ {"idle", "write"} /\ 1 \in 0 .. D /\ 1 \in 1 .. D  BY DEF Pcs
  <2>2. Moved(p, "chain", 1, None)  BY <1>1, <1>2, <1>7, <2>1, SetMoves
  <2>3. Shape(proc'[p])  BY <1>1, <1>2, <1>7, <2>1, <2>2 DEF Shape, Moved
  <2>4. Linked(proc[p].seed, 1)  BY DEF Linked
  <2>5. \A k \in Layers : ~HasWritten(p, k)'  BY <2>2, ContentAssumption DEF Moved, HasWritten
  <2>6. before # None => AloneSoFar(p)'
    BY <1>2, <1>3, <2>2 DEF AloneSoFar, Moved, Untouched
  <2>7. None # "ok"  BY ContentAssumption
  <2> QED  BY <1>2, <2>1, <2>2, <2>3, <2>4, <2>5, <2>6, <2>7, QuietStep
<1> QED  BY <1>4, <1>5, <1>6, <1>7

\* However a process that is alone and not in a write ends, it leaves a prefix.
LEMMA EndsOnPrefix ==
    ASSUME IInv, NEW p \in Procs, proc[p].pc \in {"verify", "chain", "mkdir", "open"}, before # None,
           proc[p].cmd = "emit-layers"
    PROVE  \E n \in 0 .. D : PrefixTo(p, n)
<1>1. CASE proc[p].pc = "open"
  <2>1. proc[p].exit # "bail"
    <3>1. Shape(proc[p]) /\ proc[p].pc # "idle"  BY <1>1 DEF IInv, ShapeInv
    <3> QED  BY <1>1, <3>1, ContentAssumption DEF Shape
  <2>2. proc[p].j \in 0 .. D  BY DEF IInv, TypeInv, ProcRecord
  <2>3. PrefixTo(p, proc[p].j)  BY <1>1, <2>1 DEF IInv, AloneInv, AloneSoFar
  <2> QED  BY <2>2, <2>3
<1>2. CASE proc[p].pc # "open"
  <2>1. Untouched  BY <1>2, EarlyIsUntouched
  <2>2. PrefixTo(p, 0) /\ 0 \in 0 .. D  BY <2>1 DEF Untouched, PrefixTo, Layers
  <2> QED  BY <2>2
<1> QED  BY <1>1, <1>2

LEMMA BailStep ==
    ASSUME IInv, NEW p \in Procs, NEW how \in {"bail", "io", "killed"}, Exit(p, how),
           proc[p].pc \in {"verify", "chain", "mkdir", "open"}, files' = files, before' = before,
           how = "bail" => proc[p].pc # "open"
    PROVE  IInv'
<1>1. TypeInv /\ Shape(proc[p]) /\ proc[p] \in ProcRecord  BY DEF IInv, ShapeInv, TypeInv
<1>2. "done" \in Pcs \ {"idle", "write"} /\ how \in Ends /\ how # None
  BY ContentAssumption DEF Pcs, Ends
<1>3. Moved(p, "done", 0, how)  BY <1>1, <1>2, ExitMoves
<1>4. Shape(proc'[p])  BY <1>1, <1>2, <1>3 DEF Shape, Moved
<1>5. \A k \in Layers : ~HasWritten(p, k)'  BY <1>3 DEF Moved, HasWritten
<1>6. ASSUME before # None PROVE AloneSoFar(p)'
  <2>1. CASE how = "bail"
    <3>1. Untouched  BY <1>6, <2>1, EarlyIsUntouched
    <3> QED  BY <1>3, <2>1, <3>1 DEF AloneSoFar, Untouched, Moved
  <2>3. CASE proc[p].cmd # "emit-layers" /\ how # "bail"
    <3>1. UntouchedBut(proc[p].out)
      <4>1. CASE proc[p].pc = "open"
        BY <1>1, <1>6, <2>3, <4>1, ContentAssumption DEF IInv, AloneInv, AloneSoFar, Untouched, UntouchedBut
      <4>2. CASE proc[p].pc # "open"  BY <1>6, <4>2, EarlyIsUntouched DEF Untouched, UntouchedBut
      <4> QED  BY <4>1, <4>2
    <3> QED  BY <1>3, <2>3, <3>1 DEF AloneSoFar, UntouchedBut, Moved
  <2>2. CASE proc[p].cmd = "emit-layers" /\ how # "bail"
    <3>1. PICK n \in 0 .. D : PrefixTo(p, n)  BY <1>6, <2>2, EndsOnPrefix
    <3>2. PrefixTo(p, n)'  BY <1>3, <3>1, SamePrefix DEF Moved
    <3> QED  BY <1>3, <2>2, <3>2 DEF AloneSoFar, Moved
  <2> QED  BY <2>1, <2>2, <2>3
<1> QED  BY <1>1, <1>2, <1>3, <1>4, <1>5, <1>6, QuietStep

LEMMA LinkSteps ==
    ASSUME IInv, NEW p \in Procs, CheckLink(p) \/ CheckRoot(p)
    PROVE  IInv'
<1>1. TypeInv /\ Shape(proc[p]) /\ proc[p] \in ProcRecord  BY DEF IInv, ShapeInv, TypeInv
<1>2. /\ proc[p].pc = "chain" /\ files' = files /\ before' = before /\ proc[p].exit = None
      /\ proc[p].cmd = "emit-layers" /\ proc[p].seed \in Seeds /\ proc[p].j \in 1 .. D
  BY <1>1 DEF CheckLink, CheckRoot, At, Shape
<1>3. p \in Emitters /\ Linked(proc[p].seed, proc[p].j)  BY <1>2 DEF Emitters, IInv, ChainInv
<1>4. before # None => Untouched  BY <1>2, EarlyIsUntouched
<1>5. None # "ok"  BY ContentAssumption
<1>6. \/ Exit(p, "bail")
      \/ /\ proc[p].j < D /\ proc' = [proc EXCEPT ![p].j = proc[p].j + 1]
         /\ Witness(proc[p].seed, proc[p].j).prev_root = Witness(proc[p].seed, proc[p].j - 1).next_root
      \/ /\ proc[p].j = D /\ Go(p, "mkdir")
         /\ Witness(proc[p].seed, D - 1).next_root = Root(proc[p].seed)
  BY DEF CheckLink, CheckRoot
<1>7. CASE Exit(p, "bail")  BY <1>2, <1>7, BailStep
<1>8. CASE /\ proc[p].j < D /\ proc' = [proc EXCEPT ![p].j = proc[p].j + 1]
           /\ Witness(proc[p].seed, proc[p].j).prev_root = Witness(proc[p].seed, proc[p].j - 1).next_root
  <2>1. "chain" \in Pcs \ {"idle", "write"} /\ proc[p].j + 1 \in 0 .. D /\ proc[p].j + 1 \in 1 .. D
    BY <1>2, <1>8 DEF Pcs
  <2>2. proc' = [proc EXCEPT ![p].pc = "chain", ![p].j = proc[p].j + 1]
    <3>1. PICK r : r = [proc[p] EXCEPT !.pc = "chain", !.j = proc[p].j + 1]  OBVIOUS
    <3>2. r = [proc[p] EXCEPT !.j = proc[p].j + 1]  BY <1>1, <1>2, <3>1 DEF ProcRecord
    <3>3. proc' = [proc EXCEPT ![p] = r]  BY <1>8, <3>2
    <3> QED  BY <3>1, <3>3
  <2>3. Moved(p, "chain", proc[p].j + 1, None)  BY <1>1, <1>2, <2>1, <2>2, SetMoves
  <2>4. Shape(proc'[p])  BY <1>1, <1>2, <2>1, <2>3 DEF Shape, Moved, Commands
  <2>5. Linked(proc[p].seed, proc[p].j + 1)  BY <1>2, <1>3, <1>8 DEF Linked
  <2>6. \A k \in Layers : ~HasWritten(p, k)'  BY <2>3, <1>5 DEF Moved, HasWritten
  <2>7. before # None => AloneSoFar(p)'
    BY <1>2, <1>4, <2>3 DEF AloneSoFar, Moved, Untouched
  <2> QED  BY <1>2, <1>5, <2>1, <2>3, <2>4, <2>5, <2>6, <2>7, QuietStep
<1>9. CASE /\ proc[p].j = D /\ Go(p, "mkdir")
           /\ Witness(proc[p].seed, D - 1).next_root = Root(proc[p].seed)
  <2>1. "mkdir" \in Pcs \ {"idle", "write"}  BY DEF Pcs
  <2>2. Moved(p, "mkdir", D, None)  BY <1>1, <1>2, <1>9, <2>1, GoMoves
  <2>3. Shape(proc'[p])  BY <1>1, <1>2, <2>2 DEF Shape, Moved, Commands
  <2>4. Chained(proc[p].seed)  BY <1>3, <1>9 DEF Chained
  <2>5. \A k \in Layers : ~HasWritten(p, k)'  BY <2>2, <1>5 DEF Moved, HasWritten
  <2>6. before # None => AloneSoFar(p)'
    BY <1>2, <1>4, <2>2 DEF AloneSoFar, Moved, Untouched
  <2> QED  BY <1>2, <1>5, <2>1, <2>2, <2>3, <2>4, <2>5, <2>6, QuietStep
<1> QED  BY <1>6, <1>7, <1>8, <1>9

LEMMA MakeDirStep == ASSUME IInv, NEW p \in Procs, MakeDir(p) PROVE IInv'
<1>1. TypeInv /\ Shape(proc[p]) /\ proc[p] \in ProcRecord  BY DEF IInv, ShapeInv, TypeInv
<1>2. /\ proc[p].pc = "mkdir" /\ files' = files /\ before' = before /\ proc[p].exit = None
      /\ proc[p].cmd \in {"emit-monolithic", "emit-layers"} /\ proc[p].seed \in Seeds
  BY <1>1 DEF MakeDir, At, Shape, Commands
<1>3. CASE Exit(p, "io")  BY <1>2, <1>3, BailStep
<1>4. CASE proc' = [proc EXCEPT ![p].pc = "open", ![p].j = 0]
  <2>1. "open" \in Pcs \ {"idle", "write"} /\ 0 \in 0 .. D  BY DEF Pcs
  <2>2. Moved(p, "open", 0, None)  BY <1>1, <1>2, <1>4, <2>1, SetMoves
  <2>3. Shape(proc'[p])  BY <1>1, <1>2, <2>2 DEF Shape, Moved, Commands
  <2>4. p \in Emitters => Chained(proc[p].seed)  BY <1>2 DEF IInv, ChainInv
  <2>5. \A k \in Layers : ~HasWritten(p, k)'
    BY <2>2, ContentAssumption DEF Moved, HasWritten, Layers
  <2>6. ASSUME before # None PROVE AloneSoFar(p)'
    <3>1. Untouched  BY <1>2, <2>6, EarlyIsUntouched
    <3>2. Untouched' /\ PrefixTo(p, 0)'
      BY <1>2, <3>1 DEF Untouched, PrefixTo, Layers
    <3>3. 0 \in Layers  BY DEF Layers
    <3> QED  BY <1>2, <2>2, <3>2, <3>3, ContentAssumption DEF AloneSoFar, Moved, Untouched, UntouchedBut
  <2>7. None # "ok"  BY ContentAssumption
  <2> QED  BY <1>2, <2>1, <2>2, <2>3, <2>4, <2>5, <2>6, <2>7, QuietStep
<1> QED  BY <1>3, <1>4 DEF MakeDir

LEMMA WrittenStep == ASSUME IInv, NEW p \in Procs, Written(p) PROVE IInv'
<1>1. TypeInv /\ Shape(proc[p]) /\ proc[p] \in ProcRecord  BY DEF IInv, ShapeInv, TypeInv
<1>2. /\ proc[p].pc = "open" /\ files' = files /\ before' = before /\ proc[p].exit = None
      /\ proc[p].cmd \in Commands /\ proc[p].seed \in Seeds /\ proc[p].j \in 0 .. D
  BY <1>1 DEF Written, At, Shape, ProcRecord
<1>3. "done" \in Pcs \ {"idle", "write"} /\ "ok" \in Ends /\ "ok" # None
  BY ContentAssumption DEF Pcs, Ends
<1>4. Moved(p, "done", 0, "ok")  BY <1>1, <1>3, ExitMoves DEF Written
<1>5. Shape(proc'[p])  BY <1>1, <1>2, <1>3, <1>4 DEF Shape, Moved
<1>6. p \in Emitters => Chained(proc[p].seed) /\ proc[p].j = D
  BY <1>2 DEF IInv, ChainInv, Emitters, Written, Unfinished
<1>7. p \in Emitters => \A k \in Layers : HasWritten(p, k)' => HasWritten(p, k)
  BY <1>2, <1>6 DEF HasWritten, Layers
<1>8. before # None => AloneSoFar(p)'
  <2>1. before # None /\ proc[p].cmd # "emit-layers" => UntouchedBut(proc[p].out)
    BY <1>2, ContentAssumption DEF IInv, AloneInv, AloneSoFar, Untouched, UntouchedBut
  <2> QED  BY <1>2, <1>4, <2>1 DEF AloneSoFar, Moved, UntouchedBut
<1> QED  BY <1>2, <1>3, <1>4, <1>5, <1>6, <1>7, <1>8, QuietStep
-----------------------------------------------------------------------------
\* The file a process is at is a layer for emit-layers and the one of --out otherwise.
LEMMA TargetFacts ==
    ASSUME IInv, NEW p \in Procs, proc[p].pc = "write" \/ (proc[p].pc = "open" /\ Unfinished(p))
    PROVE  /\ p \in Emitters => Target(p) = proc[p].j /\ proc[p].j \in Layers
           /\ p \notin Emitters => Target(p) = proc[p].out
           /\ Target(p) \in Files
<1>1. Shape(proc[p]) /\ proc[p] \in ProcRecord  BY DEF IInv, ShapeInv, TypeInv
<1>2. proc[p].cmd = "emit-layers" => proc[p].j < D  BY <1>1 DEF Shape, Unfinished
<1>3. proc[p].cmd # "emit-layers" => proc[p].out \in Files
  BY <1>1, ContentAssumption DEF Shape, Commands, Unfinished
<1> QED  BY <1>1, <1>2, <1>3 DEF Emitters, Target, Layers, Files, ProcRecord

\* One file gets a new content, the others keep theirs.
LEMMA FileFacts ==
    ASSUME TypeInv, NEW f \in Files, NEW c, files' = [files EXCEPT ![f] = c]
    PROVE  /\ files' = [g \in Files |-> files'[g]]
           /\ files'[f] = c
           /\ \A g \in Files \ {f} : files'[g] = files[g]
  BY DEF TypeInv

LEMMA LayersAreFiles == Layers \subseteq Files  BY DEF Layers, Files

\* A change of the file at the end of a prefix.
LEMMA KeepPrefix ==
    ASSUME NEW p \in Procs, NEW n \in 0 .. D, PrefixTo(p, n),
           before' = before, proc'[p].seed = proc[p].seed,
           \A k \in Layers \ {n} : files'[k] = files[k],
           files'[n] \in {Empty, Torn, before[n]}
    PROVE  PrefixTo(p, n)'
  BY DEF PrefixTo, Content, ht_layer_witness_json, Layers

\* A write that fails, or is cut off by a kill.
LEMMA BrokenWriteStep ==
    ASSUME IInv, NEW p \in Procs, NEW how \in {"io", "killed"}, Exit(p, how), proc[p].pc = "write",
           files' = files \/ files' = [files EXCEPT ![Target(p)] = Torn], before' = before
    PROVE  IInv'
<1>1. TypeInv /\ Shape(proc[p]) /\ proc[p] \in ProcRecord  BY DEF IInv, ShapeInv, TypeInv
<1>2. "done" \in Pcs /\ how \in Ends /\ how \notin {None, "ok"}
  BY ContentAssumption DEF Pcs, Ends
<1>3. Moved(p, "done", 0, how)  BY <1>1, <1>2, ExitMoves
<1>4. Target(p) \in Files  BY TargetFacts
<1>5. /\ files' = [g \in Files |-> files'[g]]
      /\ files'[Target(p)] \in {files[Target(p)], Torn}
      /\ \A g \in Files \ {Target(p)} : files'[g] = files[g]
  <2>1. CASE files' = files  BY <1>1, <2>1 DEF TypeInv
  <2>2. CASE files' = [files EXCEPT ![Target(p)] = Torn]  BY <1>1, <1>4, <2>2, FileFacts
  <2> QED  BY <2>1, <2>2
<1>6. TypeInv'  BY <1>3, <1>5 DEF TypeInv, Moved
<1>7. ShapeInv'
  <2>1. Shape(proc'[p])  BY <1>1, <1>2, <1>3 DEF Shape, Moved
  <2> QED  BY <1>3, <2>1, KeepShape DEF IInv
<1>8. ChainInv'  BY <1>2, <1>3, KeepChain DEF IInv
<1>9. p \notin Emitters => \A k \in Layers \ {proc[p].out} : files'[k] = files[k]
  BY <1>5, TargetFacts, LayersAreFiles
<1>10. SharedInv'  BY <1>2, <1>3, <1>9, KeepShared DEF IInv
<1>11. AloneInv'
  <2>1. ASSUME before # None PROVE AloneSoFar(p)'
    <3>0. AloneSoFar(p)  BY <2>1 DEF IInv, AloneInv
    <3>1. CASE proc[p].cmd # "emit-layers"
      <4>1. UntouchedBut(proc[p].out)  BY <3>0, <3>1 DEF AloneSoFar, Untouched, UntouchedBut
      <4>2. \A k \in Layers \ {proc[p].out} : files'[k] = before'[k]
        BY <1>9, <3>1, <4>1 DEF UntouchedBut, Emitters
      <4> QED  BY <1>3, <3>1, <4>2 DEF AloneSoFar, Moved, UntouchedBut
    <3>2. CASE proc[p].cmd = "emit-layers"
      <4>1. proc[p].j \in Layers /\ Target(p) = proc[p].j /\ proc[p].j \in 0 .. D
        BY <3>2, TargetFacts DEF Emitters, Layers
      <4>2. PICK n \in 0 .. D : n = proc[p].j  BY <4>1
      <4>3. proc[p].exit # "bail"  BY <1>1, ContentAssumption DEF Shape
      <4>4. PrefixTo(p, n) /\ files[n] = Empty  BY <3>0, <3>2, <4>2, <4>3 DEF AloneSoFar
      <4>5. files'[n] \in {Empty, Torn} /\ \A k \in Layers \ {n} : files'[k] = files[k]
        BY <1>5, <4>1, <4>2, <4>4, LayersAreFiles
      <4>6. PrefixTo(p, n)'  BY <1>3, <4>4, <4>5, KeepPrefix DEF Moved
      <4> QED  BY <1>3, <3>2, <4>6 DEF AloneSoFar, Moved
    <3> QED  BY <3>1, <3>2
  <2> QED  BY <1>3, <2>1, KeepAlone DEF IInv
<1> QED  BY <1>6, <1>7, <1>8, <1>10, <1>11 DEF IInv

LEMMA KillStep == ASSUME IInv, NEW p \in Procs, Kill(p) PROVE IInv'
<1>1. Exit(p, "killed") /\ before' = before /\ proc[p].pc \notin {"idle", "done"}
  BY DEF Kill, Running
<1>2. proc[p].pc \in Pcs  BY DEF IInv, TypeInv, ProcRecord
<1>3. CASE proc[p].pc = "write"
  <2>1. files' = files \/ files' = [files EXCEPT ![Target(p)] = Torn]  BY DEF Kill
  <2> QED  BY <1>1, <1>3, <2>1, BrokenWriteStep
<1>4. CASE proc[p].pc # "write"
  <2>1. files' = files  BY <1>4 DEF Kill, At
  <2> QED  BY <1>1, <1>2, <1>4, <2>1, BailStep DEF Pcs
<1> QED  BY <1>3, <1>4

LEMMA TruncateStep == ASSUME IInv, NEW p \in Procs, Truncate(p) PROVE IInv'
<1>1. TypeInv /\ Shape(proc[p]) /\ proc[p] \in ProcRecord  BY DEF IInv, ShapeInv, TypeInv
<1>2. /\ proc[p].pc = "open" /\ before' = before /\ proc[p].exit = None /\ Unfinished(p)
      /\ proc[p].cmd \in Commands /\ proc[p].cmd # "self-check" /\ proc[p].seed \in Seeds
      /\ proc[p].j \in 0 .. D
  BY <1>1 DEF Truncate, At, Shape, ProcRecord
<1>3. CASE Exit(p, "io") /\ UNCHANGED files  BY <1>2, <1>3, BailStep
<1>4. CASE files' = [files EXCEPT ![Target(p)] = Empty] /\ Go(p, "write")
  <2>1. "write" \in Pcs /\ None # "ok"  BY ContentAssumption DEF Pcs
  <2>2. Moved(p, "write", proc[p].j, None)  BY <1>1, <1>2, <1>4, <2>1, GoMoves
  <2>3. /\ p \in Emitters => Target(p) = proc[p].j /\ proc[p].j \in Layers
        /\ p \notin Emitters => Target(p) = proc[p].out
        /\ Target(p) \in Files
    BY <1>2, TargetFacts
  <2>4. /\ files' = [g \in Files |-> files'[g]]
        /\ files'[Target(p)] = Empty
        /\ \A g \in Files \ {Target(p)} : files'[g] = files[g]
    BY <1>1, <1>4, <2>3, FileFacts
  <2>5. TypeInv'  BY <2>2, <2>4 DEF TypeInv, Moved
  <2>6. ShapeInv'
    <3>1. Shape(proc'[p])  BY <1>1, <1>2, <2>2 DEF Shape, Moved, Unfinished
    <3> QED  BY <2>2, <3>1, KeepShape DEF IInv
  <2>7. ChainInv'
    <3>1. p \in Emitters => Chained(proc[p].seed)  BY <1>2 DEF IInv, ChainInv
    <3> QED  BY <2>2, <3>1, KeepChain DEF IInv
  <2>8. p \notin Emitters => \A k \in Layers \ {proc[p].out} : files'[k] = files[k]
    BY <2>3, <2>4, LayersAreFiles
  <2>9. SharedInv'
    <3>1. CASE p \notin Emitters  BY <2>2, <2>8, <3>1, KeepShared DEF IInv
    <3>2. CASE p \in Emitters
      <4>1. Emitters' = Emitters  BY <2>2, SameEmitters
      <4> SUFFICES ASSUME NEW s \in Seeds, Together(s)', NEW q \in Emitters, NEW k \in Layers
                   PROVE  /\ HasWritten(q, k)' =>
                               \/ files'[k] = Content(s, k)
                               \/ files'[k] = Empty /\ \E o \in Emitters : IsAt(o, k)'
                          /\ IsAt(q, k)' => files'[k] \in {Empty, Content(s, k)}
        <5> Emitters' = Emitters  BY <4>1
        <5> QED  BY DEF SharedInv, Content, ht_layer_witness_json
      <4>2. \A o \in Emitters \ {p} : proc'[o] = proc[o]  BY <2>2 DEF Moved, Emitters
      <4>3. Together(s)
        <5>1. \A o \in Emitters : proc'[o].seed = s /\ proc'[o].exit \in {None, "ok"}
          BY <4>1 DEF Together
        <5>2. proc[p].seed = s  BY <3>2, <5>1, <2>2 DEF Moved
        <5>3. Apart
          <6>1. \A o \in Procs : proc'[o].out = proc[o].out  BY <2>2 DEF Moved
          <6> QED  BY <6>1 DEF Together, Apart
        <5> QED  BY <1>2, <4>2, <5>1, <5>2, <5>3 DEF Together
      <4>4. CASE k = proc[p].j
        <5>1. files'[k] = Empty  BY <2>3, <2>4, <3>2, <4>4
        <5>2. IsAt(p, k)'  BY <2>2, <4>4 DEF IsAt, Moved
        <5> QED  BY <3>2, <5>1, <5>2
      <4>5. CASE k # proc[p].j
        <5>1. files'[k] = files[k]  BY <2>3, <2>4, <3>2, <4>5, LayersAreFiles
        <5>2. ~IsAt(p, k) /\ ~IsAt(p, k)'  BY <1>2, <2>2, <4>5 DEF IsAt, Moved
        <5>3. \A o \in Emitters \ {p} : IsAt(o, k)' <=> IsAt(o, k)  BY <4>2 DEF IsAt
        <5>4. HasWritten(q, k)' => HasWritten(q, k)
          <6>1. CASE q = p  BY <1>2, <2>1, <2>2, <6>1 DEF HasWritten, Moved
          <6>2. CASE q # p  BY <4>2, <6>2 DEF HasWritten
          <6> QED  BY <6>1, <6>2
        <5>5. /\ HasWritten(q, k) => \/ files[k] = Content(s, k)
                                     \/ files[k] = Empty /\ \E o \in Emitters : IsAt(o, k)
              /\ IsAt(q, k) => files[k] \in {Empty, Content(s, k)}
          BY <4>3 DEF IInv, SharedInv
        <5>6. (\E o \in Emitters : IsAt(o, k)) => \E o \in Emitters : IsAt(o, k)'
          BY <5>2, <5>3
        <5>7. IsAt(q, k)' => IsAt(q, k)  BY <5>2, <5>3
        <5> QED  BY <5>1, <5>4, <5>5, <5>6, <5>7
      <4> QED  BY <4>4, <4>5
    <3> QED  BY <3>1, <3>2
  <2>10. AloneInv'
    <3>1. ASSUME before # None PROVE AloneSoFar(p)'
      <4>1. AloneSoFar(p)  BY <1>2, <3>1 DEF IInv, AloneInv
      <4>2. CASE proc[p].cmd # "emit-layers"
        <5>1. UntouchedBut(proc[p].out)  BY <4>1, <4>2 DEF AloneSoFar, Untouched, UntouchedBut
        <5>2. \A k \in Layers \ {proc[p].out} : files'[k] = before'[k]
          BY <1>2, <2>8, <4>2, <5>1 DEF UntouchedBut, Emitters
        <5> QED  BY <2>2, <4>2, <5>2, ContentAssumption DEF AloneSoFar, Moved, UntouchedBut
      <4>3. CASE proc[p].cmd = "emit-layers"
        <5>1. proc[p].exit # "bail"  BY <1>2, ContentAssumption
        <5>2. PICK n \in 0 .. D : n = proc[p].j  BY <1>2
        <5>3. PrefixTo(p, n)  BY <1>2, <4>1, <4>3, <5>1, <5>2 DEF AloneSoFar
        <5>4. n \in Layers /\ Target(p) = n  BY <2>3, <4>3, <5>2 DEF Emitters
        <5>5. files'[n] = Empty /\ \A k \in Layers \ {n} : files'[k] = files[k]
          BY <2>4, <5>4, LayersAreFiles
        <5>6. PrefixTo(p, n)'  BY <1>2, <2>2, <5>3, <5>5, KeepPrefix DEF Moved
        <5>7. proc'[p].j = n  BY <2>2, <5>2 DEF Moved
        <5>8. PrefixTo(p, proc[p].j)'
          <6> proc'[p].j = n  BY <5>7
          <6> QED  BY <5>6 DEF PrefixTo
        <5> QED  BY <2>2, <4>3, <5>5, <5>7, <5>8, ContentAssumption DEF AloneSoFar, Moved
      <4> QED  BY <4>2, <4>3
    <3> QED  BY <1>2, <2>2, <3>1, KeepAlone DEF IInv
  <2> QED  BY <2>5, <2>6, <2>7, <2>9, <2>10 DEF IInv
<1> QED  BY <1>3, <1>4 DEF Truncate

\* A write that succeeds: together with others of its seed it leaves its layer whole.
LEMMA WriteStep == ASSUME IInv, NEW p \in Procs, Write(p) PROVE IInv'
<1>1. TypeInv /\ Shape(proc[p]) /\ proc[p] \in ProcRecord  BY DEF IInv, ShapeInv, TypeInv
<1>2. /\ proc[p].pc = "write" /\ before' = before /\ proc[p].exit = None
      /\ proc[p].cmd \in Commands /\ proc[p].cmd # "self-check" /\ proc[p].seed \in Seeds
      /\ proc[p].j \in 0 .. D /\ proc[p].j + 1 \in 0 .. D
  BY <1>1 DEF Write, At, Shape, ProcRecord
<1>3. /\ p \in Emitters => Target(p) = proc[p].j /\ proc[p].j \in Layers
      /\ p \notin Emitters => Target(p) = proc[p].out
      /\ Target(p) \in Files
  BY <1>2, TargetFacts
<1>4. CASE files' \in {files, [files EXCEPT ![Target(p)] = Torn]} /\ Exit(p, "io")
  BY <1>2, <1>4, BrokenWriteStep
<1>5. CASE /\ files' \in {[files EXCEPT ![Target(p)] = x] :
                           x \in IF files[Target(p)] \in {Empty, Output(p)}
                                 THEN {Output(p)}
                                 ELSE {Output(p), Torn}}
           /\ proc' = [proc EXCEPT ![p].pc = "open", ![p].j = proc[p].j + 1]
  <2>1. "open" \in Pcs /\ None # "ok"  BY ContentAssumption DEF Pcs
  <2>2. Moved(p, "open", proc[p].j + 1, None)  BY <1>1, <1>2, <1>5, <2>1, SetMoves
  <2>3. PICK x : /\ files' = [files EXCEPT ![Target(p)] = x]
                 /\ files[Target(p)] \in {Empty, Output(p)} =>
                      x = Output(p)
    BY <1>5
  <2>4. /\ files' = [g \in Files |-> files'[g]]
        /\ files'[Target(p)] = x
        /\ \A g \in Files \ {Target(p)} : files'[g] = files[g]
    BY <1>1, <1>3, <2>3, FileFacts
  <2>5. TypeInv'  BY <2>2, <2>4 DEF TypeInv, Moved
  <2>6. ShapeInv'
    <3>1. Shape(proc'[p])  BY <1>1, <1>2, <2>2 DEF Shape, Moved
    <3> QED  BY <2>2, <3>1, KeepShape DEF IInv
  <2>7. ChainInv'
    <3>1. p \in Emitters => Chained(proc[p].seed)  BY <1>2 DEF IInv, ChainInv
    <3> QED  BY <2>1, <2>2, <3>1, KeepChain DEF IInv
  <2>8. p \notin Emitters => \A k \in Layers \ {proc[p].out} : files'[k] = files[k]
    BY <1>3, <2>4, LayersAreFiles
  <2>9. SharedInv'
    <3>1. CASE p \notin Emitters  BY <2>2, <2>8, <3>1, KeepShared DEF IInv
    <3>2. CASE p \in Emitters
      <4>1. Emitters' = Emitters  BY <2>2, SameEmitters
      <4> SUFFICES ASSUME NEW s \in Seeds, Together(s)', NEW q \in Emitters, NEW k \in Layers
                   PROVE  /\ HasWritten(q, k)' =>
                               \/ files'[k] = Content(s, k)
                               \/ files'[k] = Empty /\ \E o \in Emitters : IsAt(o, k)'
                          /\ IsAt(q, k)' => files'[k] \in {Empty, Content(s, k)}
        <5> Emitters' = Emitters  BY <4>1
        <5> QED  BY DEF SharedInv, Content, ht_layer_witness_json
      <4>2. \A o \in Emitters \ {p} : proc'[o] = proc[o]  BY <2>2 DEF Moved, Emitters
      <4>3. Together(s) /\ proc[p].seed = s
        <5>1. \A o \in Emitters : proc'[o].seed = s /\ proc'[o].exit \in {None, "ok"}
          BY <4>1 DEF Together
        <5>2. proc[p].seed = s  BY <3>2, <5>1, <2>2 DEF Moved
        <5>3. Apart
          <6>1. \A o \in Procs : proc'[o].out = proc[o].out  BY <2>2 DEF Moved
          <6> QED  BY <6>1 DEF Together, Apart
        <5> QED  BY <1>2, <4>2, <5>1, <5>2, <5>3 DEF Together
      <4>4. CASE k = proc[p].j
        <5>1. IsAt(p, k)  BY <1>2, <4>4 DEF IsAt
        <5>2. files[k] \in {Empty, Content(s, k)}  BY <3>2, <4>3, <5>1 DEF IInv, SharedInv
        <5>3. files'[k] = Content(s, k)  BY <1>3, <2>3, <2>4, <3>2, <4>3, <4>4, <5>2 DEF Output, Emitters
        <5> QED  BY <5>3
      <4>5. CASE k # proc[p].j
        <5>1. files'[k] = files[k]  BY <1>3, <2>4, <3>2, <4>5, LayersAreFiles
        <5>2. ~IsAt(p, k) /\ ~IsAt(p, k)'  BY <1>2, <2>2, <4>5 DEF IsAt, Moved
        <5>3. \A o \in Emitters \ {p} : IsAt(o, k)' <=> IsAt(o, k)  BY <4>2 DEF IsAt
        <5>4. HasWritten(q, k)' => HasWritten(q, k)
          <6>1. CASE q = p
            BY <1>2, <2>1, <2>2, <4>5, <6>1 DEF HasWritten, Moved, Layers
          <6>2. CASE q # p  BY <4>2, <6>2 DEF HasWritten
          <6> QED  BY <6>1, <6>2
        <5>5. /\ HasWritten(q, k) => \/ files[k] = Content(s, k)
                                     \/ files[k] = Empty /\ \E o \in Emitters : IsAt(o, k)
              /\ IsAt(q, k) => files[k] \in {Empty, Content(s, k)}
          BY <4>3 DEF IInv, SharedInv
        <5>6. (\E o \in Emitters : IsAt(o, k)) => \E o \in Emitters : IsAt(o, k)'
          BY <5>2, <5>3
        <5>7. IsAt(q, k)' => IsAt(q, k)  BY <5>2, <5>3
        <5> QED  BY <5>1, <5>4, <5>5, <5>6, <5>7
      <4> QED  BY <4>4, <4>5
    <3> QED  BY <3>1, <3>2
  <2>10. AloneInv'
    <3>1. ASSUME before # None PROVE AloneSoFar(p)'
      <4>1. AloneSoFar(p)  BY <1>2, <3>1 DEF IInv, AloneInv
      <4>2. CASE proc[p].cmd # "emit-layers"
        <5>1. UntouchedBut(proc[p].out)  BY <4>1, <4>2 DEF AloneSoFar, Untouched, UntouchedBut
        <5>2. \A k \in Layers \ {proc[p].out} : files'[k] = before'[k]
          BY <1>2, <2>8, <4>2, <5>1 DEF UntouchedBut, Emitters
        <5> QED  BY <2>2, <4>2, <5>2, ContentAssumption DEF AloneSoFar, Moved, UntouchedBut
      <4>3. CASE proc[p].cmd = "emit-layers"
        <5>1. proc[p].exit # "bail"  BY <1>2, ContentAssumption
        <5>2. PICK n \in 0 .. D : n = proc[p].j  BY <1>2
        <5>3. PrefixTo(p, n) /\ files[n] = Empty  BY <1>2, <4>1, <4>3, <5>1, <5>2 DEF AloneSoFar
        <5>4. n \in Layers /\ Target(p) = n  BY <1>3, <4>3, <5>2 DEF Emitters
        <5>5. files'[n] = Content(proc[p].seed, n) /\ \A k \in Layers \ {n} : files'[k] = files[k]
          BY <2>3, <2>4, <4>3, <5>2, <5>3, <5>4, LayersAreFiles DEF Output
        <5>6. PrefixTo(p, n + 1)'
          <6>1. proc'[p].seed = proc[p].seed  BY <2>2 DEF Moved
          <6> QED  BY <1>2, <5>3, <5>4, <5>5, <6>1
                   DEF PrefixTo, Content, ht_layer_witness_json, Layers
        <5>7. proc'[p].j = n + 1  BY <2>2, <5>2 DEF Moved
        <5>8. PrefixTo(p, proc[p].j)'
          <6> proc'[p].j = n + 1  BY <5>7
          <6> QED  BY <5>6 DEF PrefixTo
        <5>9. n + 1 < D => files'[n + 1] = before'[n + 1]
          BY <1>2, <5>3, <5>4, <5>5 DEF PrefixTo, Layers
        <5> QED  BY <2>2, <4>3, <5>7, <5>8, <5>9, ContentAssumption DEF AloneSoFar, Moved
      <4> QED  BY <4>2, <4>3
    <3> QED  BY <1>2, <2>2, <3>1, KeepAlone DEF IInv
  <2> QED  BY <2>5, <2>6, <2>7, <2>9, <2>10 DEF IInv
<1> QED  BY <1>4, <1>5 DEF Write
-----------------------------------------------------------------------------
LEMMA IdleFacts ==
    /\ Idle \in [Procs -> ProcRecord]
    /\ \A q \in Procs : Idle[q].pc = "idle" /\ Idle[q].cmd = None /\ Idle[q].out = None /\ Idle[q].exit = None
  BY DEF Idle, ProcRecord, Pcs

LEMMA StartStep ==
    ASSUME IInv, NEW p \in Procs, NEW c \in Commands, NEW s \in Seeds,
           NEW o \in IF c = "emit-monolithic" THEN Outs ELSE {None}, Start(p, c, s, o)
    PROVE  IInv'
<1> DEFINE others == IF Quiet THEN Idle ELSE proc
<1>1. /\ others[p].pc = "idle" /\ files' = files
      /\ proc' = [others EXCEPT ![p].pc = "verify", ![p].cmd = c, ![p].seed = s, ![p].out = o]
      /\ before' = IF Quiet THEN files ELSE None
  BY DEF Start
<1>2. others \in [Procs -> ProcRecord] /\ \A q \in Procs : Shape(others[q])
  <2>1. CASE Quiet  BY <2>1, IdleFacts, ContentAssumption DEF Commands, Shape
  <2>2. CASE ~Quiet  BY <2>2 DEF IInv, TypeInv, ShapeInv
  <2> QED  BY <2>1, <2>2
<1> HIDE DEF others
<1>3. others[p] \in ProcRecord /\ Shape(others[p])  BY <1>2
<1>4. others[p].exit = None /\ others[p].cmd = None  BY <1>1, <1>3 DEF Shape
<1>5. /\ proc'[p] \in ProcRecord
      /\ proc'[p].pc = "verify" /\ proc'[p].cmd = c /\ proc'[p].seed = s /\ proc'[p].out = o /\ proc'[p].exit = None
      /\ \A q \in Procs \ {p} : proc'[q] = others[q]
      /\ proc' \in [Procs -> ProcRecord]
  <2> DEFINE r == [others[p] EXCEPT !.pc = "verify", !.cmd = c, !.seed = s, !.out = o]
  <2>1. /\ r \in ProcRecord
        /\ r.pc = "verify" /\ r.cmd = c /\ r.seed = s /\ r.out = o /\ r.exit = None
    BY <1>3, <1>4 DEF ProcRecord, Pcs
  <2>2. proc' = [others EXCEPT ![p] = r]  BY <1>1, <1>2
  <2> HIDE DEF r
  <2> QED  BY <1>2, <2>1, <2>2
<1>6. TypeInv'
  BY <1>1, <1>5 DEF TypeInv, IInv
<1>7. ShapeInv'
  <2>1. Shape(proc'[p])  BY <1>5, ContentAssumption DEF Shape
  <2>2. \A q \in Procs : Shape(proc'[q])  BY <1>2, <1>5, <2>1
  <2> QED  BY <2>2 DEF ShapeInv, Shape
<1>8. CASE Quiet
  <2>1. \A q \in Procs \ {p} : proc'[q].pc = "idle" /\ proc'[q].cmd = None
    BY <1>5, <1>8, IdleFacts DEF others
  <2>2. Emitters' \subseteq {p}  BY <2>1, ContentAssumption DEF Emitters, Commands
  <2>3. ChainInv'
    BY <1>5, <2>2, ContentAssumption DEF ChainInv
  <2>4. SharedInv'
    BY <1>5, <2>2, ContentAssumption DEF SharedInv, HasWritten, IsAt
  <2>5. Untouched'  BY <1>1, <1>8 DEF Untouched
  <2>6. AloneSoFar(p)'  BY <1>5, <2>5 DEF AloneSoFar
  <2>7. AloneInv'
    <3> SUFFICES ASSUME NEW q \in Procs, proc'[q].pc # "idle"
                 PROVE  /\ \A e \in Procs \ {q} : proc'[e].pc = "idle"
                        /\ AloneSoFar(q)'
      BY DEF AloneInv
    <3>1. q = p  BY <2>1
    <3> QED  BY <2>1, <2>6, <3>1
  <2> QED  BY <1>6, <1>7, <2>3, <2>4, <2>7 DEF IInv
<1>9. CASE ~Quiet
  <2>1. \A q \in Procs \ {p} : proc'[q] = proc[q]  BY <1>5, <1>9 DEF others
  <2>2. p \notin Emitters  BY <1>4, <1>9, ContentAssumption DEF Emitters, others, Commands
  <2>3. Emitters \subseteq Emitters' /\ Emitters' \subseteq Emitters \cup {p}
        /\ \A q \in Emitters : q \in Procs \ {p}
    BY <2>1, <2>2 DEF Emitters
  <2>4. ChainInv'
    <3> SUFFICES ASSUME NEW q \in Emitters'
                 PROVE  /\ proc'[q].pc = "chain" => Linked(proc'[q].seed, proc'[q].j)
                        /\ proc'[q].pc \in {"mkdir", "open", "write"} \/ proc'[q].exit = "ok" =>
                             Chained(proc'[q].seed)
      BY DEF ChainInv, Chained, Linked
    <3>1. CASE q = p  BY <1>5, <3>1, ContentAssumption
    <3>2. CASE q # p
      <4>1. q \in Emitters /\ proc'[q] = proc[q]  BY <2>1, <2>3, <3>2
      <4> QED  BY <4>1 DEF IInv, ChainInv
    <3> QED  BY <3>1, <3>2
  <2>5. SharedInv'
    <3> SUFFICES ASSUME NEW t \in Seeds, Together(t)', NEW q \in Emitters', NEW k \in Layers
                 PROVE  /\ HasWritten(q, k)' =>
                             \/ files'[k] = Content(t, k)
                             \/ files'[k] = Empty /\ \E e \in Emitters' : IsAt(e, k)'
                        /\ IsAt(q, k)' => files'[k] \in {Empty, Content(t, k)}
      BY DEF SharedInv, Content, ht_layer_witness_json
    <3>1. CASE q = p  BY <1>5, <3>1, ContentAssumption DEF HasWritten, IsAt
    <3>2. CASE q # p
      <4>1. q \in Emitters /\ \A e \in Emitters : proc'[e] = proc[e] /\ e \in Emitters'
        BY <2>1, <2>3, <3>2
      <4>2. \A e \in Emitters' : proc'[e].seed = t /\ proc'[e].exit \in {None, "ok"}
        BY DEF Together
      <4>3. Together(t)
        <5>1. Apart
          <6>1. \A e \in Procs \ {p} : proc'[e].out = proc[e].out  BY <2>1
          <6>2. proc[p].out = None  BY <1>1, <1>9 DEF others, IInv, ShapeInv, Shape
          <6> QED  BY <6>1, <6>2, ContentAssumption, LayersAreFiles DEF Together, Apart
        <5> QED  BY <4>1, <4>2, <5>1 DEF Together
      <4>4. /\ HasWritten(q, k) => \/ files[k] = Content(t, k)
                                   \/ files[k] = Empty /\ \E e \in Emitters : IsAt(e, k)
            /\ IsAt(q, k) => files[k] \in {Empty, Content(t, k)}
        BY <4>1, <4>3 DEF IInv, SharedInv
      <4>5. (HasWritten(q, k)' <=> HasWritten(q, k)) /\ \A e \in Emitters : IsAt(e, k)' <=> IsAt(e, k)
        BY <4>1 DEF HasWritten, IsAt
      <4> QED  BY <1>1, <4>1, <4>4, <4>5
    <3> QED  BY <3>1, <3>2
  <2>6. AloneInv'  BY <1>1, <1>9 DEF AloneInv
  <2> QED  BY <1>6, <1>7, <2>4, <2>5, <2>6 DEF IInv
<1> QED  BY <1>8, <1>9
-----------------------------------------------------------------------------
LEMMA InitInv == Init => IInv
<1> SUFFICES ASSUME Init PROVE IInv  OBVIOUS
<1>1. proc = Idle /\ files = [f \in Files |-> None]  BY DEF Init
<1>2. \A q \in Procs : proc[q].pc = "idle" /\ proc[q].cmd = None /\ proc[q].out = None /\ proc[q].exit = None
  BY <1>1, IdleFacts
<1>3. TypeInv  BY <1>1, IdleFacts DEF TypeInv
<1>4. ShapeInv  BY <1>2, ContentAssumption DEF Commands, ShapeInv, Shape
<1>5. Emitters = {}  BY <1>2, ContentAssumption DEF Emitters, Commands
<1>6. ChainInv /\ SharedInv  BY <1>5 DEF ChainInv, SharedInv
<1>7. AloneInv  BY <1>2 DEF AloneInv
<1> QED  BY <1>3, <1>4, <1>6, <1>7 DEF IInv

LEMMA StepInv == IInv /\ [Next]_vars => IInv'
<1> SUFFICES ASSUME IInv, [Next]_vars PROVE IInv'  OBVIOUS
<1>1. CASE \E p \in Procs : Step(p)
  <2>1. PICK p \in Procs : Step(p)  BY <1>1
  <2> QED  BY <2>1, StartStep, VerifyStep, LinkSteps, MakeDirStep, TruncateStep, WriteStep,
              WrittenStep, KillStep DEF Step
<1>2. CASE UNCHANGED vars
  <2> UNCHANGED <<proc, files, before>>  BY <1>2 DEF vars
  <2>1. TypeInv' /\ ShapeInv' /\ ChainInv' /\ AloneInv'
    <3>1. TypeInv'  BY DEF IInv, TypeInv
    <3>2. ShapeInv'  BY DEF IInv, ShapeInv, Shape
    <3>3. ChainInv'  BY DEF IInv, ChainInv, Emitters, Linked, Chained
    <3>4. AloneInv'
      <4>1. \A p, n : PrefixTo(p, n)' <=> PrefixTo(p, n)
        BY DEF PrefixTo, Content, ht_layer_witness_json
      <4> SUFFICES ASSUME before # None, NEW p \in Procs, proc[p].pc # "idle"
                   PROVE  (\A q \in Procs \ {p} : proc[q].pc = "idle") /\ AloneSoFar(p)'
        BY DEF AloneInv
      <4>2. (\A q \in Procs \ {p} : proc[q].pc = "idle") /\ AloneSoFar(p)  BY DEF IInv, AloneInv
      <4>3. PrefixTo(p, proc[p].j)' <=> PrefixTo(p, proc[p].j)
        BY DEF PrefixTo, Content, ht_layer_witness_json
      <4>4. Untouched' <=> Untouched  BY DEF Untouched
      <4>5. \A f : UntouchedBut(f)' <=> UntouchedBut(f)  BY DEF UntouchedBut
      <4> QED  BY <4>1, <4>2, <4>3, <4>4, <4>5 DEF AloneSoFar
    <3> QED  BY <3>1, <3>2, <3>3, <3>4
  <2>2. SharedInv'
    BY DEF IInv, SharedInv, Together, Apart, Emitters, HasWritten, IsAt, Content, ht_layer_witness_json
  <2> QED  BY <2>1, <2>2 DEF IInv
<1> QED  BY <1>1, <1>2 DEF Next, Finished

LEMMA InvariantHolds == Spec => []IInv
<1> QED  BY InitInv, StepInv, PTL DEF Spec
-----------------------------------------------------------------------------
LEMMA ContentFacts ==
    ASSUME NEW s \in Seeds, NEW k \in Layers
    PROVE  /\ Content(s, k) \notin {None, Empty, Torn}
           /\ Content(s, k).seed = s /\ Content(s, k).file = k
           /\ JsInteger(Content(s, k).json.tree_low) = Witness(s, k).tree_low
           /\ Content(s, k).json.prev_root = Witness(s, k).prev_root
<1>1. k # Mono /\ k \in Files  BY DEF Layers, Mono, Files
<1> QED  BY <1>1, ContentAssumption DEF Content, ht_layer_witness_json, JsInteger

LEMMA ChainFromInv == IInv => OkMeansOneChain
<1> SUFFICES ASSUME IInv, NEW s \in Seeds, Quiet, Emitters # {}, Apart,
                    \A p \in Emitters : proc[p].exit = "ok" /\ proc[p].seed = s
             PROVE  /\ \A k \in Layers :
                         /\ files[k] \notin {None, Empty, Torn} /\ files[k].seed = s /\ files[k].file = k
                         /\ JsInteger(files[k].json.tree_low) = Witness(s, k).tree_low
                         /\ k > 0 => files[k].json.prev_root = Witness(s, k - 1).next_root
                    /\ Witness(s, D - 1).next_root = Root(s)
  BY DEF OkMeansOneChain
<1>1. PICK p \in Emitters : TRUE  OBVIOUS
<1>2. Together(s) /\ \A k \in Layers : HasWritten(p, k)  BY DEF Together, HasWritten
<1>3. Chained(s)  BY DEF IInv, ChainInv
<1>4. ASSUME NEW q \in Emitters, NEW k \in Layers PROVE ~IsAt(q, k)
  BY DEF Quiet, Running, Emitters, IsAt
<1>5. \A k \in Layers : files[k] = Content(s, k)  BY <1>2, <1>4 DEF IInv, SharedInv
<1>6. ASSUME NEW k \in Layers, k > 0
      PROVE  Witness(s, k).prev_root = Witness(s, k - 1).next_root
  BY <1>3, <1>6 DEF Chained, Linked, Layers
<1> QED  BY <1>3, <1>5, <1>6, ContentFacts DEF Chained

\* However many processes share the directory and however their truncations and writes
\* interleave, once they are all gone and every emit-layers reported success with one
\* seed, the seven files are that seed's, chain to its root and are read back exactly.
THEOREM OkMeansOneChainHolds == Spec => []OkMeansOneChain
<1> QED  BY InvariantHolds, ChainFromInv, PTL

LEMMA PrefixFromInv == IInv => InterruptedLeavesPrefix
<1> SUFFICES ASSUME IInv, NEW p \in Procs, Quiet, before # None, proc[p].exit \in {"bail", "io", "killed"}
             PROVE  /\ proc[p].exit = "bail" => \A k \in Layers : files[k] = before[k]
                    /\ proc[p].cmd # "emit-layers" => \A k \in Layers \ {proc[p].out} : files[k] = before[k]
                    /\ proc[p].cmd = "emit-layers" =>
                         \E n \in 0 .. D : \A k \in Layers :
                             /\ k < n => files[k] = Content(proc[p].seed, k)
                             /\ k = n => files[k] \in {Empty, Torn, before[k]}
                             /\ k > n => files[k] = before[k]
  BY DEF InterruptedLeavesPrefix
<1>1. proc[p].pc = "done"
  <2>1. Shape(proc[p])  BY DEF IInv, ShapeInv
  <2> QED  BY <2>1, ContentAssumption DEF Shape
<1>2. AloneSoFar(p)  BY <1>1 DEF IInv, AloneInv
<1>3. CASE proc[p].exit = "bail"
  <2>1. Untouched  BY <1>2, <1>3 DEF AloneSoFar
  <2>2. 0 \in 0 .. D /\ PrefixTo(p, 0)  BY <2>1 DEF Untouched, PrefixTo, Layers
  <2> QED  BY <2>1, <2>2 DEF Untouched, PrefixTo
<1>4. CASE proc[p].exit # "bail" /\ proc[p].cmd # "emit-layers"
  BY <1>1, <1>2, <1>4 DEF AloneSoFar, UntouchedBut
<1>5. CASE proc[p].exit # "bail" /\ proc[p].cmd = "emit-layers"
  <2>1. PICK n \in 0 .. D : PrefixTo(p, n)  BY <1>1, <1>2, <1>5 DEF AloneSoFar
  <2> QED  BY <1>5, <2>1 DEF PrefixTo
<1> QED  BY <1>3, <1>4, <1>5

\* A process that ran alone and failed or was killed leaves a prefix of its own layers,
\* at most one damaged file, and the rest as it found it, wherever it stopped.
THEOREM InterruptedLeavesPrefixHolds == Spec => []InterruptedLeavesPrefix
<1> QED  BY InvariantHolds, PrefixFromInv, PTL
=============================================================================
