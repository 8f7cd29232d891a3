------------------------------ MODULE EmitLayers ------------------------------
(***************************************************************************)
(* The command line of the signer (bin/cli.rs): self-check,                *)
(* emit-monolithic and emit-layers.  A user starts processes over the same *)
(* output paths, one after another or several at once.  emit-layers writes *)
(* layer_0.json to layer_6.json one by one and in place: fs::write first   *)
(* truncates a file and then writes it, either can fail, the process can   *)
(* be killed at any point, and nothing keeps another process from doing    *)
(* the same to the same file in between.                                   *)
(***************************************************************************)
EXTENDS Integers, FiniteSets

CONSTANTS
    D,              \* layers of a signature (7)
    Seeds,          \* values of --seed
    None,           \* no such file
    Empty,          \* a file that was truncated
    Torn,           \* a file with part of a witness, or parts of two
    Witness(_, _),  \* ht_layer_witnesses of a seed's signature, layer k: [tree_low, prev_root, next_root]
    Root(_),        \* the seed's pk_root
    Verifies(_),    \* what verify says of the seed's signature
    Outs,           \* files --out may name, each a layer or input.json
    MAX_SAFE,       \* the largest odd integer a JSON number holds exactly (2^53 - 1)
    MaxRuns,        \* bound: processes the user starts
    MaxAtOnce       \* bound: processes that run at the same time

Layers == 0 .. D - 1
Mono   == D              \* input.json, among the files
Files  == 0 .. D
Procs  == 1 .. MaxRuns

ASSUME SizeAssumption == D \in Nat \ {0} /\ MaxRuns \in Nat /\ MaxAtOnce \in Nat /\ MAX_SAFE \in Nat

Commands == {"self-check", "emit-monolithic", "emit-layers"}

VARIABLES
    proc,     \* proc[p]: [pc, cmd, seed, out, j, exit]; exit is None, "ok", "bail", "io", "killed"
    dir,      \* the output directories that exist: "out", "out-dir"
    files,    \* what each file holds
    runs,     \* processes started so far
    before    \* history: the files when the only process of proc started; None if it is not alone

vars == <<proc, dir, files, runs, before>>

\* proc holds the processes started since none was running.
Idle == [p \in Procs |-> [pc |-> "idle", cmd |-> None, seed |-> None, out |-> None, j |-> 0, exit |-> None]]

Init ==
    /\ proc = Idle /\ runs = 0
    /\ dir \in {{}, {"out"}}     \* --out may name a file of the working directory
    /\ files = [f \in Files |-> None]
    /\ before = files

At(p, where) == proc[p].pc = where
Running == {p \in Procs : proc[p].pc \notin {"idle", "done"}}
Quiet   == Running = {}

Go(p, where)  == proc' = [proc EXCEPT ![p].pc = where]
Exit(p, how)  == proc' = [proc EXCEPT ![p].pc = "done", ![p].j = 0, ![p].exit = how]

(***************************************************************************)
(* A process starts, derives its inputs from the seed, and signs.  For     *)
(* emit-monolithic o is the file --out names: nothing keeps a user from    *)
(* naming one of the layers.                                               *)
(***************************************************************************)
Start(p, c, s, o) ==
    /\ runs < MaxRuns /\ Cardinality(Running) < MaxAtOnce
    /\ LET others == IF Quiet THEN Idle ELSE proc
       IN  /\ others[p].pc = "idle" /\ \A q \in 1 .. p - 1 : others[q].pc # "idle"
           /\ proc' = [others EXCEPT ![p].pc = "verify", ![p].cmd = c, ![p].seed = s, ![p].out = o]
    /\ runs' = runs + 1
    /\ before' = IF Quiet THEN files ELSE None
    /\ UNCHANGED <<dir, files>>

(***************************************************************************)
(* Every command verifies the signature it made and bails out otherwise.   *)
(***************************************************************************)
Verify(p) ==
    /\ At(p, "verify")
    /\ \/ ~Verifies(proc[p].seed) /\ Exit(p, "bail")
       \/ /\ Verifies(proc[p].seed)
          /\ \/ proc[p].cmd = "self-check" /\ Exit(p, "ok")
             \/ proc[p].cmd = "emit-monolithic" /\ Go(p, "mkdir")
             \/ proc[p].cmd = "emit-layers"
                /\ proc' = [proc EXCEPT ![p].pc = "chain", ![p].j = 1]
    /\ UNCHANGED <<dir, files, runs, before>>

(***************************************************************************)
(* emit-layers: layer j must start from the root of layer j - 1, and the   *)
(* last one end at pk_root.                                                *)
(***************************************************************************)
CheckLink(p) ==
    LET w(k) == Witness(proc[p].seed, k)
        j    == proc[p].j
    IN  /\ At(p, "chain") /\ j < D
        /\ IF w(j).prev_root = w(j - 1).next_root
           THEN proc' = [proc EXCEPT ![p].j = j + 1] ELSE Exit(p, "bail")
        /\ UNCHANGED <<dir, files, runs, before>>

CheckRoot(p) ==
    /\ At(p, "chain") /\ proc[p].j = D
    /\ IF Witness(proc[p].seed, D - 1).next_root = Root(proc[p].seed)
       THEN Go(p, "mkdir") ELSE Exit(p, "bail")
    /\ UNCHANGED <<dir, files, runs, before>>

(***************************************************************************)
(* create_dir_all: no effect on a directory that exists.                   *)
(***************************************************************************)
Directory(p) == IF proc[p].out = Mono THEN "out" ELSE "out-dir"

MakeDir(p) ==
    /\ At(p, "mkdir")
    /\ \/ /\ dir' = dir \cup {Directory(p)}
          /\ proc' = [proc EXCEPT ![p].pc = "open", ![p].j = 0]
       \/ Directory(p) \notin dir /\ Exit(p, "io") /\ UNCHANGED dir
    /\ UNCHANGED <<files, runs, before>>
-----------------------------------------------------------------------------
\* Faulty: tree_low is a JSON number.
faulty_ht_layer_witness_json(w) ==
    [tree_low |-> [number |-> w.tree_low], prev_root |-> w.prev_root]

\* The scalars are decimal strings; next_root is the circuit's output.
ht_layer_witness_json(w) ==
    [tree_low |-> [string |-> w.tree_low], prev_root |-> w.prev_root]

\* The circuit's witness calculator, which keeps numbers as doubles.
JsInteger(v) ==
    IF "string" \in DOMAIN v THEN v.string
    ELSE IF v.number <= MAX_SAFE THEN v.number ELSE v.number - (v.number % 2)

\* The file a process is at, and what it writes there.
Target(p) == IF proc[p].cmd = "emit-layers" THEN proc[p].j ELSE proc[p].out

Content(s, f) ==
    IF f = Mono THEN [seed |-> s, file |-> f]          \* witness_json copies the signature
    ELSE [seed |-> s, file |-> f, json |-> ht_layer_witness_json(Witness(s, f))]

Output(p) == Content(proc[p].seed, IF proc[p].cmd = "emit-layers" THEN proc[p].j ELSE Mono)

\* What a process writes is told apart from a missing, an empty or a torn file.
ASSUME ContentAssumption ==
    /\ Outs \subseteq Files
    /\ None \notin Commands \cup {"ok", "bail", "io", "killed"} /\ None \notin Files
    /\ \A s \in Seeds, f \in Files : Content(s, f) \notin {None, Empty, Torn}

Unfinished(p) == IF proc[p].cmd = "emit-layers" THEN proc[p].j < D ELSE proc[p].j = 0

\* fs::write opens and truncates the file, or fails before it touches it.
Truncate(p) ==
    /\ At(p, "open") /\ Unfinished(p)
    /\ \/ files' = [files EXCEPT ![Target(p)] = Empty] /\ Go(p, "write")
       \/ Exit(p, "io") /\ UNCHANGED files
    /\ UNCHANGED <<dir, runs, before>>

\* Faulty: a write that fails is not reported.
FaultyWrite(p) ==
    /\ At(p, "write")
    /\ files' \in {[files EXCEPT ![Target(p)] = c] : c \in {Output(p), Torn}}
    /\ proc' = [proc EXCEPT ![p].pc = "open", ![p].j = @ + 1]
    /\ UNCHANGED <<dir, runs, before>>

(***************************************************************************)
(* Then it writes from the start of the file.  Bytes that another process  *)
(* has put there since the truncation stay behind if there are more of     *)
(* them; those of the same seed are the same bytes.                        *)
(***************************************************************************)
Write(p) ==
    LET f == Target(p)
        c == Output(p)
    IN  /\ At(p, "write")
        /\ \/ /\ files' \in {[files EXCEPT ![f] = x] :
                               x \in IF files[f] \in {Empty, c} THEN {c} ELSE {c, Torn}}
              /\ proc' = [proc EXCEPT ![p].pc = "open", ![p].j = @ + 1]
           \/ files' \in {files, [files EXCEPT ![f] = Torn]} /\ Exit(p, "io")
        /\ UNCHANGED <<dir, runs, before>>

Written(p) ==
    /\ At(p, "open") /\ ~Unfinished(p)
    /\ Exit(p, "ok")
    /\ UNCHANGED <<dir, files, runs, before>>

\* The process is killed, inside a write or elsewhere.
Kill(p) ==
    /\ p \in Running
    /\ Exit(p, "killed")
    /\ files' \in {files} \cup (IF At(p, "write") THEN {[files EXCEPT ![Target(p)] = Torn]} ELSE {})
    /\ UNCHANGED <<dir, runs, before>>

Finished == Quiet /\ runs = MaxRuns /\ UNCHANGED vars

Step(p) ==
    \/ \E c \in Commands, s \in Seeds :
         \E o \in IF c = "emit-monolithic" THEN Outs ELSE {None} : Start(p, c, s, o)
    \/ Verify(p) \/ CheckLink(p) \/ CheckRoot(p) \/ MakeDir(p)
    \/ Truncate(p) \/ Write(p) \/ Written(p)
    \/ Kill(p)

Next == (\E p \in Procs : Step(p)) \/ Finished

Spec == Init /\ [][Next]_vars
-----------------------------------------------------------------------------
Emitters == {p \in Procs : proc[p].cmd = "emit-layers"}

\* No emit-monolithic among the processes of now names one of the layers.
Apart == \A p \in Procs : proc[p].out \notin Layers

(***************************************************************************)
(* Once emit-layers has succeeded and nothing else is running, the         *)
(* directory holds the layers of one signature, they chain to its pk_root, *)
(* and the witness calculator reads from them what the signer put in,      *)
(* whatever earlier runs left there and other commands do.  Several        *)
(* processes at once may share the directory only if all of them succeed   *)
(* and have one seed, and no --out points into it; two seeds can mix, a    *)
(* monolithic witness can replace a layer, and nothing reports either.     *)
(***************************************************************************)
OkMeansOneChain ==
    \A s \in Seeds :
        /\ Quiet /\ Emitters # {} /\ Apart
        /\ \A p \in Emitters : proc[p].exit = "ok" /\ proc[p].seed = s
        => /\ \A k \in Layers :
                /\ files[k] \notin {None, Empty, Torn} /\ files[k].seed = s /\ files[k].file = k
                /\ JsInteger(files[k].json.tree_low) = Witness(s, k).tree_low
                /\ k > 0 => files[k].json.prev_root = Witness(s, k - 1).next_root
           /\ Witness(s, D - 1).next_root = Root(s)

(***************************************************************************)
(* A run that was alone and did not succeed leaves a prefix of its own     *)
(* layers, at most one torn file after it, and every later layer as it     *)
(* found it; one that bailed out leaves every layer as it was, and another *)
(* command every layer but the one its --out may name.                     *)
(***************************************************************************)
InterruptedLeavesPrefix ==
    \A p \in Procs :
        Quiet /\ before # None /\ proc[p].exit \in {"bail", "io", "killed"} =>
            /\ proc[p].exit = "bail" => \A k \in Layers : files[k] = before[k]
            /\ proc[p].cmd # "emit-layers" => \A k \in Layers \ {proc[p].out} : files[k] = before[k]
            /\ proc[p].cmd = "emit-layers" =>
                 \E n \in 0 .. D : \A k \in Layers :
                     /\ k < n => files[k] = Content(proc[p].seed, k)
                     /\ k = n => files[k] \in {Empty, Torn, before[k]}
                     /\ k > n => files[k] = before[k]
=============================================================================
