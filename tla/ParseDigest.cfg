\* 482 digests: one bit set, one bit clear, two stripes.
CONSTANT Digests <- MCDigests
SPECIFICATION Spec
INVARIANTS TypeOK FieldsAreBitStrings Exact
