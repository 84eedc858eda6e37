SPECIFICATION Spec
CONSTANT Inputs <- AllInputs
INVARIANTS CodecTypeOK DecodedIsEncoded
PROPERTY HuffmanSpec
CHECK_DEADLOCK FALSE
