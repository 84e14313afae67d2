\* One batch of one transaction is enough.
SPECIFICATION Spec

CONSTANTS
  plain = plain
  loaded = loaded
  inner = inner
  bare = bare
  a = a
  b = b
  program = program
  Transactions <- Chain
  Addresses = {a, b, program}
  Static <- StaticKeys
  Writable <- WritableKeys
  ReadOnly <- ReadOnlyKeys
  Compiled <- CompiledInstructions
  Inner <- InnerInstructions
  MaxLength = 1
  MaxBatches = 1

INVARIANTS
  AccountsAsListed

CHECK_DEADLOCK FALSE
