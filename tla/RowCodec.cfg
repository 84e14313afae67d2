\* Three batches of up to two transactions, clients that insert any address.
SPECIFICATION Spec

CONSTANTS
  plain = plain
  loaded = loaded
  inner = inner
  bare = bare
  a = a
  b = b
  program = program
  Transactions <- Chain
  Addresses = {a, b, program}
  Static <- StaticKeys
  Writable <- WritableKeys
  ReadOnly <- ReadOnlyKeys
  Compiled <- CompiledInstructions
  Inner <- InnerInstructions
  MaxLength = 2
  MaxBatches = 3

INVARIANTS
  TypeOK
  IdsResolve
  ReadBack
  UpdateIsValid

PROPERTY
  ImplementsBatches

CHECK_DEADLOCK FALSE
