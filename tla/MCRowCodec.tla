----------------------------- MODULE MCRowCodec -----------------------------
(***************************************************************************)
(* RowCodec with four transactions over three addresses: accounts that     *)
(* repeat, loaded addresses, two instructions, an inner instruction, and   *)
(* an instruction without accounts.                                        *)
(***************************************************************************)
EXTENDS RowCodec

CONSTANTS plain, loaded, inner, bare, a, b, program

Chain == {plain, loaded, inner, bare}

StaticKeys ==
  [t \in Chain |-> IF t = loaded THEN <<b>> ELSE <<a, program>>]

WritableKeys ==
  [t \in Chain |-> IF t = loaded THEN <<a>> ELSE <<>>]

ReadOnlyKeys ==
  [t \in Chain |-> IF t = loaded THEN <<program>> ELSE <<>>]

Instruction(p, as) == [program |-> p, accounts |-> as]

CompiledInstructions ==
  [t \in Chain |->
     CASE t = plain  -> <<Instruction(2, <<1, 2, 1>>)>>
       [] t = loaded -> <<Instruction(3, <<2, 1, 2>>), Instruction(3, <<1, 2>>)>>
       [] t = inner  -> <<Instruction(2, <<1>>)>>
       [] t = bare   -> <<Instruction(2, <<>>)>>]

InnerInstructions ==
  [t \in Chain |->
     [i \in DOMAIN CompiledInstructions[t] |->
        IF t = inner THEN <<Instruction(2, <<1, 1>>)>> ELSE <<>>]]

=============================================================================
