------------------------------ MODULE MCSignIn ------------------------------
(***************************************************************************)
(* Instances of SignIn small enough for TLC.                               *)
(***************************************************************************)
EXTENDS SignIn, TLC

CONSTANTS t1, t2, t3, b1, b2, b3, a1, a2

\* Two tabs of one browser, and one of another.
TwoTabs == {t1, t2, t3}

TwoBrowsers == {b1, b2}

TabsOfBrowsers == t1 :> b1 @@ t2 :> b1 @@ t3 :> b2

\* One tab each.
OneTabEach == t1 :> b1 @@ t2 :> b2 @@ t3 :> b3

ThreeBrowsers == {b1, b2, b3}

TwoAccounts == {a1, a2}

AllDisturbances == {"expire", "lose", "fail", "kill", "github"}

Calm == {}

\* The accounts are alike, and so are the two tabs of b1.
Alike == Permutations(TwoAccounts) \cup Permutations({t1, t2})

=============================================================================
