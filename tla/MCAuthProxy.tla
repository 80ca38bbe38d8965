----------------------------- MODULE MCAuthProxy -----------------------------
(* Model-checking instances of AuthProxy.                                   *)
EXTENDS AuthProxy, TLC

LedgerSymmetry == Permutations(Names) \cup Permutations(Runs)
                  \cup Permutations(Values) \cup Permutations(Calls)
RefreshSymmetry == Permutations(Requests) \cup Permutations(Calls)
                   \cup Permutations(Values)

ApiOnly == {"api"}
OAuth == {"claude", "refresh"}
NoKinds == {}
=============================================================================
