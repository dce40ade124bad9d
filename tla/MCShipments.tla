---------------------------- MODULE MCShipments ----------------------------
EXTENDS Shipments, TLC

\* One digit for nine, and prefixes that end like numbers do.
MCChar == {"A", "1", "2"}
MCDefault == <<"A">>
MCPrefix == {<<"A">>, <<"A", "1">>}
MCDigits == <<<<"1">>, <<"2">>>>
MCTyped == {<<"A", "1">>}
Symmetric == Permutations(Worker)

\* Forms come into use when nothing is being created, which they have no part in.
Used(b) == asked[b] # {} \/ forms[b].number # NoNumber
Narrow == (\E w \in Worker : job[w].at \in {"rows", "number"}) => ~\E b \in Browser : Used(b)
============================================================================
