---------------------------- MODULE MCSsoLogin ----------------------------
EXTENDS SsoLogin, TLC

\* Everyone and both providers, the staff and one of them, and a typing error.
Both  == [valid |-> TRUE,  providers |-> {"oidc", "saml"}, allowed |-> {"ann", "bob"}]
Alone == [valid |-> TRUE,  providers |-> {"oidc"}, allowed |-> {"ann"}]
Wrong == [valid |-> FALSE, providers |-> {}, allowed |-> {}]

MCDocument == {Both, Alone, Wrong}
MCLocal == <<"ann">>
Symmetric == Permutations(Worker)
=============================================================================
