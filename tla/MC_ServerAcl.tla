---------------------------- MODULE MC_ServerAcl ----------------------------
EXTENDS ServerAcl

MCHosts == {<<"a">>, <<"a", ".", "b">>, <<"b", ".", "b">>, <<"1">>}
MCIpHosts == {<<"1">>}
MCAclPatterns == {<<"*">>, <<"*", ".", "b">>, <<"a">>, <<"1">>}
=============================================================================
