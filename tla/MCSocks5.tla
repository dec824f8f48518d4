------------------------------ MODULE MCSocks5 ------------------------------
(* Clients for module Socks5: each kind of address, ports that need both   *)
(* bytes, methods in any order, and what a client may get wrong.           *)
EXTENDS Socks5

MCIPv4 == [type |-> 1, data |-> <<10, 0, 0, 1>>, port |-> 80]
MCIPv6 == [type |-> 4, data |-> [i \in 1 .. 16 |-> IF i = 16 THEN 1 ELSE 0], port |-> 65535]
MCDomain == [type |-> 3, data |-> <<97, 98>>, port |-> 256]
MCNoDomain == [type |-> 3, data |-> <<>>, port |-> 255]
MCUnknown == [type |-> 2, data |-> <<7>>, port |-> 0]

MCAccount == <<<<65>>, <<66, 67>>>>
MCAccounts == {MCAccount, <<<<65>>, <<>>>>}

MCScript(methods, cred, cmd, addr) ==
  [hello |-> 5, methods |-> methods, cred |-> cred, ver |-> 5, cmd |-> cmd,
   addr |-> addr, data |-> <<5, 6>>]

MCScripts ==
  { MCScript(<<0>>, <<>>, 1, MCIPv4),
    MCScript(<<1, 0>>, <<>>, 1, MCIPv6),
    MCScript(<<2, 0>>, <<MCAccount>>, 1, MCDomain),
    MCScript(<<2>>, <<MCAccount>>, 1, MCNoDomain),
    MCScript(<<0, 2>>, <<>>, 2, MCDomain),
    MCScript(<<2, 0>>, <<>>, 3, MCNoDomain),
    MCScript(<<0>>, <<>>, 1, MCUnknown),
    [MCScript(<<0>>, <<>>, 1, MCIPv4) EXCEPT !.hello = 4],
    [MCScript(<<0>>, <<>>, 1, MCIPv4) EXCEPT !.ver = 4] }

=============================================================================
