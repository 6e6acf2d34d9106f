-------------------------------- MODULE MCPki --------------------------------
(***************************************************************************)
(* Three runs: two that write into one directory, with the same or with    *)
(* different kinds of certificate, and a third that writes there too or    *)
(* replaces, with --force, the CA that is to sign.                         *)
(***************************************************************************)
EXTENDS PkiBundle, TLC

CA(key, until) == [key |-> key, issuer |-> key, isCA |-> TRUE, from |-> 0, until |-> until]
Old(data, mode) == [data |-> data, mode |-> mode, whole |-> TRUE, by |-> Nil]
Empty == [name \in FileNames |-> Nil]

MCInitialFiles ==
  [pki |-> [Empty EXCEPT !["ca.pem"] = Old(CA("old", 2), "0644"), !["ca-key.pem"] = Old([key |-> "old"], "0600")],
   new |-> Empty,
   used |-> [Empty EXCEPT !["key.pem"] = Old([key |-> "older"], "0600"),
                           !["ca-key.pem"] = Old([key |-> "older"], "0600")]]

Base == [kind |-> "client", name |-> "n", out |-> "new", caCert |-> "pki", caKey |-> "pki", days |-> 1, sans |-> {}, force |-> FALSE]
Client == Base
Server == [Base EXCEPT !.kind = "server", !.sans = {"host"}]
NewCA  == [Base EXCEPT !.kind = "ca", !.days = 0]
Rotate == [NewCA EXCEPT !.out = "pki", !.force = TRUE]

Leaves == {Client, Server, [Client EXCEPT !.days = 0], [Client EXCEPT !.days = 3], [Server EXCEPT !.sans = {"-"}],
           [Client EXCEPT !.caKey = "used"], [Client EXCEPT !.out = "used"],
           [Client EXCEPT !.out = "used", !.force = TRUE]}

MCRequested ==
  {[r1 |-> a, r2 |-> b, r3 |-> c] : a \in {Client, Server}, b \in Leaves \cup {NewCA}, c \in {Rotate, Server, NewCA}}
=============================================================================
