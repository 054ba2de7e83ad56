---------------------------- MODULE MCRegistration ----------------------------
(* A small instance of Registration: two letters of one address, the seed  *)
(* at it, names that the generated ones run into, and an address that      *)
(* somebody has for a username.                                            *)
EXTENDS Registration, TLC

CONSTANTS r1, r2, mailA, maila

mailb == <<"b@x", 0>>
Addresses == {mailA, maila, mailb}

LowerCase(e) == IF e = mailA THEN maila ELSE e
LocalPart(e) == "w"
SeededRep == [kind |-> "sales_rep", email |-> maila, username |-> <<"s", 0>>]

Req(kind, email, username) == [kind |-> kind, email |-> email, username |-> username]
SomeRequests ==
    (r1 :> {Req("sales_rep", maila, None), Req("sales_rep", None, <<"s", 0>>),
            Req("sales_rep", maila, Blank), Req("user", mailA, None),
            Req("admin", maila, <<"w", 0>>), Req("sales_rep", None, mailb)}) @@
    (r2 :> {Req("sales_rep", mailb, None), Req("admin", mailb, None),
            Req("sales_rep", mailb, Blank), Req("sales_rep", None, <<"w", 0>>)})
=============================================================================
