----------------------------- MODULE MCRequests -----------------------------
EXTENDS Requests

MCDefaultAttrs == [a \in {"Plan"} |-> <<"string", "free">>]

(* Two whom Discriminator does not tell apart (a number and a string of    *)
(* the same text, two lists), one who overrides the default, and one no    *)
(* endpoint takes                                                          *)
MCUsers == {[a \in {"targetingKey", "Roles"} |-> IF a = "Roles" THEN <<"list", v[1]>> ELSE <<v[2], "1">>] :
              v \in {<<"x", "string">>, <<"z", "number">>}} \cup
           {[a \in {"Plan"} |-> <<"string", "pro">>], [a \in {"Age"} |-> <<"other", "null">>]}
=============================================================================
