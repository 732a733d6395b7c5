----------------------------- MODULE MCCallees -----------------------------
(***************************************************************************)
(* Callbacks that are joined, stored, returned and passed on, functions    *)
(* chosen by a phi node, and callbacks in an aggregate.                    *)
(***************************************************************************)
EXTENDS Callees, TLC

func(returns) == [kind |-> "func", returns |-> returns]
arg(f, no) == [kind |-> "arg", of |-> f, no |-> no]
of(kind, args) == [kind |-> kind, args |-> args]
other == [kind |-> "other"]

Targets == "add" :> func(<<>>) @@ "sub" :> func(<<>>) @@ "null" :> [kind |-> "null"]
Apply(r) == "apply" :> func(<<r>>) @@ "p" :> arg("apply", 1) @@ "q" :> arg("apply", 2)

\* apply(p, q) calls K, main calls apply and then L.
Callbacks ==
  {[values |-> Targets @@ Apply(r) @@ "m" :> of("phi", <<a, b>>)
                 @@ "s" :> other @@ "w" :> of("store", <<e, "s">>) @@ "t" :> of("load", <<"s">>)
                 @@ "c2" :> of("call", <<k>>) @@ "n" :> of("phi", <<"add", z>>)
                 @@ "c1" :> of("call", <<a1, a2, "apply">>) @@ "c3" :> of("call", <<l>>),
    code |-> code] :
     r \in {"p", "m"}, a \in {"add", "p", "null"}, b \in {"p", "q", "m"}, e \in {"sub", "q", "m"},
     k \in {"p", "m", "t"}, z \in {"sub", "null", "n"}, a1 \in {"add", "n"}, a2 \in {"sub", "null"},
     l \in {"n", "c1"}, code \in {<<"c2", "c1", "c3">>, <<"c1", "c3", "c2">>}}

\* apply passes p on to itself, in either place.
Recursive ==
  {[values |-> Targets @@ Apply("p") @@ "c1" :> of("call", <<"add", "sub", "apply">>)
                 @@ "c2" :> of("call", <<a, b, "apply">>) @@ "c3" :> of("call", <<k>>),
    code |-> <<"c2", "c3", "c1">>] :
     a \in {"p", "q", "sub"}, b \in {"p", "q"}, k \in {"p", "q"}}

\* The callee is apply or other, and what it returns is called.
Chosen ==
  {[values |-> Targets @@ Apply("p") @@ "other" :> func(<<r>>) @@ "o" :> arg("other", 2)
                 @@ "f" :> of("phi", <<"apply", g, u>>) @@ "c1" :> of("call", <<a1, a2, "f">>)
                 @@ "undef" :> other @@ "c2" :> of("call", <<"c1">>) @@ "c3" :> of("call", <<k>>),
    code |-> code] :
     u \in {"apply", "undef"}, r \in {"o", "sub"}, g \in {"apply", "other"}, a1 \in {"add", "sub"}, a2 \in {"add", "null"},
     k \in {"p", "o", "sub"}, code \in {<<"c1", "c2", "c3">>, <<"c3", "c1", "c2">>}}

\* A callback in an aggregate with two elements.
Aggregates ==
  {[values |-> Targets @@ Apply("q") @@ "s" :> other @@ "0" :> other @@ "1" :> other
                 @@ "g" :> of("gep", <<"s", "0">>) @@ "w" :> of("store", <<a, "g">>)
                 @@ "h" :> of("gep", <<"s", "1">>) @@ "v" :> of("store", <<b, "h">>)
                 @@ "e" :> of("gep", <<"s", i>>) @@ "t" :> of("load", <<"e">>)
                 @@ "c1" :> of("call", <<"t", "add", "apply">>) @@ "c2" :> of("call", <<k>>),
    code |-> <<"c2", "c1">>] :
     a \in {"add", "q"}, b \in {"sub", "null"}, i \in {"0", "1"}, k \in {"t", "p", "q"}}

MCModule == Callbacks \cup Recursive \cup Chosen \cup Aggregates
=============================================================================
