------------------------------- MODULE MCCfg -------------------------------
(* Instances of Cfg for TLC.                                               *)
EXTENDS Cfg

I(o, v)    == [option |-> o, value |-> v]
Host(h)    == I("host_traddr", h)
Roce       == I("protocol", "roce")
Plain(is)  == [comment |-> FALSE, bracket |-> "", items |-> is]
Headed(n)  == [comment |-> FALSE, bracket |-> n, items |-> <<>>]
Comment(n) == [comment |-> TRUE, bracket |-> n, items |-> <<>>]
Remark     == [comment |-> TRUE, bracket |-> "", items |-> <<I("old", "text")>>]

BaseLines == {<<I("restrain_time", "0")>>, <<I("hostnqn", <<"n", "1">>), I("queue_size", "64")>>,
              <<I("queue_size", "32"), I("hostnqn", <<"n", "2">>)>>, <<I("protocol", "roce")>>}

SwLines == {<<Host("h1"), Roce>>, <<Roce, Host("h2"), I("queue_size", "16")>>,
            <<Host("any"), Roce>>, <<Host("h1"), I("protocol", "tcp"), Host("h2")>>,
            <<Host("h1")>>, <<Host("h2"), Roce, I("hostnqn", <<"n", "3">>)>>}

DcLines == {<<Host("h1"), I("traddr", "t1"), Roce>>, <<Host("h2"), Roce>>,
            <<I("traddr", "t2"), Roce, Host("h2"), I("queue_size", "16")>>,
            <<Host("h3"), I("traddr", "t2"), Roce, I("hostnqn", <<"n", "3">>)>>,
            <<Host("any"), I("traddr", "v6"), Roce>>,
            <<Host("h3"), I("traddr", "t1"), Roce, I("nqn", "x")>>,
            <<Host("h3"), I("traddr", "t1"), Roce, I("queue_size", "0")>>}

UpTo(n, S) == UNION {[1 .. k -> S] : k \in 0 .. n}
Lines(ls)  == [i \in DOMAIN ls |-> Plain(ls[i])]
Of(b, s, d) ==
  <<Headed("BASE")>> \o Lines(b) \o <<Headed("SW"), Remark>> \o Lines(s)
    \o <<Headed("DC")>> \o Lines(d)

(* Files with up to two lines in each network.                             *)
Usual == {Of(b, s, d) : b \in UpTo(1, BaseLines), s \in UpTo(2, SwLines), d \in UpTo(2, DcLines)}

(* Files whose sections have another order, are missing or come twice.     *)
Pieces == {<<Headed("BASE"), Plain(<<I("queue_size", "64")>>)>>,
           <<Headed("SW"), Plain(<<Host("h1"), Roce>>)>>,
           <<Headed("DC"), Plain(<<Host("h2"), I("traddr", "t1"), Roce>>)>>,
           <<Headed("SW"), Plain(<<Host("h2"), Roce>>)>>}
Shuffled == {FlattenSeq(p) : p \in UpTo(4, Pieces)}

Files == Usual \cup Shuffled
Refused == {<<"queue_size", "0">>}
Nqn == <<"s">>

(* A comment with a name in brackets, in the middle of a section.          *)
Bracketed ==
  {<<Headed("BASE"), Headed("SW"), Plain(<<Host("h1"), Roce>>), Comment(n),
     Plain(<<Host("h2"), Roce>>), Headed("DC")>> : n \in {"", "1"}}

(* BASE lines with a hostnqn each, the second one shorter.                 *)
TwoNqns ==
  {Of(<< <<I("hostnqn", <<"a", "b", "c">>)>>, <<I("hostnqn", <<"x">>)>> >>,
      << <<Host("h1"), Roce>> >>, <<>>)}

(* A DC line that names the service of its target.                         *)
WithService ==
  {Of(<<>>, <<>>, << <<Host("h1"), I("traddr", "t1"), Roce, I("trsvcid", 4421)>> >>)}

(* A digest, which is documented, and a target in SW, which is not.        *)
WithDigest ==
  {Of(<<>>, <<>>, << <<Host("h1"), I("traddr", "t1"), Roce, I("hdr_digest", "1")>> >>)}
WithSwTarget == {Of(<<>>, << <<Host("h1"), Roce, I("traddr", "t1")>> >>, <<>>)}
=============================================================================
