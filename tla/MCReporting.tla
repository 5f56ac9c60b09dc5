----------------------------- MODULE MCReporting -----------------------------
(***************************************************************************)
(* Instances of Reporting: inputs of up to three blocks as stage 1 leaves  *)
(* them, whole or cut off, and subscription and lifecycle files.           *)
(***************************************************************************)
EXTENDS Reporting

OneToThree == 1 .. 3

H(count, support, platform, installed) ==
  [kind |-> "H", layout |-> "current", count |-> count, support |-> support,
   platform |-> platform, installed |-> installed]
SupersededH(count) == [kind |-> "H", layout |-> "superseded", count |-> count, version |-> "4.12"]
N(roles, arch, cpu) == [kind |-> "N", roles |-> roles, arch |-> arch, cpu |-> cpu]
R(version) == [kind |-> "R", version |-> version]
T == [kind |-> "T"]

\* Blocks of a small virtual cluster, a large physical one, a hosted one, one of
\* two architectures, one of a superseded sender.
Virtual(v, installed) == <<H(2, "STANDARD", "vsphere", installed),
                N({"master", "worker"}, "TRUE", 5), N({"worker"}, "TRUE", 4), R(v), T>>
Physical(v) == <<H(4, "PREMIUM", "baremetal", 10),
                 N({"master"}, "TRUE", 8), N({"worker", "ingress"}, "TRUE", 3),
                 N({"worker", "infra"}, "TRUE", 2), N({"worker"}, "TRUE", 0), R(v), T>>
HostedOne(v) == <<H(1, "STANDARD", "azure", 5), N({"worker"}, "TRUE", 4), R(v), T>>
TwoArchs(v) == <<H(3, "STANDARD", "", 15), N({"worker"}, "TRUE", 1), N({"worker"}, "S390X", 2),
                 R(v), T>>
Superseded(v) == <<SupersededH(1), N({"worker"}, "TRUE", 4), R(v), T>>

\* One that needs a number of two digits.
Wide == <<H(1, "STANDARD", "baremetal", 8), N({}, "TRUE", 23), R("4.18"), T>>

Young == Virtual("4.18", 20)
Old == Virtual("garbled", 12)
Small == {Young, Old, HostedOne("4.16")}
Tiny == <<H(1, "STANDARD", "vsphere", 25), N({}, "TRUE", 2), R("4.18"), T>>
Blocks == Small \cup {Tiny, Physical("4.20"), TwoArchs("unknown"), Superseded("4.12")}
WithId(c, block) == [i \in DOMAIN block |-> [cluster |-> c] @@ block[i]]
Pairs == {WithId(1, x) \o WithId(2, y) : x, y \in Blocks}
Triples == {WithId(1, x) \o WithId(2, y) \o WithId(3, z) : x, y, z \in Small}

Terms(x, y, z) == ("t1" :> x @@ "t2" :> y @@ "t3" :> z)
Calendar == [v \in {"4.16", "4.18", "4.20"} |->
               IF v = "4.20" THEN Terms(<<30, 39>>, <<40, 49>>, <<>>)
               ELSE IF v = "4.18" THEN Terms(<<10, 19>>, <<20, 29>>, <<>>)
               ELSE Terms(<<1, 9>>, <<10, 19>>, <<20, 20>>)]
Key3(support, of, n) == [key |-> <<support, of>>, value |-> n]
Stock(n) == <<Key3("STANDARD", "AMD64", <<n>>), Key3("PREMIUM", "AMD64", <<2>>),
              Key3("STANDARD", "t2", <<1>>), Key3("PREMIUM", "AMD64", <<>>)>>

Case(input, cut, stock, calendar, range) ==
  [files |-> File, input |-> input, cut |-> cut, stock |-> stock, calendar |-> calendar, range |-> range]

\* Whole inputs, pairs of small blocks with either stock; numbers of two digits, a
\* negative one among them; shorter ones; missing files; and a range
\* that ends before it starts.
CasesUsed ==
  {Case(i, Len(i), Stock(3), Calendar, <<19, 30>>) : i \in Pairs}
  \cup {Case(WithId(1, x) \o WithId(2, y), Len(x \o y), Stock(2), Calendar, <<19, 30>>) :
          x, y \in Small \cup {Tiny}}
  \cup {Case(i, Len(i), Stock(4), Calendar, <<19, 30>>) : i \in Triples}
  \cup {Case(i, Len(i), Stock(n), Calendar, <<19, 30>>) :
          i \in {WithId(1, Wide) \o WithId(2, Young), WithId(1, Old) \o WithId(2, Wide)}, n \in {12, 15, -12}}
  \cup {Case(i, k, Stock(3), Calendar, <<5, 10>>) :
          i \in {WithId(1, Young) \o WithId(2, Physical("4.20"))}, k \in 0 .. 12}
  \cup {[Case(WithId(1, Physical("4.16")), 7, Stock(3), Calendar, <<1, 1>>) EXCEPT !.files = f] :
           f \in {{"input"}, {"subscriptions"}, {"input", "lifecycle"}}}
  \cup {Case(WithId(1, Physical("4.20")), 7, Stock(3), Calendar, <<45, 35>>)}

\* The script has pools for clusters without support, which no row of the file fills.
Groups == [arch : {"AMD64", "s390x"}, support : {"STANDARD", "PREMIUM", "NO SUPPORT DEFINED"}]
AnyGroup == [arch : {"AMD64", "s390x", ""}, support : {"STANDARD", "PREMIUM", "NO SUPPORT DEFINED", "4.12"}]
=============================================================================
