-------------------------- MODULE MCShootAdmission --------------------------
(***************************************************************************)
(* The webhook on sixteen addresses, of which the lower half is private,   *)
(* and a shoot in one of two locations that lie in different network       *)
(* zones.  Users change the networks of a shoot, or its pools.             *)
(***************************************************************************)
EXTENDS ShootAdmission, TLC

CONSTANTS fsn, ash, euCentral, usEast, fsnDC, ashDC, otherDC, p1, p2

AllAddresses == 0 .. 15
Private      == {0 .. 7}
InZone       == (fsn :> euCentral) @@ (ash :> usEast)
InLocation   == (fsnDC :> fsn) @@ (otherDC :> fsn) @@ (ashDC :> ash)

Block(lo, hi) == [block |-> lo .. hi, first |-> lo, canonical |-> TRUE, ipv4 |-> TRUE]

Low    == Block(0, 3)
Middle == Block(4, 7)
Half   == Block(0, 7)
High   == Block(8, 11)    \* not private
Wide   == Block(0, 15)    \* begins in the private range
Top    == Block(12, 15)
Ragged == [Low EXCEPT !.canonical = FALSE]
V6     == [Low EXCEPT !.ipv4 = FALSE]

Plain(cidr)       == [configuration |-> Nothing, workers |-> cidr]
Configured(cidr, zone) == [configuration |-> [cidr |-> cidr, zone |-> zone], workers |-> Nothing]

Pool(zones, minimum, maximum, percent, surge, group) ==
    [zones |-> zones, minimum |-> minimum, maximum |-> maximum,
     surge |-> [percent |-> percent, value |-> surge], group |-> group]

SmallPool == Pool(<<fsnDC>>, 1, 3, FALSE, 1, "")

With(pools) == [p \in Pools |-> IF p \in DOMAIN pools THEN pools[p] ELSE Nothing]

Base == [region |-> fsn, nodes |-> Half, pods |-> High, services |-> Top,
         networks |-> Plain(Low), controlPlane |-> [zone |-> fsnDC],
         workers |-> With(p1 :> SmallPool)]

NetworkVariants ==
    {[Base EXCEPT !.networks = n] : n \in
        {Nothing, Garbage, Configured(Nothing, Nothing)}
        \cup {Plain(c) : c \in {Nothing, Garbage, High, Middle, Wide, Ragged, V6}}
        \cup {Configured(Low, z) : z \in {Nothing, euCentral, usEast}}}
    \cup {[Base EXCEPT !.networks = Plain(n), !.nodes = k, !.pods = c] :
             n \in {Low, Half, Wide}, k \in {Low, Wide, Nothing}, c \in {Middle, Nothing}}
    \cup {[Base EXCEPT !.networks = Configured(Low, Nothing), !.controlPlane = c] :
             c \in {Nothing, Garbage} \cup [zone : {ashDC, Nothing}]}

\* A spread group of ten servers is full with seven and a surge of three.
PoolVariants ==
    {[Base EXCEPT !.workers = With(w)] : w \in
        {<<>>, (p2 :> SmallPool), (p1 :> SmallPool) @@ (p2 :> SmallPool)}
        \cup {(p1 :> Pool(z, 1, 3, FALSE, 1, "")) :
                 z \in {<<>>, <<otherDC>>, <<fsnDC, otherDC>>, <<fsnDC, fsnDC>>}}
        \cup {(p1 :> Pool(<<fsnDC>>, 1, hi, FALSE, 3, "spread")) : hi \in {7, 8}}
        \cup {(p1 :> Pool(<<fsnDC>>, lo, 10, per, 1, g)) :
                 lo \in {0, 1}, per \in BOOLEAN, g \in {"spread", "other"}}
        \cup {(p1 :> Pool(<<fsnDC>>, 0, 0, FALSE, 1, g)) : g \in {"", Garbage}}}

UserShoots == {Base} \cup NetworkVariants \cup PoolVariants

Zoneless(s)    == [s EXCEPT !.workers = With(p1 :> [SmallPool EXCEPT !.zones = <<>>])]
MisplacedNet(s) == [s EXCEPT !.networks = Configured(Low, usEast)]

WithoutConfig == [Base EXCEPT !.controlPlane = Nothing]

OldShoots == {Zoneless(Base), Zoneless(WithoutConfig), MisplacedNet(Base), MisplacedNet(Zoneless(Base))}

\* What the shoots from before the webhook may be updated to
RepairedShoots == {MisplacedNet(Base),
    [MisplacedNet(Base) EXCEPT !.workers = With((p1 :> SmallPool) @@ (p2 :> SmallPool))]}

\* A location that the extension does not know
Elsewhere == [Base EXCEPT !.region = ash, !.controlPlane = [zone |-> ashDC],
                          !.networks = Configured(Low, euCentral),
                          !.workers = With(p1 :> [SmallPool EXCEPT !.zones = <<ashDC>>])]

\* What may be added to a pool once its region has another zone
Spread(pool) == [WithoutConfig EXCEPT !.workers = With(p1 :> pool)]
SpreadShoots == {WithoutConfig, Spread(Pool(<<fsnDC, otherDC>>, 1, 7, FALSE, 3, "spread")),
                 Spread(Pool(<<otherDC>>, 1, 3, FALSE, 1, ""))}

\* Regions with no zone, one of two, or one too many
AllProfiles ==
    {(fsn :> f) @@ (ash :> a) :
        f \in {<<>>, <<fsnDC>>, <<otherDC>>, <<fsnDC, otherDC>>, <<otherDC, fsnDC>>}, a \in {<<>>, <<ashDC>>}}

AllSubmissions == {Elsewhere} \cup SpreadShoots \cup UserShoots \cup OldShoots \cup RepairedShoots
=============================================================================
