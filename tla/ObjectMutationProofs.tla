------------------------ MODULE ObjectMutationProofs ------------------------
(***************************************************************************)
(* Proofs about the start of the extension's process, for all numbers of   *)
(* releases, whichever of them can start and whichever controllers are     *)
(* switched on; and about what its webhook writes, for all contents that   *)
(* gardenlet may write and all versions of the kubelet.                    *)
(***************************************************************************)
EXTENDS ObjectMutations, SequenceTheorems, WellFoundedInduction, TLAPS

-----------------------------------------------------------------------------
(* The process                                                             *)

AlmostAll(controller) == Needs(controller) \ {"webhookServerNamespace"}

\* The settings are there long before they are read, and no release has a process
\* before it is installed: this makes the two invariants inductive.
SettingsInv ==
    \A r \in Releases :
        /\ r > installed => stage[r] = "stopped"
        /\ stage[r] \in {"webhooks", "namespace"} =>
               \A c \in Controllers : AlmostAll(c) \subseteq options[r][c]
        /\ stage[r] = "controllers" => \A c \in Controllers : Needs(c) \subseteq options[r][c]

ProcessInv == ProcessTypeOK /\ SettingsInv /\ ControllersConfigured
              /\ \A r \in Releases :
                     stage[r] = "checks" => {added[1] : added \in controllers[r]} = Enabled

\* The package of one controller alone reads the namespace of the webhook server.
LEMMA NeedsOfControllers ==
    /\ \A c \in Controllers : Needs(c) \subseteq Settings
    /\ \A c \in Controllers \ {"controlplane"} : Needs(c) = AlmostAll(c)
BY DEF Controllers, Needs, AlmostAll, Shared, Settings

\* What is copied first lacks that namespace only.
LEMMA SettingsApplied ==
    /\ Applied \in [Controllers -> SUBSET Settings]
    /\ \A c \in Controllers : AlmostAll(c) \subseteq Applied[c]
<1>1. Applied \in [Controllers -> SUBSET Settings]
    BY DEF Applied
<1>2. ASSUME NEW c \in Controllers, NEW s \in AlmostAll(c)
      PROVE  s \in Settings /\ c \in PackagesGiven(s)
    BY <1>2 DEF AlmostAll, Needs, Shared, Settings, PackagesGiven, Controllers
<1> QED
    BY <1>1, <1>2 DEF Applied

\* Controllers are added with what their packages hold at that time.
LEMMA AddedControllers ==
    ASSUME NEW f
    PROVE  {added[1] : added \in {<<c, f[c]>> : c \in Enabled}} = Enabled
<1> DEFINE pairs == {<<c, f[c]>> : c \in Enabled}
<1>1. \A c \in Enabled : <<c, f[c]>> \in pairs /\ <<c, f[c]>>[1] = c
    OBVIOUS
<1>2. \A pair \in pairs : pair[1] \in Enabled
    OBVIOUS
<1> HIDE DEF pairs
<1>3. {added[1] : added \in pairs} = Enabled
    BY <1>1, <1>2, Zenon
<1> QED
    BY <1>3 DEF pairs

\* The first process has not read anything.
LEMMA ProcessInitial == ProcessInit => ProcessInv
<1> SUFFICES ASSUME ProcessInit PROVE ProcessInv
    OBVIOUS
<1>1. NoOptions \in [Controllers -> SUBSET Settings]
    BY DEF NoOptions
<1>2. 1 \in Releases /\ \A r \in Releases : r \in Nat
    BY ReleasesAssumption DEF Releases
<1>3. ProcessTypeOK
    BY <1>1, <1>2 DEF ProcessInit, ProcessTypeOK, Stages
<1>4. SettingsInv /\ ControllersConfigured
    BY <1>2 DEF ProcessInit, SettingsInv, ControllersConfigured
<1>5. \A r \in Releases : stage[r] # "checks"
    BY DEF ProcessInit
<1> QED
    BY <1>3, <1>4, <1>5 DEF ProcessInv

\* Every step of a process, and of Kubernetes, keeps the inductive invariant.
LEMMA ProcessStep == ProcessInv /\ [ProcessNext]_processVars => ProcessInv'
<1> SUFFICES ASSUME ProcessInv, [ProcessNext]_processVars PROVE ProcessInv'
    OBVIOUS
<1> USE DEF ProcessInv
<1>0. ProcessTypeOK /\ SettingsInv /\ ControllersConfigured
    OBVIOUS
<1>1. ASSUME NEW r \in Releases, CompleteOptions(r) PROVE ProcessInv'
    BY <1>1 DEF CompleteOptions, Advance, ProcessTypeOK, SettingsInv, ControllersConfigured, Stages
<1>2. ASSUME NEW r \in Releases, NewManager(r) PROVE ProcessInv'
    BY <1>2 DEF NewManager, Advance, ProcessTypeOK, SettingsInv, ControllersConfigured, Stages
<1>3. ASSUME NEW r \in Releases, GetGardenCluster(r) PROVE ProcessInv'
    BY <1>3 DEF GetGardenCluster, Advance, ProcessTypeOK, SettingsInv, ControllersConfigured, Stages
<1>4. ASSUME NEW r \in Releases, ApplySettings(r) PROVE ProcessInv'
    BY <1>4, SettingsApplied
       DEF ApplySettings, Advance, ProcessTypeOK, SettingsInv, ControllersConfigured, Stages
<1>5. ASSUME NEW r \in Releases, AddWebhooks(r) PROVE ProcessInv'
    BY <1>5 DEF AddWebhooks, Advance, ProcessTypeOK, SettingsInv, ControllersConfigured, Stages
<1>6. ASSUME NEW r \in Releases, ApplyNamespace(r) PROVE ProcessInv'
    <2>1. \A c \in Controllers : Needs(c) \subseteq options'[r][c]
        BY <1>6, NeedsOfControllers
           DEF ApplyNamespace, Advance, ProcessTypeOK, SettingsInv, AlmostAll, Controllers
    <2>2. options' \in [Releases -> [Controllers -> SUBSET Settings]]
        BY <1>6 DEF ApplyNamespace, ProcessTypeOK, Controllers, Settings
    <2>3. \A q \in Releases \ {r} : options'[q] = options[q] /\ stage'[q] = stage[q]
        BY <1>6 DEF ApplyNamespace, Advance, ProcessTypeOK
    <2> QED
        BY <1>6, <2>1, <2>2, <2>3
           DEF ApplyNamespace, Advance, ProcessTypeOK, SettingsInv, ControllersConfigured, Stages
<1>7. ASSUME NEW r \in Releases, AddControllers(r) PROVE ProcessInv'
    <2> DEFINE added == {<<c, options[r][c]>> : c \in Enabled}
    <2>1. {a[1] : a \in added} = Enabled
        BY AddedControllers
    <2>2. added \in SUBSET (Controllers \X SUBSET Settings)
        BY ReleasesAssumption DEF ProcessTypeOK
    <2>3. \A a \in added : Needs(a[1]) \subseteq a[2]
        BY <1>7, ReleasesAssumption DEF AddControllers, Advance, SettingsInv
    <2>4. controllers' = [controllers EXCEPT ![r] = added]
        BY <1>7 DEF AddControllers
    <2> HIDE DEF added
    <2> QED
        BY <1>7, <2>1, <2>2, <2>3, <2>4
           DEF AddControllers, Advance, ProcessTypeOK, SettingsInv, ControllersConfigured, Stages
<1>8. ASSUME NEW r \in Releases, Start(r) PROVE ProcessInv'
    BY <1>8 DEF Start, Advance, ProcessTypeOK, SettingsInv, ControllersConfigured, Stages
<1>9. ASSUME NEW r \in Releases, PassCheck(r) PROVE ProcessInv'
    BY <1>9 DEF PassCheck, ProcessTypeOK, SettingsInv, ControllersConfigured
<1>10. ASSUME NEW r \in Releases, NEW next \in {"options", "stopped"}, Forget(r, next),
              stage[r] # "stopped", UNCHANGED <<installed, settled>>
       PROVE  ProcessInv'
    BY <1>10 DEF Forget, NoOptions, ProcessTypeOK, SettingsInv, ControllersConfigured, Stages
<1>11. ASSUME NEW r \in Releases, Exit(r) PROVE ProcessInv'
    BY <1>10, <1>11 DEF Exit
<1>12. ASSUME NEW r \in Releases, Stop(r) PROVE ProcessInv'
    BY <1>10, <1>12 DEF Stop
<1>13. CASE Install
    <2>1. installed + 1 \in Releases
        BY <1>13, ReleasesAssumption DEF Install, ProcessTypeOK, Releases
    <2>2. passed[installed + 1] = {} /\ \A r \in Releases : r \in Nat /\ installed \in Nat
        BY <2>1, ReleasesAssumption DEF ProcessTypeOK, SettingsInv, Releases
    <2> QED
        BY <1>13, <2>1, <2>2
           DEF Install, ProcessTypeOK, SettingsInv, ControllersConfigured, Stages
<1>14. CASE Settle
    BY <1>14 DEF Settle, ProcessTypeOK, SettingsInv, ControllersConfigured
<1>15. CASE UNCHANGED processVars
    BY <1>15 DEF processVars, ProcessTypeOK, SettingsInv, ControllersConfigured
<1> QED
    BY <1>1, <1>2, <1>3, <1>4, <1>5, <1>6, <1>7, <1>8, <1>9, <1>11, <1>12, <1>13, <1>14, <1>15
       DEF ProcessNext, Configure

\* The variables keep their types, and only running processes are ready.
THEOREM ProcessTypeCorrect == ProcessSpec => []ProcessTypeOK
<1>1. ProcessInv => ProcessTypeOK
    BY DEF ProcessInv
<1> QED
    BY ProcessInitial, ProcessStep, <1>1, PTL DEF ProcessSpec

\* Whatever fails during a start, controllers run with all of their settings.
THEOREM StartConfigures == ProcessSpec => []ControllersConfigured
<1>1. ProcessInv => ControllersConfigured
    BY DEF ProcessInv
<1> QED
    BY ProcessInitial, ProcessStep, <1>1, PTL DEF ProcessSpec

-----------------------------------------------------------------------------
(* Editing a list                                                          *)

\* A set of naturals that is not empty has a least element.
LEMMA LeastNatural ==
    ASSUME NEW T \in SUBSET Nat, T # {}
    PROVE  Min(T) \in T /\ \A y \in T : Min(T) <= y
<1> DEFINE R == OpToRel(<, Nat)
<1>1. IsWellFoundedOn(R, Nat)
    BY NatLessThanWellFounded
<1>2. \A x, y \in Nat : <<y, x>> \in R <=> y < x
    BY DEF OpToRel
<1> HIDE DEF R
<1>3. PICK x \in T : \A y \in T : <<y, x>> \notin R
    BY <1>1, WFMin
<1>4. \A y \in T : ~(y < x)
    BY <1>2, <1>3
<1>5. \A a, b \in Nat : ~(b < a) => a <= b
    OBVIOUS
<1>6. \A y \in T : x <= y
    BY <1>4, <1>5
<1>7. QED
    BY <1>6 DEF Min

\* EnsureNamed appends, or replaces the first entry of that name.
LEMMA EnsureNamedCases ==
    ASSUME NEW content \in Seq(Entries), NEW entry
    PROVE  \/ /\ \A i \in DOMAIN content : content[i].name # entry.name
              /\ EnsureNamed(content, entry) = Append(content, entry)
           \/ \E i \in DOMAIN content :
                 /\ content[i].name = entry.name
                 /\ \A j \in DOMAIN content : content[j].name = entry.name => i <= j
                 /\ EnsureNamed(content, entry) = [content EXCEPT ![i] = entry]
<1> DEFINE named == {i \in 1 .. Len(content) : content[i].name = entry.name}
<1>1. named \in SUBSET Nat /\ DOMAIN content = 1 .. Len(content)
    OBVIOUS
<1>2. CASE named = {}
    BY <1>1, <1>2 DEF EnsureNamed
<1>3. CASE named # {}
    <2>1. Min(named) \in named /\ \A j \in named : Min(named) <= j
        <3> HIDE DEF named
        <3> QED BY <1>1, <1>3, LeastNatural
    <2>2. EnsureNamed(content, entry) = [content EXCEPT ![Min(named)] = entry]
        BY <1>1, <1>3 DEF EnsureNamed, SelectInSeq
    <2>3. QED
        BY <1>1, <2>1, <2>2
<1>4. QED
    BY <1>2, <1>3

\* delete takes one entry away, or there is none of that name.
LEMMA WithoutCases ==
    ASSUME NEW content \in Seq(Entries), NEW name
    PROVE  \/ /\ \A i \in DOMAIN content : content[i].name # name
              /\ Without(content, name) = content
           \/ \E i \in DOMAIN content :
                 /\ content[i].name = name
                 /\ Without(content, name) = RemoveAt(content, i)
<1> DEFINE named == {i \in 1 .. Len(content) : content[i].name = name}
<1>1. named \in SUBSET Nat /\ DOMAIN content = 1 .. Len(content)
    OBVIOUS
<1>2. CASE named = {}
    BY <1>1, <1>2 DEF Without, RemoveFirstMatch
<1>3. CASE named # {}
    <2>1. Min(named) \in named /\ \A j \in named : Min(named) <= j
        <3> HIDE DEF named
        <3> QED BY <1>1, <1>3, LeastNatural
    <2>2. Without(content, name) = RemoveAt(content, Min(named))
        BY <1>1, <1>3 DEF Without, RemoveFirstMatch, SelectInSeq
    <2>3. QED
        BY <1>1, <2>1, <2>2
<1>4. QED
    BY <1>2, <1>3

\* EnsureNoStringWithPrefixContains takes one entry away, or there is none.
LEMMA WithoutEntryCases ==
    ASSUME NEW content \in Seq(Entries), NEW entry
    PROVE  \/ /\ \A i \in DOMAIN content : content[i] # entry
              /\ WithoutEntry(content, entry) = content
           \/ \E i \in DOMAIN content :
                 /\ content[i] = entry
                 /\ WithoutEntry(content, entry) = RemoveAt(content, i)
<1> DEFINE equal == {i \in 1 .. Len(content) : content[i] = entry}
<1>1. equal \in SUBSET Nat /\ DOMAIN content = 1 .. Len(content)
    OBVIOUS
<1>2. CASE equal = {}
    BY <1>1, <1>2 DEF WithoutEntry, RemoveFirst
<1>3. CASE equal # {}
    <2>1. Min(equal) \in equal /\ \A j \in equal : Min(equal) <= j
        <3> HIDE DEF equal
        <3> QED BY <1>1, <1>3, LeastNatural
    <2>2. WithoutEntry(content, entry) = RemoveAt(content, Min(equal))
        BY <1>1, <1>3 DEF WithoutEntry, RemoveFirst, SelectInSeq
    <2>3. QED
        BY <1>1, <2>1, <2>2
<1>4. QED
    BY <1>2, <1>3

\* What is left of a list without one of its entries
LEMMA RemoveAtEntries ==
    ASSUME NEW content \in Seq(Entries), NEW i \in DOMAIN content
    PROVE  LET rest == RemoveAt(content, i)
           IN  /\ rest \in Seq(Entries)
               /\ Len(rest) = Len(content) - 1
               /\ \A k \in DOMAIN rest : rest[k] = content[IF k < i THEN k ELSE k + 1]
<1> DEFINE before == SubSeq(content, 1, i - 1)
           after  == SubSeq(content, i + 1, Len(content))
           n      == Len(content)
<1>1. i \in 1 .. n /\ n \in Nat
    OBVIOUS
<1>2. /\ before \in Seq(Entries) /\ Len(before) = i - 1
      /\ \A k \in 1 .. i - 1 : before[k] = content[k]
    BY <1>1
<1>3. /\ after \in Seq(Entries) /\ Len(after) = n - i
      /\ \A k \in 1 .. n - i : after[k] = content[i + k]
    BY <1>1
<1> HIDE DEF before, after
<1>4. /\ before \o after \in Seq(Entries) /\ Len(before \o after) = n - 1
      /\ \A k \in 1 .. n - 1 : (before \o after)[k] = IF k <= i - 1 THEN before[k] ELSE after[k - (i - 1)]
    BY <1>1, <1>2, <1>3
<1>5. ASSUME NEW k \in 1 .. n - 1
      PROVE  (before \o after)[k] = content[IF k < i THEN k ELSE k + 1]
    <2>1. CASE k < i
        BY <1>1, <1>2, <1>4, <2>1
    <2>2. CASE k >= i
        <3>1. k - (i - 1) \in 1 .. n - i /\ i + (k - (i - 1)) = k + 1
            BY <1>1, <2>2
        <3>2. ~(k <= i - 1) /\ ~(k < i)
            BY <1>1, <2>2
        <3>3. (before \o after)[k] = after[k - (i - 1)]
            BY <1>4, <3>2
        <3>4. after[k - (i - 1)] = content[k + 1]
            BY <1>3, <3>1
        <3>5. QED
            BY <3>2, <3>3, <3>4
    <2>3. k < i \/ k >= i
        BY <1>1
    <2>4. QED
        BY <2>1, <2>2, <2>3
<1>6. RemoveAt(content, i) = before \o after
    BY DEF RemoveAt, before, after
<1>7. DOMAIN (before \o after) = 1 .. n - 1
    BY <1>4
<1>8. QED
    BY <1>4, <1>5, <1>6, <1>7

-----------------------------------------------------------------------------
(* Gardener's own entries.                                                 *)

\* Lists whose own entries are at the same positions have the same of them.
LEMMA SamePositions ==
    ASSUME NEW one, NEW other, Own(one) = Own(other),
           \A i \in Own(one) : one[i] = other[i]
    PROVE  SamePart(one, other)
<1> DEFINE f == [i \in Own(one) |-> i]
<1>1. f \in [Own(one) -> Own(other)]
    OBVIOUS
<1>2. \A i \in Own(one) : f[i] = i
    OBVIOUS
<1> HIDE DEF f
<1>3. QED
    BY <1>1, <1>2 DEF SamePart

\* Having the same entries of Gardener's, in their order, is transitive.
LEMMA SamePartTransitive ==
    ASSUME NEW one, NEW two, NEW three, SamePart(one, two), SamePart(two, three)
    PROVE  SamePart(one, three)
<1>1. PICK f \in [Own(one) -> Own(two)] :
        /\ \A i \in Own(one) : two[f[i]] = one[i]
        /\ \A i, j \in Own(one) : i < j => f[i] < f[j]
        /\ \A k \in Own(two) : \E i \in Own(one) : f[i] = k
    BY DEF SamePart
<1>2. PICK g \in [Own(two) -> Own(three)] :
        /\ \A i \in Own(two) : three[g[i]] = two[i]
        /\ \A i, j \in Own(two) : i < j => g[i] < g[j]
        /\ \A k \in Own(three) : \E i \in Own(two) : g[i] = k
    BY DEF SamePart
<1> DEFINE h == [i \in Own(one) |-> g[f[i]]]
<1>3. h \in [Own(one) -> Own(three)]
    BY <1>1, <1>2
<1>4. \A i \in Own(one) : h[i] = g[f[i]] /\ f[i] \in Own(two)
    BY <1>1
<1> HIDE DEF h
<1>5. \A i \in Own(one) : three[h[i]] = one[i]
    BY <1>1, <1>2, <1>4
<1>6. \A i, j \in Own(one) : i < j => h[i] < h[j]
    BY <1>1, <1>2, <1>4
<1>7. \A k \in Own(three) : \E i \in Own(one) : h[i] = k
    BY <1>1, <1>2, <1>4
<1>8. QED
    BY <1>3, <1>5, <1>6, <1>7 DEF SamePart

\* What the webhook takes away of its own does not concern Gardener's part.
LEMMA RemoveAtKeeps ==
    ASSUME NEW content \in Seq(Entries), NEW i \in DOMAIN content, Managed(content[i])
    PROVE  SamePart(RemoveAt(content, i), content)
<1> DEFINE rest == RemoveAt(content, i)
           f    == [k \in Own(rest) |-> IF k < i THEN k ELSE k + 1]
           n    == Len(content)
<1>1. /\ rest \in Seq(Entries) /\ Len(rest) = n - 1
      /\ \A k \in DOMAIN rest : rest[k] = content[IF k < i THEN k ELSE k + 1]
    BY RemoveAtEntries
<1>2. i \in 1 .. n /\ n \in Nat /\ DOMAIN content = 1 .. n
    OBVIOUS
<1>3. DOMAIN rest = 1 .. n - 1
    BY <1>1, <1>2
<1>4. Own(rest) \subseteq 1 .. n - 1 /\ Own(content) \subseteq 1 .. n
    BY <1>2, <1>3 DEF Own
<1>5. ASSUME NEW k \in Own(rest)
      PROVE  /\ f[k] = IF k < i THEN k ELSE k + 1
             /\ f[k] \in 1 .. n
             /\ content[f[k]] = rest[k]
             /\ f[k] \in Own(content)
    <2>1. f[k] = IF k < i THEN k ELSE k + 1
        OBVIOUS
    <2>2. k \in DOMAIN rest /\ k \in 1 .. n - 1 /\ ~Managed(rest[k])
        BY <1>3 DEF Own
    <2>3. f[k] \in 1 .. n
        BY <1>2, <2>1, <2>2
    <2>4. content[f[k]] = rest[k]
        BY <1>1, <2>1, <2>2
    <2>5. f[k] \in Own(content)
        BY <1>2, <2>2, <2>3, <2>4 DEF Own
    <2>6. QED
        BY <2>1, <2>3, <2>4, <2>5
<1>6. f \in [Own(rest) -> Own(content)]
    BY <1>5
<1> HIDE DEF f
<1>7. ASSUME NEW j \in Own(rest), NEW k \in Own(rest), j < k
      PROVE  f[j] < f[k]
    <2>1. j \in Int /\ k \in Int /\ i \in Int
        BY <1>2, <1>4
    <2>2. QED
        BY <1>5, <1>7, <2>1
<1>8. ASSUME NEW k \in Own(content)
      PROVE  \E j \in Own(rest) : f[j] = k
    <2>1. k \in 1 .. n /\ k # i /\ ~Managed(content[k])
        BY <1>2, <1>4 DEF Own
    <2> DEFINE j == IF k < i THEN k ELSE k - 1
    <2>2. j \in 1 .. n - 1 /\ (IF j < i THEN j ELSE j + 1) = k
        BY <1>2, <2>1
    <2> HIDE DEF j
    <2>3. rest[j] = content[k]
        BY <1>1, <1>3, <2>2
    <2>4. j \in Own(rest)
        BY <1>3, <2>1, <2>2, <2>3 DEF Own
    <2>5. QED
        BY <1>5, <2>2, <2>4
<1>9. QED
    BY <1>5, <1>6, <1>7, <1>8 DEF SamePart

-----------------------------------------------------------------------------
\* What the webhook can be given: a list whose managed entries are told apart
WellFormed(content) == content \in Seq(Entries) /\ DistinctIn(kind, content)

\* A name that is the webhook's only
AllManaged(name) == \A e \in Entries : e.name = name => Managed(e)

\* Of the entries the webhook manages, a name is that of one.
LEMMA DistinctNames ==
    ASSUME NEW content, WellFormed(content), NEW i \in DOMAIN content, NEW j \in DOMAIN content,
           Managed(content[i]), Managed(content[j]), content[i].name = content[j].name
    PROVE  i = j
BY DEF WellFormed, DistinctIn, Managed

\* EnsureContainerWithName and the like put the entry in the place of the one of
\* that name, and leave a list alone that has it.
LEMMA EnsureNamedKeeps ==
    ASSUME NEW content, WellFormed(content), NEW entry \in Entries, AllManaged(entry.name)
    PROVE  LET new == EnsureNamed(content, entry)
           IN  /\ WellFormed(new)
               /\ SamePart(new, content)
               /\ Range(new) = {e \in Range(content) : e.name # entry.name} \cup {entry}
               /\ entry \in Range(content) => new = content
<1> DEFINE new == EnsureNamed(content, entry)
           n   == Len(content)
<1>1. content \in Seq(Entries) /\ n \in Nat /\ DOMAIN content = 1 .. n
    BY DEF WellFormed
<1>2. Managed(entry) /\ \A i \in DOMAIN content : content[i].name = entry.name => Managed(content[i])
    BY <1>1 DEF AllManaged
<1>3. CASE /\ \A i \in DOMAIN content : content[i].name # entry.name
           /\ new = Append(content, entry)
    <2>1. /\ new \in Seq(Entries) /\ DOMAIN new = 1 .. n + 1 /\ new[n + 1] = entry
          /\ \A i \in 1 .. n : new[i] = content[i]
        BY <1>1, <1>3
    <2> HIDE DEF new
    <2>2. \A i \in 1 .. n + 1 : i \in 1 .. n \/ i = n + 1
        BY <1>1
    <2>3. 1 .. n \subseteq 1 .. n + 1 /\ n + 1 \notin 1 .. n /\ n + 1 \in 1 .. n + 1
        BY <1>1
    <2>4. DistinctIn(kind, new)
        BY <1>1, <1>3, <2>1, <2>2, <2>3 DEF WellFormed, DistinctIn
    <2>5. Own(new) = Own(content) /\ \A i \in Own(new) : new[i] = content[i]
        BY <1>1, <1>2, <2>1, <2>2, <2>3 DEF Own
    <2>6. SamePart(new, content)
        BY <2>5, SamePositions
    <2>7. Range(new) = {e \in Range(content) : e.name # entry.name} \cup {entry}
        BY <1>1, <1>3, <2>1, <2>2, <2>3 DEF Range
    <2>8. entry \notin Range(content)
        BY <1>3 DEF Range
    <2>9. QED
        BY <2>1, <2>4, <2>6, <2>7, <2>8 DEF WellFormed, new
<1>4. ASSUME NEW i \in DOMAIN content, content[i].name = entry.name,
             new = [content EXCEPT ![i] = entry]
      PROVE  /\ WellFormed(new)
             /\ SamePart(new, content)
             /\ Range(new) = {e \in Range(content) : e.name # entry.name} \cup {entry}
             /\ entry \in Range(content) => new = content
    <2>1. /\ new \in Seq(Entries) /\ DOMAIN new = 1 .. n /\ new[i] = entry
          /\ \A j \in 1 .. n : j # i => new[j] = content[j]
        BY <1>1, <1>4
    <2>2. \A j \in 1 .. n : j # i => content[j].name # entry.name
        BY <1>1, <1>2, <1>4, DistinctNames
    <2>3. entry \in Range(content) => content[i] = entry
        BY <1>1, <1>4, <2>2 DEF Range
    <2>4. content[i] = entry => new = content
        BY <1>1, <1>4
    <2> HIDE DEF new
    <2>5. DistinctIn(kind, new)
        BY <1>1, <1>4, <2>1, <2>2 DEF WellFormed, DistinctIn
    <2>6. Own(new) = Own(content) /\ \A j \in Own(new) : new[j] = content[j]
        BY <1>1, <1>2, <1>4, <2>1 DEF Own
    <2>7. SamePart(new, content)
        BY <2>6, SamePositions
    <2>8. Range(new) = {e \in Range(content) : e.name # entry.name} \cup {entry}
        <3>1. ASSUME NEW e \in Range(new)
              PROVE  e \in {x \in Range(content) : x.name # entry.name} \cup {entry}
            BY <1>1, <2>1, <2>2 DEF Range
        <3>2. ASSUME NEW e \in Range(content), e.name # entry.name
              PROVE  e \in Range(new)
            BY <1>1, <1>4, <2>1, <3>2 DEF Range
        <3>3. entry \in Range(new)
            BY <1>1, <1>4, <2>1 DEF Range
        <3>4. QED
            BY <3>1, <3>2, <3>3
    <2>9. QED
        BY <2>1, <2>3, <2>4, <2>5, <2>7, <2>8 DEF WellFormed
<1>5. QED
    BY <1>1, <1>3, <1>4, EnsureNamedCases

\* EnsureUnitOption adds an option that is not there.
LEMMA EnsureOptionKeeps ==
    ASSUME NEW content, WellFormed(content), NEW entry \in Entries, Managed(entry),
           \A e \in Entries : Managed(e) /\ e.name = entry.name => e = entry
    PROVE  LET new == EnsureOption(content, entry)
           IN  /\ WellFormed(new)
               /\ SamePart(new, content)
               /\ Range(new) = Range(content) \cup {entry}
               /\ entry \in Range(content) => new = content
<1> DEFINE new == EnsureOption(content, entry)
           n   == Len(content)
<1>1. content \in Seq(Entries) /\ n \in Nat /\ DOMAIN content = 1 .. n
    BY DEF WellFormed
<1>2. CASE entry \in Range(content)
    <2>1. new = content
        BY <1>1, <1>2 DEF EnsureOption, Contains, Range
    <2>2. SamePart(content, content)
        BY SamePositions
    <2>3. QED
        BY <1>2, <2>1, <2>2
<1>3. CASE entry \notin Range(content)
    <2>1. new = Append(content, entry)
        BY <1>1, <1>3 DEF EnsureOption, Contains, Range
    <2>2. /\ new \in Seq(Entries) /\ DOMAIN new = 1 .. n + 1 /\ new[n + 1] = entry
          /\ \A i \in 1 .. n : new[i] = content[i]
        BY <1>1, <2>1
    <2> HIDE DEF new
    <2>3. \A i \in 1 .. n + 1 : i \in 1 .. n \/ i = n + 1
        BY <1>1
    <2>4. 1 .. n \subseteq 1 .. n + 1 /\ n + 1 \notin 1 .. n /\ n + 1 \in 1 .. n + 1
        BY <1>1
    <2>5. \A i \in 1 .. n : Managed(content[i]) => content[i].name # entry.name
        BY <1>1, <1>3 DEF Range
    <2>6. DistinctIn(kind, new)
        BY <1>1, <2>2, <2>3, <2>4, <2>5 DEF WellFormed, DistinctIn, Managed
    <2>7. Own(new) = Own(content) /\ \A i \in Own(new) : new[i] = content[i]
        BY <1>1, <2>2, <2>3, <2>4 DEF Own
    <2>8. SamePart(new, content)
        BY <2>7, SamePositions
    <2>9. Range(new) = Range(content) \cup {entry}
        BY <1>1, <2>2, <2>3, <2>4 DEF Range
    <2>10. QED
        BY <1>3, <2>2, <2>6, <2>8, <2>9 DEF WellFormed, new
<1>4. QED
    BY <1>2, <1>3

\* Taking one managed entry away takes that one only.
LEMMA RemoveAtWellFormed ==
    ASSUME NEW content, WellFormed(content), NEW i \in DOMAIN content, Managed(content[i])
    PROVE  LET rest == RemoveAt(content, i)
           IN  /\ WellFormed(rest)
               /\ SamePart(rest, content)
               /\ Range(rest) = Range(content) \ {content[i]}
<1> DEFINE rest == RemoveAt(content, i)
           n    == Len(content)
           At(k) == IF k < i THEN k ELSE k + 1
<1>1. content \in Seq(Entries) /\ n \in Nat /\ DOMAIN content = 1 .. n /\ i \in 1 .. n
    BY DEF WellFormed
<1>2. rest \in Seq(Entries) /\ Len(rest) = n - 1 /\ \A k \in DOMAIN rest : rest[k] = content[At(k)]
    BY <1>1, RemoveAtEntries
<1>3. DOMAIN rest = 1 .. n - 1
    BY <1>1, <1>2
<1>4. \A k \in 1 .. n - 1 : At(k) \in 1 .. n /\ At(k) # i
    BY <1>1
<1>5. \A j, k \in 1 .. n - 1 : At(j) = At(k) => j = k
    BY <1>1
<1>6. \A k \in 1 .. n : k # i => \E j \in 1 .. n - 1 : At(j) = k
    <2> SUFFICES ASSUME NEW k \in 1 .. n, k # i
                 PROVE  \E j \in 1 .. n - 1 : At(j) = k
        OBVIOUS
    <2>1. k < i => k \in 1 .. n - 1 /\ At(k) = k
        BY <1>1
    <2>2. ~(k < i) => k - 1 \in 1 .. n - 1 /\ At(k - 1) = k
        BY <1>1
    <2>3. QED
        BY <2>1, <2>2
<1> HIDE DEF rest, At
<1>7. DistinctIn(kind, rest)
    BY <1>1, <1>2, <1>3, <1>4, <1>5 DEF WellFormed, DistinctIn
<1>8. \A k \in DOMAIN content : content[k] = content[i] => k = i
    BY <1>1, DistinctNames
<1>9. Range(rest) = Range(content) \ {content[i]}
    BY <1>1, <1>2, <1>3, <1>4, <1>6, <1>8 DEF Range
<1>10. SamePart(rest, content)
    BY <1>1, RemoveAtKeeps DEF rest
<1>11. QED
    BY <1>2, <1>7, <1>9, <1>10 DEF WellFormed, rest

\* delete takes away what has that name, and leaves a list alone that has none.
LEMMA WithoutKeeps ==
    ASSUME NEW content, WellFormed(content), NEW name, AllManaged(name)
    PROVE  LET new == Without(content, name)
           IN  /\ WellFormed(new)
               /\ SamePart(new, content)
               /\ Range(new) = {e \in Range(content) : e.name # name}
               /\ (\A e \in Range(content) : e.name # name) => new = content
<1> DEFINE new == Without(content, name)
<1>1. content \in Seq(Entries)
    BY DEF WellFormed
<1>2. CASE (\A i \in DOMAIN content : content[i].name # name) /\ new = content
    <2>1. SamePart(content, content)
        BY SamePositions
    <2>2. Range(content) = {e \in Range(content) : e.name # name}
        BY <1>2 DEF Range
    <2>3. QED
        BY <1>2, <2>1, <2>2
<1>3. ASSUME NEW i \in DOMAIN content, content[i].name = name, new = RemoveAt(content, i)
      PROVE  /\ WellFormed(new)
             /\ SamePart(new, content)
             /\ Range(new) = {e \in Range(content) : e.name # name}
             /\ (\A e \in Range(content) : e.name # name) => new = content
    <2>1. \A k \in DOMAIN content : content[k].name = name => Managed(content[k])
        BY <1>1 DEF AllManaged
    <2>2. WellFormed(new) /\ SamePart(new, content) /\ Range(new) = Range(content) \ {content[i]}
        BY <1>3, <2>1, RemoveAtWellFormed
    <2>3. \A k \in DOMAIN content : content[k].name = name => k = i
        BY <1>3, <2>1, DistinctNames
    <2>4. \A e \in Range(content) : e.name = name <=> e = content[i]
        BY <1>3, <2>3 DEF Range
    <2>5. content[i] \in Range(content)
        BY DEF Range
    <2> HIDE DEF new
    <2>6. QED
        BY <1>3, <2>2, <2>4, <2>5
<1>4. QED
    BY <1>1, <1>2, <1>3, WithoutCases

\* EnsureNoStringWithPrefixContains takes the value away, for there is one at most.
LEMMA WithoutEntryKeeps ==
    ASSUME NEW content, WellFormed(content), NEW entry, Managed(entry)
    PROVE  LET new == WithoutEntry(content, entry)
           IN  /\ WellFormed(new)
               /\ SamePart(new, content)
               /\ Range(new) = Range(content) \ {entry}
               /\ entry \notin Range(content) => new = content
<1> DEFINE new == WithoutEntry(content, entry)
<1>1. content \in Seq(Entries)
    BY DEF WellFormed
<1>2. CASE (\A i \in DOMAIN content : content[i] # entry) /\ new = content
    <2>1. SamePart(content, content)
        BY SamePositions
    <2>2. entry \notin Range(content)
        BY <1>2 DEF Range
    <2>3. QED
        BY <1>2, <2>1, <2>2
<1>3. ASSUME NEW i \in DOMAIN content, content[i] = entry, new = RemoveAt(content, i)
      PROVE  /\ WellFormed(new)
             /\ SamePart(new, content)
             /\ Range(new) = Range(content) \ {entry}
             /\ entry \notin Range(content) => new = content
    <2>1. WellFormed(new) /\ SamePart(new, content) /\ Range(new) = Range(content) \ {content[i]}
        BY <1>3, RemoveAtWellFormed
    <2>2. content[i] \in Range(content)
        BY DEF Range
    <2> HIDE DEF new
    <2>3. QED
        BY <1>3, <2>1, <2>2
<1>4. QED
    BY <1>1, <1>2, <1>3, WithoutEntryCases

\* A container that is replaced twice is as if it were replaced once.
LEMMA EnsureNamedTwice ==
    ASSUME NEW content \in Seq(Entries), NEW one \in Entries, NEW two \in Entries,
           one.name = two.name
    PROVE  EnsureNamed(EnsureNamed(content, one), two) = EnsureNamed(content, two)
<1> DEFINE first == EnsureNamed(content, one)
           n     == Len(content)
<1>1. n \in Nat /\ DOMAIN content = 1 .. n
    OBVIOUS
<1>2. CASE /\ \A i \in DOMAIN content : content[i].name # one.name
           /\ first = Append(content, one)
    <2>1. /\ first \in Seq(Entries) /\ DOMAIN first = 1 .. n + 1 /\ first[n + 1] = one
          /\ \A i \in 1 .. n : first[i] = content[i]
        BY <1>2
    <2>2. \A i \in 1 .. n + 1 : i \in 1 .. n \/ i = n + 1
        BY <1>1
    <2>3. \A i \in DOMAIN first : first[i].name = two.name <=> i = n + 1
        BY <1>1, <1>2, <2>1, <2>2
    <2>4. EnsureNamed(first, two) = [first EXCEPT ![n + 1] = two]
        <3> HIDE DEF first
        <3>1. n + 1 \in DOMAIN first
            BY <1>1, <2>1
        <3>2. QED
            BY <2>1, <2>3, <3>1, EnsureNamedCases
    <2>5. EnsureNamed(content, two) = Append(content, two)
        BY <1>1, <1>2, EnsureNamedCases
    <2>6. [Append(content, one) EXCEPT ![n + 1] = two] = Append(content, two)
        <3> DEFINE a == Append(content, one)
                   b == [a EXCEPT ![n + 1] = two]
                   c == Append(content, two)
        <3>1. /\ a \in Seq(Entries) /\ Len(a) = n + 1 /\ \A i \in 1 .. n : a[i] = content[i]
              /\ c \in Seq(Entries) /\ Len(c) = n + 1 /\ c[n + 1] = two
              /\ \A i \in 1 .. n : c[i] = content[i]
            BY AppendProperties
        <3>2. n + 1 \in 1 .. Len(a)
            BY <1>1, <3>1
        <3> HIDE DEF a, c
        <3>3. /\ b \in Seq(Entries) /\ Len(b) = n + 1
              /\ \A j \in 1 .. n + 1 : b[j] = IF j = n + 1 THEN two ELSE a[j]
            BY <3>1, <3>2, ExceptSeq
        <3> HIDE DEF b
        <3>4. \A j \in 1 .. n + 1 : b[j] = c[j]
            BY <2>2, <3>1, <3>3
        <3>5. b = c
            BY <3>1, <3>3, <3>4, SeqEqual
        <3>6. QED
            BY <3>5 DEF a, b, c
    <2>7. QED
        BY <1>2, <2>4, <2>5, <2>6
<1>3. ASSUME NEW i \in DOMAIN content, content[i].name = one.name,
             \A j \in DOMAIN content : content[j].name = one.name => i <= j,
             first = [content EXCEPT ![i] = one]
      PROVE  EnsureNamed(first, two) = EnsureNamed(content, two)
    <2>1. /\ first \in Seq(Entries) /\ DOMAIN first = 1 .. n /\ first[i] = one
          /\ \A j \in 1 .. n : first[j].name = content[j].name
        BY <1>1, <1>3
    <2>2. \A j, k \in 1 .. n : j <= k /\ k <= j => j = k
        BY <1>1
    <2>3. EnsureNamed(first, two) = [first EXCEPT ![i] = two]
        <3> HIDE DEF first
        <3>1. PICK k \in DOMAIN first :
                 /\ first[k].name = two.name
                 /\ \A j \in DOMAIN first : first[j].name = two.name => k <= j
                 /\ EnsureNamed(first, two) = [first EXCEPT ![k] = two]
            BY <1>1, <1>3, <2>1, EnsureNamedCases
        <3>2. k = i
            BY <1>1, <1>3, <2>1, <2>2, <3>1
        <3>3. QED
            BY <3>1, <3>2
    <2>4. EnsureNamed(content, two) = [content EXCEPT ![i] = two]
        <3>1. PICK k \in DOMAIN content :
                 /\ content[k].name = two.name
                 /\ \A j \in DOMAIN content : content[j].name = two.name => k <= j
                 /\ EnsureNamed(content, two) = [content EXCEPT ![k] = two]
            BY <1>3, EnsureNamedCases
        <3>2. k = i
            BY <1>1, <1>3, <2>2, <3>1
        <3>3. QED
            BY <3>1, <3>2
    <2>5. [[content EXCEPT ![i] = one] EXCEPT ![i] = two] = [content EXCEPT ![i] = two]
        BY <1>1, <1>3
    <2>6. QED
        BY <1>3, <2>3, <2>4, <2>5
<1>4. QED
    BY <1>2, <1>3, EnsureNamedCases

-----------------------------------------------------------------------------
(* The Ensurer                                                             *)

\* Entries have their name.
LEMMA EntryFields ==
    ASSUME NEW name \in Texts, NEW value \in Texts
    PROVE  /\ Entry(name, value) \in Entries
           /\ Entry(name, value).name = name
<1>1. Entry(name, value) \in Entries
    BY DEF Entry, Entries
<1>2. Entry(name, value).name = name
    BY DEF Entry
<1>3. QED
    BY <1>1, <1>2

\* The names and values that the Ensurer knows
LEMMA Literals ==
    /\ Provider \in Texts /\ PublicNetworks \in Texts /\ PrivateNetworks \in Texts
    /\ CloudProvider \in Texts /\ AttachDetach \in Texts
    /\ "ExecStartPre" \in Texts /\ "hostnamectl" \in Texts
    /\ "policy" \in Texts /\ "allowed" \in Texts /\ "external" \in Texts /\ "true" \in Texts
BY ObjectsAssumption

\* Where names are told apart, an object is complete if it has what is required, and
\* nothing that is forbidden.
LEMMA CompleteByRange ==
    ASSUME NEW content, WellFormed(content), NEW r, \A e \in Required(r) : Managed(e)
    PROVE  CompleteWith(content, r) <=>
               Required(r) \subseteq Range(content) /\ \A e \in Range(content) : ~Forbidden(e)
<1>1. ASSUME NEW i \in DOMAIN content, NEW e \in Required(r), content[i] = e
      PROVE  {j \in DOMAIN content : Managed(content[j]) /\ content[j].name = e.name} = {i}
    BY <1>1, DistinctNames
<1>2. \A e : e \in Range(content) <=> \E i \in DOMAIN content : content[i] = e
    BY DEF Range
<1>3. QED
    BY <1>1, <1>2 DEF CompleteWith

\* What the webhook makes of an object: everything of its own once, Gardener's part
\* as it was, and nothing more where there is nothing to do.
Completed(new, content, r) ==
    /\ WellFormed(new)
    /\ SamePart(new, content)
    /\ CompleteWith(new, r)
    /\ CompleteWith(content, r) => new = content

\* EnsureMachineControllerManagerDeployment, and the same of its VPA
LEMMA SidecarCompleted ==
    ASSUME NEW content, WellFormed(content), NEW r \in Releases, NEW value \in Texts,
           kind \in {"machine-controller-manager", "machine-controller-manager-vpa"},
           Required(r) = {Entry(Provider, value)}
    PROVE  Completed(EnsureNamed(content, Entry(Provider, value)), content, r)
<1> DEFINE entry == Entry(Provider, value)
           new   == EnsureNamed(content, entry)
<1>1. entry \in Entries /\ entry.name = Provider
    BY EntryFields, Literals
<1>2. \A e : Managed(e) <=> e.name = Provider
    BY DEF Managed, ManagedIn
<1>3. /\ WellFormed(new) /\ SamePart(new, content)
      /\ Range(new) = {e \in Range(content) : e.name # Provider} \cup {entry}
      /\ entry \in Range(content) => new = content
    BY <1>1, <1>2, EnsureNamedKeeps DEF AllManaged
<1>4. \A e : ~Forbidden(e)
    BY DEF Forbidden
<1> HIDE DEF entry, new
<1>5. QED
    BY <1>1, <1>2, <1>3, <1>4, CompleteByRange DEF Completed, entry, new

\* EnsureKubeAPIServerCommandLineArgs
LEMMA GatesCompleted ==
    ASSUME NEW content, WellFormed(content), NEW r, kind = "kube-apiserver"
    PROVE  Completed(EnsureKubeAPIServerCommandLineArgs(content), content, r)
<1> DEFINE one == WithoutEntry(content, NoNodeInfo)
           two == WithoutEntry(one, NoDriverRegistry)
<1>1. \A e : Managed(e) <=> e \in {NoNodeInfo, NoDriverRegistry}
    BY DEF Managed, ManagedIn
<1>2. /\ WellFormed(one) /\ SamePart(one, content) /\ Range(one) = Range(content) \ {NoNodeInfo}
      /\ NoNodeInfo \notin Range(content) => one = content
    BY <1>1, WithoutEntryKeeps
<1> HIDE DEF one
<1>3. /\ WellFormed(two) /\ SamePart(two, one) /\ Range(two) = Range(one) \ {NoDriverRegistry}
      /\ NoDriverRegistry \notin Range(one) => two = one
    BY <1>1, <1>2, WithoutEntryKeeps
<1> HIDE DEF two
<1>4. SamePart(two, content)
    BY <1>2, <1>3, SamePartTransitive
<1>5. Required(r) = {} /\ \A e : Forbidden(e) <=> e \in {NoNodeInfo, NoDriverRegistry}
    BY DEF Required, Forbidden
<1>6. CompleteWith(two, r)
    BY <1>2, <1>3, <1>5, CompleteByRange
<1>7. CompleteWith(content, r) => two = content
    BY <1>2, <1>3, <1>5, CompleteByRange
<1>8. QED
    BY <1>3, <1>4, <1>6, <1>7 DEF Completed, EnsureKubeAPIServerCommandLineArgs, one, two

\* EnsureKubeControllerManagerAnnotations
LEMMA LabelsCompleted ==
    ASSUME NEW content, WellFormed(content), NEW r, kind = "kube-controller-manager"
    PROVE  Completed(EnsureKubeControllerManagerAnnotations(content), content, r)
<1> DEFINE public  == Entry(PublicNetworks, "allowed")
           private == Entry(PrivateNetworks, "allowed")
           one   == Without(content, BlockedCIDRs)
           two   == EnsureNamed(one, public)
           three == EnsureNamed(two, private)
<1>1. \A e : Managed(e) <=> e.name \in {PublicNetworks, PrivateNetworks, BlockedCIDRs}
    BY DEF Managed, ManagedIn
<1>2. /\ public \in Entries /\ public.name = PublicNetworks
      /\ private \in Entries /\ private.name = PrivateNetworks
      /\ PublicNetworks # PrivateNetworks
      /\ BlockedCIDRs \notin {PublicNetworks, PrivateNetworks}
    <2>1. PublicNetworks # PrivateNetworks /\ BlockedCIDRs \notin {PublicNetworks, PrivateNetworks}
        BY DEF PublicNetworks, PrivateNetworks, BlockedCIDRs
    <2>2. QED
        BY <2>1, EntryFields, Literals
<1>3. Required(r) = {public, private} /\ \A e : Forbidden(e) <=> e.name = BlockedCIDRs
    BY DEF Required, Forbidden
<1> HIDE DEF public, private
<1>4. /\ WellFormed(one) /\ SamePart(one, content)
      /\ Range(one) = {e \in Range(content) : e.name # BlockedCIDRs}
      /\ (\A e \in Range(content) : e.name # BlockedCIDRs) => one = content
    BY <1>1, WithoutKeeps DEF AllManaged
<1> HIDE DEF one
<1>5. /\ WellFormed(two) /\ SamePart(two, one)
      /\ Range(two) = {e \in Range(one) : e.name # PublicNetworks} \cup {public}
      /\ public \in Range(one) => two = one
    BY <1>1, <1>2, <1>4, EnsureNamedKeeps DEF AllManaged
<1> HIDE DEF two
<1>6. /\ WellFormed(three) /\ SamePart(three, two)
      /\ Range(three) = {e \in Range(two) : e.name # PrivateNetworks} \cup {private}
      /\ private \in Range(two) => three = two
    BY <1>1, <1>2, <1>5, EnsureNamedKeeps DEF AllManaged
<1> HIDE DEF three
<1>7. SamePart(three, content)
    BY <1>4, <1>5, <1>6, SamePartTransitive
<1>8. \A e \in Required(r) : Managed(e)
    BY <1>1, <1>2, <1>3
<1>9. CompleteWith(three, r)
    <2>1. Required(r) \subseteq Range(three)
        BY <1>2, <1>3, <1>5, <1>6
    <2>2. \A e \in Range(three) : ~Forbidden(e)
        BY <1>2, <1>3, <1>4, <1>5, <1>6
    <2>3. QED
        BY <1>6, <1>8, <2>1, <2>2, CompleteByRange
<1>10. CompleteWith(content, r) => three = content
    <2> SUFFICES ASSUME CompleteWith(content, r) PROVE three = content
        OBVIOUS
    <2>1. {public, private} \subseteq Range(content) /\ \A e \in Range(content) : e.name # BlockedCIDRs
        BY <1>3, <1>8, CompleteByRange
    <2>2. QED
        BY <1>4, <1>5, <1>6, <2>1
<1>11. QED
    BY <1>6, <1>7, <1>9, <1>10
       DEF Completed, EnsureKubeControllerManagerAnnotations, one, two, three, public, private

\* EnsureKubeletServiceUnitOptions
LEMMA UnitCompleted ==
    ASSUME NEW content, WellFormed(content), NEW r, kind = "kubelet.service"
    PROVE  Completed(EnsureKubeletServiceUnitOptions(content), content, r)
<1> DEFINE external == Entry(CloudProvider, "external")
           one == EnsureKubeletCommandLineArgs(content)
           two == EnsureOption(one, Hostname)
<1>1. \A e : Managed(e) <=> e.name = CloudProvider \/ e = Hostname
    BY DEF Managed, ManagedIn
<1>2. /\ external \in Entries /\ external.name = CloudProvider
      /\ Hostname \in Entries /\ Hostname.name # CloudProvider
    <2>1. CloudProvider # "ExecStartPre"
        BY DEF CloudProvider
    <2>2. Hostname \in Entries /\ Hostname.name = "ExecStartPre"
        BY EntryFields, Literals DEF Hostname
    <2>3. QED
        BY <2>1, <2>2, EntryFields, Literals
<1>3. /\ Required(r) = {Hostname} \cup (IF kubelet < 99 THEN {external} ELSE {})
      /\ \A e : ~Forbidden(e)
    BY DEF Required, Forbidden
<1> HIDE DEF external
<1>4. /\ WellFormed(one) /\ SamePart(one, content)
      /\ kubelet < 99 => external \in Range(one)
      /\ Hostname \in Range(content) => Hostname \in Range(one)
      /\ (kubelet < 99 => external \in Range(content)) => one = content
    <2>1. CASE kubelet < 99
        <3>1. one = EnsureNamed(content, external)
            BY <2>1 DEF EnsureKubeletCommandLineArgs, external
        <3>2. /\ WellFormed(one) /\ SamePart(one, content)
              /\ Range(one) = {e \in Range(content) : e.name # CloudProvider} \cup {external}
              /\ external \in Range(content) => one = content
            BY <1>1, <1>2, <3>1, EnsureNamedKeeps DEF AllManaged
        <3> HIDE DEF one
        <3>3. QED
            BY <1>2, <2>1, <3>2
    <2>2. CASE ~(kubelet < 99)
        <3>1. one = content
            BY <2>2 DEF EnsureKubeletCommandLineArgs
        <3>2. SamePart(content, content)
            BY SamePositions
        <3> HIDE DEF one
        <3>3. QED
            BY <2>2, <3>1, <3>2
    <2>3. QED
        BY <2>1, <2>2
<1> HIDE DEF one
<1>5. \A e \in Entries : Managed(e) /\ e.name = Hostname.name => e = Hostname
    BY <1>1, <1>2
<1>6. /\ WellFormed(two) /\ SamePart(two, one)
      /\ Range(two) = Range(one) \cup {Hostname}
      /\ Hostname \in Range(one) => two = one
    BY <1>1, <1>2, <1>4, <1>5, EnsureOptionKeeps
<1> HIDE DEF two
<1>7. SamePart(two, content)
    BY <1>4, <1>6, SamePartTransitive
<1>8. \A e \in Required(r) : Managed(e)
    BY <1>1, <1>2, <1>3
<1>9. CompleteWith(two, r)
    <2>1. Required(r) \subseteq Range(two)
        BY <1>3, <1>4, <1>6
    <2>2. QED
        BY <1>3, <1>6, <1>8, <2>1, CompleteByRange
<1>10. CompleteWith(content, r) => two = content
    <2> SUFFICES ASSUME CompleteWith(content, r) PROVE two = content
        OBVIOUS
    <2>1. Required(r) \subseteq Range(content)
        BY <1>8, CompleteByRange
    <2>2. Hostname \in Range(content) /\ (kubelet < 99 => external \in Range(content))
        BY <1>3, <2>1
    <2>3. QED
        BY <1>4, <1>6, <2>2
<1>11. QED
    BY <1>6, <1>7, <1>9, <1>10 DEF Completed, EnsureKubeletServiceUnitOptions, one, two

\* EnsureKubeletConfiguration
LEMMA KubeletCompleted ==
    ASSUME NEW content, WellFormed(content), NEW r, kind = "kubelet-config"
    PROVE  Completed(EnsureKubeletConfiguration(content), content, r)
<1> DEFINE attach == Entry(AttachDetach, "true")
           one   == Without(content, "VolumeSnapshotDataSource")
           two   == Without(one, "CSINodeInfo")
           three == Without(two, "CSIDriverRegistry")
           new   == EnsureKubeletConfiguration(content)
<1>1. \A e : Managed(e) <=> e.name \in RemovedGates \cup {AttachDetach}
    BY DEF Managed, ManagedIn
<1>2. \A name \in RemovedGates \cup {AttachDetach} : AllManaged(name)
    BY <1>1 DEF AllManaged
<1>3. attach \in Entries /\ attach.name = AttachDetach /\ AttachDetach \notin RemovedGates
    <2>1. AttachDetach \notin RemovedGates
        BY DEF AttachDetach, RemovedGates
    <2>2. QED
        BY <2>1, EntryFields, Literals
<1>4. /\ Required(r) = IF kubelet < 23 THEN {attach} ELSE {}
      /\ \A e : Forbidden(e) <=> e.name \in RemovedGates
    BY DEF Required, Forbidden
<1> HIDE DEF attach
<1>5. /\ WellFormed(one) /\ SamePart(one, content)
      /\ Range(one) = {e \in Range(content) : e.name # "VolumeSnapshotDataSource"}
      /\ (\A e \in Range(content) : e.name # "VolumeSnapshotDataSource") => one = content
    BY <1>2, WithoutKeeps DEF RemovedGates
<1> HIDE DEF one
<1>6. /\ WellFormed(two) /\ SamePart(two, one)
      /\ Range(two) = {e \in Range(one) : e.name # "CSINodeInfo"}
      /\ (\A e \in Range(one) : e.name # "CSINodeInfo") => two = one
    BY <1>2, <1>5, WithoutKeeps DEF RemovedGates
<1> HIDE DEF two
<1>7. /\ WellFormed(three) /\ SamePart(three, two)
      /\ Range(three) = {e \in Range(two) : e.name # "CSIDriverRegistry"}
      /\ (\A e \in Range(two) : e.name # "CSIDriverRegistry") => three = two
    BY <1>2, <1>6, WithoutKeeps DEF RemovedGates
<1> HIDE DEF three
<1>8. SamePart(three, content)
    BY <1>5, <1>6, <1>7, SamePartTransitive
<1>9. Range(three) = {e \in Range(content) : e.name \notin RemovedGates}
    BY <1>5, <1>6, <1>7 DEF RemovedGates
<1>10. (\A e \in Range(content) : e.name \notin RemovedGates) => three = content
    BY <1>5, <1>6, <1>7 DEF RemovedGates
<1>11. new = IF kubelet < 23 THEN EnsureNamed(three, attach) ELSE three
    BY DEF EnsureKubeletConfiguration, WithoutGates, one, two, three, attach
<1>12. \A e \in Required(r) : Managed(e)
    BY <1>1, <1>3, <1>4
<1>13. CompleteWith(content, r) => Required(r) \subseteq Range(content) /\ three = content
    BY <1>4, <1>10, <1>12, CompleteByRange
<1> HIDE DEF new
<1>14. CASE kubelet < 23
    <2>1. /\ WellFormed(new) /\ SamePart(new, three)
          /\ Range(new) = {e \in Range(three) : e.name # AttachDetach} \cup {attach}
          /\ attach \in Range(three) => new = three
        BY <1>2, <1>3, <1>7, <1>11, <1>14, EnsureNamedKeeps
    <2>2. SamePart(new, content)
        BY <1>8, <2>1, SamePartTransitive
    <2>3. CompleteWith(new, r)
        BY <1>3, <1>4, <1>9, <1>12, <1>14, <2>1, CompleteByRange
    <2>4. CompleteWith(content, r) => new = content
        BY <1>4, <1>13, <1>14, <2>1
    <2>5. QED
        BY <2>1, <2>2, <2>3, <2>4 DEF Completed, new
<1>15. CASE ~(kubelet < 23)
    <2>1. new = three
        BY <1>11, <1>15
    <2>2. CompleteWith(three, r)
        BY <1>4, <1>7, <1>9, <1>12, <1>15, CompleteByRange
    <2>3. QED
        BY <1>7, <1>8, <1>13, <2>1, <2>2 DEF Completed, new
<1>16. QED
    BY <1>14, <1>15

\* What the webhook writes is complete, whatever it was.
LEMMA MutatedCompletes ==
    ASSUME NEW content, WellFormed(content), NEW r \in Releases, kind \in Kinds
    PROVE  Completed(Mutated(content, r), content, r)
<1>1. CASE kind = "machine-controller-manager"
    <2>1. ImageOf[r] \in Texts
        BY ObjectsAssumption
    <2>2. Required(r) = {Entry(Provider, ImageOf[r])}
        BY <1>1 DEF Required
    <2>3. Mutated(content, r) = EnsureNamed(content, Entry(Provider, ImageOf[r]))
        BY <1>1 DEF Mutated, EnsureMachineControllerManagerDeployment
    <2>4. QED
        BY <1>1, <2>1, <2>2, <2>3, SidecarCompleted
<1>2. CASE kind = "machine-controller-manager-vpa"
    <2>1. Required(r) = {Entry(Provider, "policy")}
        BY <1>2 DEF Required
    <2>2. Mutated(content, r) = EnsureNamed(content, Entry(Provider, "policy"))
        BY <1>2 DEF Mutated, EnsureMachineControllerManagerVPA
    <2>3. QED
        BY <1>2, <2>1, <2>2, Literals, SidecarCompleted
<1>3. CASE kind = "kube-apiserver"
    BY <1>3, GatesCompleted DEF Mutated
<1>4. CASE kind = "kube-controller-manager"
    BY <1>4, LabelsCompleted DEF Mutated
<1>5. CASE kind = "kubelet.service"
    BY <1>5, UnitCompleted DEF Mutated
<1>6. CASE kind = "kubelet-config"
    BY <1>6, KubeletCompleted DEF Mutated
<1>7. QED
    BY <1>1, <1>2, <1>3, <1>4, <1>5, <1>6 DEF Kinds

\* What an earlier release put into an object is gone when the next has written it.
LEMMA MutatedTwice ==
    ASSUME NEW content, WellFormed(content), NEW r \in Releases, NEW q \in Releases, kind \in Kinds
    PROVE  Mutated(Mutated(content, r), q) = Mutated(content, q)
<1>1. CASE kind = "machine-controller-manager"
    <2> DEFINE one == Entry(Provider, ImageOf[r])
               two == Entry(Provider, ImageOf[q])
    <2>1. one \in Entries /\ two \in Entries /\ one.name = two.name
        <3>1. ImageOf[r] \in Texts /\ ImageOf[q] \in Texts
            BY ObjectsAssumption
        <3>2. QED
            BY <3>1, EntryFields, Literals
    <2>2. \A c : /\ Mutated(c, r) = EnsureNamed(c, one)
                 /\ Mutated(c, q) = EnsureNamed(c, two)
        BY <1>1 DEF Mutated, EnsureMachineControllerManagerDeployment
    <2> HIDE DEF one, two
    <2>3. QED
        BY <2>1, <2>2, EnsureNamedTwice DEF WellFormed
<1>2. CASE kind # "machine-controller-manager"
    <2>1. \A c : Mutated(c, r) = Mutated(c, q)
        <3>1. CASE kind = "machine-controller-manager-vpa"
            BY <3>1 DEF Mutated
        <3>2. CASE kind = "kube-apiserver"
            BY <3>2 DEF Mutated
        <3>3. CASE kind = "kube-controller-manager"
            BY <3>3 DEF Mutated
        <3>4. CASE kind = "kubelet.service"
            BY <3>4 DEF Mutated
        <3>5. CASE kind = "kubelet-config"
            BY <3>5 DEF Mutated
        <3>6. QED
            BY <1>2, <3>1, <3>2, <3>3, <3>4, <3>5 DEF Kinds
    <2>2. Completed(Mutated(content, q), content, q)
        BY MutatedCompletes
    <2>3. Completed(Mutated(Mutated(content, q), q), Mutated(content, q), q)
        BY <2>2, MutatedCompletes DEF Completed
    <2>4. QED
        BY <2>1, <2>2, <2>3 DEF Completed
<1>3. QED
    BY <1>1, <1>2

-----------------------------------------------------------------------------
(* The inductive invariant                                                 *)

\* Processes and the object
MutationInv == ProcessInv /\ MutationTypeOK /\ ObjectInv

\* What gardenlet writes can be completed.
LEMMA IntentWellFormed ==
    ASSUME NEW content, kind \in Kinds, content \in Contents[kind]
    PROVE  WellFormed(content)
BY ObjectsAssumption DEF WellFormed

\* Only a younger kubelet, for which the webhook writes less, may come between writes.
LEMMA ObjectKept ==
    ASSUME MutationTypeOK, ObjectInv, UNCHANGED <<kind, object, base, writer>>,
           kubelet' \in Kubelets, kubelet <= kubelet'
    PROVE  ObjectInv'
<1> SUFFICES ASSUME object # Nothing PROVE ObjectInv'
    BY DEF ObjectInv
<1>1. kubelet \in Nat /\ kubelet' \in Nat /\ base.kubelet \in Nat
    BY ObjectsAssumption DEF MutationTypeOK
<1>2. /\ DistinctIn(kind, object) /\ CompleteWith(object, writer)
      /\ SamePart(object, base.content)
      /\ base.kubelet <= kubelet
      /\ base.kubelet = kubelet => object = Mutated(base.content, writer)
    BY DEF ObjectInv
<1>3. kind \in Kinds /\ kind' = kind
    BY DEF MutationTypeOK
<1>4. Required(writer)' \subseteq Required(writer)
    BY <1>1, <1>3 DEF Required, Kinds
<1>5. CompleteWith(object, writer)'
    BY <1>2, <1>4 DEF CompleteWith, Forbidden, Managed
<1>6. SamePart(object, base.content)'
    BY <1>2 DEF SamePart, Own, Managed
<1>7. base.kubelet = kubelet' => kubelet' = kubelet
    BY <1>1, <1>2
<1>8. kubelet' = kubelet => Mutated(base.content, writer)' = Mutated(base.content, writer)
    BY DEF Mutated, EnsureKubeletServiceUnitOptions, EnsureKubeletCommandLineArgs,
           EnsureKubeletConfiguration
<1>9. base.kubelet <= kubelet'
    BY <1>1, <1>2
<1>10. (base.kubelet = kubelet => object = Mutated(base.content, writer))'
    BY <1>2, <1>7, <1>8
<1>11. QED
    BY <1>2, <1>5, <1>6, <1>9, <1>10 DEF ObjectInv

\* A write completes what it carries.
LEMMA ObjectWritten ==
    ASSUME kind' = kind, kubelet' = kubelet, NEW r \in Releases, writer' = r,
           NEW content, WellFormed(content), kind \in Kinds, object' = Mutated(content, r),
           SamePart(content, base'.content), base'.kubelet <= kubelet,
           base'.kubelet = kubelet => object' = Mutated(base'.content, r)
    PROVE  ObjectInv'
<1>1. Completed(object', content, r)
    BY MutatedCompletes
<1>2. SamePart(object', base'.content)
    BY <1>1, SamePartTransitive DEF Completed
<1>3. CompleteWith(object, writer)'
    BY <1>1 DEF Completed, CompleteWith, Required, Forbidden, Managed
<1>4. SamePart(object, base.content)'
    <2>1. Own(object)' = Own(object') /\ Own(base.content)' = Own(base'.content)
        BY DEF Own, Managed
    <2>2. QED
        BY <1>2, <2>1 DEF SamePart
<1>5. Mutated(base.content, writer)' = Mutated(base'.content, r)
    BY DEF Mutated, EnsureKubeletServiceUnitOptions, EnsureKubeletCommandLineArgs,
           EnsureKubeletConfiguration
<1>6. DistinctIn(kind, object)'
    BY <1>1 DEF Completed, WellFormed
<1>7. QED
    BY <1>3, <1>4, <1>5, <1>6 DEF ObjectInv

\* There is no object to begin with.
LEMMA MutationInitial == MutationInit => MutationInv
<1> SUFFICES ASSUME MutationInit PROVE MutationInv
    OBVIOUS
<1>1. ProcessInv /\ ProcessTypeOK
    BY ProcessInitial DEF MutationInit, ProcessInv
<1>2. MutationTypeOK
    BY <1>1 DEF MutationInit, MutationTypeOK
<1>3. ObjectInv
    BY DEF MutationInit, ObjectInv
<1>4. QED
    BY <1>1, <1>2, <1>3 DEF MutationInv

\* The webhook's writes do not touch the process.
LEMMA ProcessSteps == [MutationNext]_allVars => [ProcessNext]_processVars
BY DEF MutationNext, WriteStep, Reconcile, Patch, ChangeShoot, allVars, processVars

\* Gardenlet's own write keeps the invariant.
LEMMA ReconcileInv == MutationInv /\ Reconcile => MutationTypeOK' /\ ObjectInv'
<1> SUFFICES ASSUME MutationInv, Reconcile PROVE MutationTypeOK' /\ ObjectInv'
    OBVIOUS
<1>1. PICK r \in Releases : object' = Mutated(intent, r) /\ writer' = r
    BY DEF Reconcile, Admit
<1>2. /\ base' = [content |-> intent, kubelet |-> kubelet]
      /\ UNCHANGED <<processVars, kind, kubelet, intent>>
    BY DEF Reconcile
<1>3. /\ kind \in Kinds /\ kubelet \in Kubelets /\ intent \in Contents[kind]
      /\ kubelet \in Nat /\ ProcessTypeOK
    BY ObjectsAssumption DEF MutationInv, MutationTypeOK
<1>4. WellFormed(intent)
    BY <1>3, IntentWellFormed
<1>5. object' \in Seq(Entries) /\ object' # Nothing
    BY <1>1, <1>3, <1>4, MutatedCompletes, ObjectsAssumption DEF Completed, WellFormed
<1>6. /\ base' \in [content : Contents[kind], kubelet : Kubelets]
      /\ base'.content = intent /\ base'.kubelet = kubelet
    BY <1>2, <1>3
<1>7. base' # Nothing /\ writer' # Nothing
    BY <1>1, <1>3, <1>6, ObjectsAssumption
<1>8. MutationTypeOK'
    <2>1. ProcessTypeOK'
        BY <1>2, <1>3 DEF ProcessTypeOK, processVars
    <2>2. QED
        BY <1>1, <1>2, <1>3, <1>5, <1>6, <1>7, <2>1 DEF MutationTypeOK
<1>9. SamePart(intent, base'.content)
    BY <1>6, SamePositions
<1>10. ObjectInv'
    <2>1. base'.kubelet <= kubelet /\ object' = Mutated(base'.content, r)
        BY <1>1, <1>3, <1>6
    <2>2. QED
        BY <1>1, <1>2, <1>3, <1>4, <1>9, <2>1, ObjectWritten
<1>11. QED
    BY <1>8, <1>10

\* So does the write of another client, through either release.
LEMMA PatchInv == MutationInv /\ Patch => MutationTypeOK' /\ ObjectInv'
<1> SUFFICES ASSUME MutationInv, Patch PROVE MutationTypeOK' /\ ObjectInv'
    OBVIOUS
<1>1. PICK r \in Releases : object' = Mutated(object, r) /\ writer' = r
    BY DEF Patch, Admit
<1>2. object # Nothing /\ UNCHANGED <<processVars, kind, kubelet, intent, base>>
    BY DEF Patch
<1>3. /\ kind \in Kinds /\ kubelet \in Kubelets /\ intent \in Contents[kind]
      /\ ProcessTypeOK /\ object \in Seq(Entries) /\ writer \in Releases
      /\ base # Nothing /\ base \in [content : Contents[kind], kubelet : Kubelets]
    BY <1>2 DEF MutationInv, MutationTypeOK
<1>4. /\ DistinctIn(kind, object) /\ SamePart(object, base.content)
      /\ base.kubelet <= kubelet
      /\ base.kubelet = kubelet => object = Mutated(base.content, writer)
    BY <1>2 DEF MutationInv, ObjectInv
<1>5. WellFormed(object) /\ WellFormed(base.content)
    BY <1>3, <1>4, IntentWellFormed DEF WellFormed
<1>6. object' \in Seq(Entries) /\ object' # Nothing /\ writer' # Nothing
    <2>1. object' \in Seq(Entries)
        BY <1>1, <1>3, <1>5, MutatedCompletes DEF Completed, WellFormed
    <2>2. QED
        BY <1>1, <2>1, ObjectsAssumption
<1>7. MutationTypeOK'
    <2>1. ProcessTypeOK'
        BY <1>2, <1>3 DEF ProcessTypeOK, processVars
    <2>2. QED
        BY <1>1, <1>2, <1>3, <1>6, <2>1 DEF MutationTypeOK
<1>8. base.kubelet = kubelet => object' = Mutated(base.content, r)
    BY <1>1, <1>3, <1>4, <1>5, MutatedTwice
<1>9. ObjectInv'
    BY <1>1, <1>2, <1>3, <1>4, <1>5, <1>8, ObjectWritten
<1>10. QED
    BY <1>7, <1>9

\* Every step of processes, gardenlet and clients keeps the inductive invariant.
LEMMA MutationStep == MutationInv /\ [MutationNext]_allVars => MutationInv'
<1> SUFFICES ASSUME MutationInv, [MutationNext]_allVars PROVE MutationInv'
    OBVIOUS
<1>1. ProcessInv' /\ ProcessTypeOK'
    BY ProcessStep, ProcessSteps DEF MutationInv, ProcessInv
<1>2. CASE Reconcile
    BY <1>1, <1>2, ReconcileInv DEF MutationInv
<1>3. CASE Patch
    BY <1>1, <1>3, PatchInv DEF MutationInv
<1>4. ASSUME UNCHANGED <<kind, object, base, writer>>, kubelet' \in Kubelets,
             kubelet <= kubelet', intent' \in Contents[kind]
      PROVE  MutationInv'
    <2>1. MutationTypeOK'
        BY <1>1, <1>4 DEF MutationInv, MutationTypeOK
    <2>2. ObjectInv'
        BY <1>4, ObjectKept DEF MutationInv
    <2>3. QED
        BY <1>1, <2>1, <2>2 DEF MutationInv
<1>5. CASE ChangeShoot
    BY <1>4, <1>5 DEF ChangeShoot
<1>6. CASE UNCHANGED objectVars
    <2>1. kubelet \in Kubelets /\ kubelet <= kubelet /\ intent \in Contents[kind]
        BY ObjectsAssumption DEF MutationInv, MutationTypeOK
    <2>2. QED
        BY <1>4, <1>6, <2>1 DEF objectVars
<1>7. QED
    BY <1>2, <1>3, <1>5, <1>6 DEF MutationNext, WriteStep, allVars

\* The inductive invariant holds of all behaviours.
LEMMA MutationsInductive == MutationSpec => []MutationInv
BY MutationInitial, MutationStep, PTL DEF MutationSpec

-----------------------------------------------------------------------------
(* Theorems                                                                *)

\* Every behaviour of processes and objects is one of the processes alone: no write
\* changes what the extension's process does (cmd.go).
THEOREM ProcessesGoOn == MutationSpec => ProcessSpec
<1>1. MutationInit => ProcessInit
    BY DEF MutationInit
<1>2. QED
    BY <1>1, ProcessSteps, PTL DEF MutationSpec, ProcessSpec

\* Next to all the objects it writes, too, the process has its settings (cmd.go:207).
THEOREM WebhookProcessConfigured == MutationSpec => []ControllersConfigured
BY ProcessesGoOn, StartConfigures, PTL

\* The variables keep their types; there is an object once a release has admitted one.
THEOREM MutationTypeCorrect == MutationSpec => []MutationTypeOK
<1>1. MutationInv => MutationTypeOK
    BY DEF MutationInv
<1>2. QED
    BY <1>1, MutationsInductive, PTL

\* An object that was admitted has each entry of the Ensurer's once, and none that it
\* removes, whatever an earlier release had put there (ensurer.go:84).
THEOREM ObjectsComplete == MutationSpec => []AdmittedComplete
<1>1. MutationInv => AdmittedComplete
    BY DEF MutationInv, ObjectInv, AdmittedComplete
<1>2. QED
    BY <1>1, MutationsInductive, PTL

\* Edits by name and by value spare the entries of Gardener's, in their order, over
\* every sequence of writes (ensurer.go:159).
THEOREM GardenersPartSpared == MutationSpec => []GardenersPartKept
<1>1. MutationInv => GardenersPartKept
    BY DEF MutationInv, ObjectInv, GardenersPartKept
<1>2. QED
    BY <1>1, MutationsInductive, PTL

\* Where neither Gardener's content nor the release changes, no write changes the
\* object: what is complete is left as it is (EnsureContainerWithName and the like).
THEOREM NothingRollsOut == MutationSpec => NoNeedlessChange
<1> DEFINE Idle == object # Nothing /\ base' = base /\ writer' = writer => object' = object
<1>1. MutationInv /\ [MutationNext]_allVars => [Idle]_allVars
    <2> SUFFICES ASSUME MutationInv, MutationNext, object # Nothing,
                        base' = base, writer' = writer
                 PROVE  object' = object
        OBVIOUS
    <2>1. /\ kind \in Kinds /\ object \in Seq(Entries) /\ writer \in Releases
          /\ DistinctIn(kind, object) /\ CompleteWith(object, writer)
          /\ base.kubelet = kubelet => object = Mutated(base.content, writer)
        BY DEF MutationInv, MutationTypeOK, ObjectInv
    <2>2. CASE Reconcile
        <3>1. object' = Mutated(intent, writer)
            BY <2>2 DEF Reconcile, Admit
        <3>2. base.content = intent /\ base.kubelet = kubelet
            BY <2>2 DEF Reconcile
        <3>3. QED
            BY <2>1, <3>1, <3>2
    <2>3. CASE Patch
        <3>1. object' = Mutated(object, writer)
            BY <2>3 DEF Patch, Admit
        <3>2. Completed(Mutated(object, writer), object, writer)
            BY <2>1, MutatedCompletes DEF WellFormed
        <3>3. QED
            BY <2>1, <3>1, <3>2 DEF Completed
    <2>4. CASE ChangeShoot \/ UNCHANGED objectVars
        BY <2>4 DEF ChangeShoot, objectVars
    <2>5. QED
        BY <2>2, <2>3, <2>4 DEF MutationNext, WriteStep
<1>2. QED
    BY <1>1, MutationsInductive, PTL DEF MutationSpec, NoNeedlessChange
=============================================================================
