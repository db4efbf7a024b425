-------------------------- MODULE ModelStoreProofs --------------------------
(***************************************************************************)
(* What TLAPS proves of ModelStore, for any revisions, downloads, kills    *)
(* and damages.  The invariant says at each step of the command what is    *)
(* known of the download it is working on: it has been described whole     *)
(* before it is promoted, has not passed a probe before it is probed, and  *)
(* has passed one when it is recorded.                                     *)
(***************************************************************************)
EXTENDS ModelStore, WellFoundedInduction, TLAPS

-----------------------------------------------------------------------------
(* The invariant *)

\* The download being prepared, or promoted, or already in its place.
Staged == {"compare", "describe", "check", "promote", "place"}
Described == {"check", "promote", "place"}
Placed == {"dropAside", "verify", "probe", "quarantine", "remove"}

\* A download is described as it was found, once, and may decay only then.
Undescribed == \A d \in 1..downloads : manifest[d] = "none" => files[d] # "rotten"

WholeInPlace ==
    /\ \A r \in Rev : installed[r] # Nothing => manifest[installed[r]] = "whole"
    /\ aside # Nothing => manifest[aside] = "whole"

StagedInv ==
    /\ at \in Staged => staging[pinned] # Nothing /\ staging[pinned] \notin probed
    /\ at \in {"compare", "describe"} => manifest[staging[pinned]] = "none"
    /\ at = "describe" => files[staging[pinned]] = "whole"
    /\ at \in Described => manifest[staging[pinned]] = "whole"

\* Only a forced command has something in its way.
PlacedInv ==
    /\ at \in {"download", "promote"} \union Staged /\ ~forced => installed[pinned] = Nothing
    /\ at = "place" => installed[pinned] = Nothing
    /\ at \in Placed => installed[pinned] \notin probed
    /\ at = "record" => installed[pinned] \in probed

RecordInv ==
    /\ \A e \in Range(index) : e.download \in probed
    /\ entry # NoEntry => entry.download \in probed
    /\ ResolvedIsProbed

\* A revision has one record at most.
OneEach(list) == \A i, j \in DOMAIN list : list[i].rev = list[j].rev => i = j

IInv ==
    /\ TypeOK /\ Undescribed /\ WholeInPlace
    /\ StagedInv /\ PlacedInv /\ RecordInv /\ OneEach(index)

-----------------------------------------------------------------------------
(* Lists of records *)

\* A set of numbers that is not empty has a least element.
LEMMA MinIsLeast ==
  ASSUME NEW I, I \subseteq Nat, I # {}
  PROVE  Min(I) \in I /\ \A i \in I : Min(I) <= i
<1>1. PICK i \in I : \A j \in I : ~ (<<j, i>> \in OpToRel(<, Nat))
  BY NatLessThanWellFounded, WFMin
<1>2. \A j \in I : ~(j < i)
  BY <1>1 DEF OpToRel
<1>3. \A j \in I : i <= j
  BY <1>2
<1>4. Min(I) \in I /\ \A j \in I : Min(I) <= j
  BY <1>3 DEF Min
<1>. QED
  BY <1>4

\* What remains of a list when a revision's record is removed.
LEMMA WithoutIs ==
  ASSUME NEW S, NEW list \in Seq(S), NEW r
  PROVE  /\ Without(list, r) \in Seq(S)
         /\ Range(Without(list, r)) \subseteq Range(list)
         /\ \A e \in Range(list) : e.rev # r => e \in Range(Without(list, r))
         /\ OneEach(list) => /\ OneEach(Without(list, r))
                             /\ \A e \in Range(Without(list, r)) : e.rev # r
<1>. DEFINE I == {i \in 1..Len(list) : list[i].rev = r}
            k == Min(I)
            w == Without(list, r)
<1>1. CASE I = {}
  <2>1. w = list
    BY <1>1 DEF Without, RemoveFirstMatch
  <2>. QED
    BY <1>1, <2>1 DEF Range, OneEach
<1>2. CASE I # {}
  <2>1. k \in 1..Len(list) /\ list[k].rev = r
    <3>. HIDE DEF I
    <3>1. I \subseteq Nat
      BY DEF I
    <3>2. k \in I
      BY <1>2, <3>1, MinIsLeast
    <3>. QED
      BY <3>2 DEF I
  <2>2. w = RemoveAt(list, k)
    BY <1>2 DEF Without, RemoveFirstMatch, SelectInSeq
  <2>. HIDE DEF k
  <2>. DEFINE a == SubSeq(list, 1, k - 1)
              b == SubSeq(list, k + 1, Len(list))
  <2>3. k \in Nat \ {0} /\ k - 1 \in Nat /\ k <= Len(list) /\ Len(list) \in Nat
    BY <2>1
  <2>4. /\ a \in Seq(S) /\ Len(a) = k - 1
        /\ \A i \in 1..(k - 1) : a[i] = list[i]
    BY <2>1, <2>3
  <2>5. /\ b \in Seq(S) /\ Len(b) = Len(list) - k
        /\ \A i \in 1..(Len(list) - k) : b[i] = list[k + i]
    BY <2>1, <2>3
  <2>6. w = a \o b
    BY <2>2 DEF RemoveAt
  <2>. HIDE DEF a, b
  <2>7. w \in Seq(S) /\ Len(w) = Len(list) - 1
    <3>1. w \in Seq(S) /\ Len(w) = Len(a) + Len(b)
      BY <2>4, <2>5, <2>6
    <3>. QED
      BY <2>3, <2>4, <2>5, <3>1
  <2>8. ASSUME NEW i \in 1..Len(w)
        PROVE  w[i] = IF i < k THEN list[i] ELSE list[i + 1]
    <3>1. CASE i < k
      BY <2>3, <2>4, <2>5, <2>6, <2>7, <3>1
    <3>2. CASE ~(i < k)
      <4>1. w[i] = b[i - (k - 1)] /\ i - (k - 1) \in 1..(Len(list) - k)
        BY <2>3, <2>4, <2>5, <2>6, <2>7, <3>2
      <4>2. k + (i - (k - 1)) = i + 1
        BY <2>3
      <4>. QED
        BY <2>5, <3>2, <4>1, <4>2
    <3>. QED
      BY <3>1, <3>2
  <2>9. /\ w \in Seq(S) /\ Len(w) = Len(list) - 1
        /\ \A i \in 1..Len(w) : w[i] = IF i < k THEN list[i] ELSE list[i + 1]
    BY <2>7, <2>8
  <2>. HIDE DEF w
  <2>10. Range(w) \subseteq Range(list)
    <3>1. \A i \in 1..Len(w) : w[i] \in Range(list)
      BY <2>1, <2>9 DEF Range
    <3>. QED
      BY <2>9, <3>1 DEF Range
  <2>11. ASSUME NEW i \in 1..Len(list), i # k
        PROVE  list[i] \in Range(w)
    <3>1. CASE i < k
      BY <2>1, <2>9, <3>1 DEF Range
    <3>2. CASE i > k
      <4>1. i - 1 \in 1..Len(w) /\ w[i - 1] = list[i]
        BY <2>1, <2>9, <3>2
      <4>. QED
        BY <2>9, <4>1 DEF Range
    <3>. QED
      BY <2>1, <2>11, <3>1, <3>2
  <2>12. \A e \in Range(list) : e.rev # r => e \in Range(w)
    BY <2>1, <2>11 DEF Range
  <2>13. ASSUME OneEach(list)
        PROVE  OneEach(w) /\ \A e \in Range(w) : e.rev # r
    <3>. DEFINE old(i) == IF i < k THEN i ELSE i + 1
    <3>1. \A i \in 1..Len(w) : old(i) \in 1..Len(list) /\ old(i) # k /\ w[i] = list[old(i)]
      BY <2>1, <2>9
    <3>2. \A i, j \in 1..Len(w) : old(i) = old(j) => i = j
      BY <2>1, <2>9
    <3>. HIDE DEF old
    <3>3. DOMAIN w = 1..Len(w) /\ DOMAIN list = 1..Len(list)
      BY <2>9
    <3>4. OneEach(w)
      BY <2>13, <3>1, <3>2, <3>3 DEF OneEach
    <3>5. \A i \in 1..Len(w) : w[i].rev # r
      BY <2>1, <2>13, <3>1, <3>3 DEF OneEach
    <3>. QED
      BY <3>3, <3>4, <3>5 DEF Range
  <2>. QED
    BY <2>9, <2>10, <2>12, <2>13 DEF w
<1>. QED
  BY <1>1, <1>2

\* The record that is put in front of a list.
LEMMA InFront ==
  ASSUME NEW S, NEW list \in Seq(S), NEW e \in S
  PROVE  /\ <<e>> \o list \in Seq(S)
         /\ Range(<<e>> \o list) = {e} \union Range(list)
         /\ OneEach(list) /\ (\A o \in Range(list) : o.rev # e.rev) => OneEach(<<e>> \o list)
<1>. DEFINE c == <<e>> \o list
<1>1. /\ c \in Seq(S) /\ Len(c) = Len(list) + 1 /\ c[1] = e
      /\ \A i \in 1..Len(list) : c[i + 1] = list[i]
      /\ \A i \in 2..Len(c) : c[i] = list[i - 1] /\ i - 1 \in 1..Len(list)
      /\ DOMAIN c = 1..Len(c) /\ DOMAIN list = 1..Len(list)
  OBVIOUS
<1>. HIDE DEF c
<1>2. Range(c) = {e} \union Range(list)
  <2>1. \A i \in 1..Len(c) : c[i] \in {e} \union Range(list)
    BY <1>1 DEF Range
  <2>2. \A i \in 1..Len(list) : list[i] \in Range(c)
    <3>1. \A i \in 1..Len(list) : i + 1 \in 1..Len(c)
      BY <1>1
    <3>. QED
      BY <1>1, <3>1 DEF Range
  <2>3. e \in Range(c)
    BY <1>1 DEF Range
  <2>. QED
    BY <1>1, <2>1, <2>2, <2>3 DEF Range
<1>3. ASSUME OneEach(list), \A o \in Range(list) : o.rev # e.rev
      PROVE  OneEach(c)
  <2>1. \A i \in 2..Len(c) : c[i].rev # c[1].rev
    BY <1>1, <1>3 DEF Range
  <2>2. ASSUME NEW i \in 2..Len(c), NEW j \in 2..Len(c), c[i].rev = c[j].rev
        PROVE  i = j
    <3>1. list[i - 1].rev = list[j - 1].rev /\ i - 1 \in 1..Len(list) /\ j - 1 \in 1..Len(list)
      BY <1>1, <2>2
    <3>2. i - 1 = j - 1
      BY <1>1, <1>3, <3>1 DEF OneEach
    <3>. QED
      BY <3>2
  <2>3. \A i \in 1..Len(c) : i = 1 \/ i \in 2..Len(c)
    BY <1>1
  <2>. QED
    BY <1>1, <2>1, <2>2, <2>3 DEF OneEach
<1>. QED
  BY <1>1, <1>2, <1>3 DEF c

\* What the resolver finds is a record of the registry.
LEMMA ChosenIsEntry ==
  ASSUME index \in Seq(Record), Ready # {}
  PROVE  /\ Entries[SelectInSeq(Entries, Matches)] \in Range(index)
         /\ Entries[SelectInSeq(Entries, Matches)] \in Record
<1>. DEFINE I == {i \in 1..Len(Entries) : Matches(Entries[i])}
<1>1. Entries \in Seq(Record)
  BY DEF Entries
<1>2. I # {} /\ I \subseteq Nat
  BY <1>1 DEF Ready, Range
<1>3. SelectInSeq(Entries, Matches) = Min(I)
  BY <1>2 DEF SelectInSeq
<1>4. Min(I) \in I
  BY <1>2, MinIsLeast
<1>. HIDE DEF I
<1>5. Min(I) \in 1..Len(Entries) /\ Matches(Entries[Min(I)])
  BY <1>4 DEF I
<1>6. Entries = index
  BY <1>5 DEF Entries
<1>. QED
  BY <1>1, <1>3, <1>5, <1>6 DEF Range

-----------------------------------------------------------------------------
(* Every step keeps the invariant *)

\* The types in two parts: what is on disk and given to workers, and the rest.
DirTypes ==
    /\ installed \in [Rev -> 0..downloads] /\ staging \in [Rev -> 0..downloads]
    /\ aside \in 0..downloads
    /\ files \in Seq(Contents) /\ Len(files) = downloads
    /\ manifest \in Seq(Contents \union {"none"}) /\ Len(manifest) = downloads
    /\ probed \subseteq 1..downloads /\ resolved \in 0..downloads
    /\ downloads \in Nat /\ faults \in Nat

CommandTypes ==
    /\ upstream \in Rev
    /\ index \in Seq(Record) /\ indexOk \in BOOLEAN
    /\ at \in Steps /\ (at # "idle" => pinned \in Rev) /\ forced \in BOOLEAN
    /\ entry \in Record \union {NoEntry}

LEMMA TwoTypes == TypeOK <=> DirTypes /\ CommandTypes
BY DEF TypeOK, DirTypes, CommandTypes

LEMMA TwoTypesNext == TypeOK' <=> DirTypes' /\ CommandTypes'
BY DEF TypeOK, DirTypes, CommandTypes

\* Directories and files keep their types.
LEMMA DirTypesKept ==
  ASSUME DirTypes, CommandTypes, RecordInv, StagedInv, PlacedInv, [Next]_vars
  PROVE  DirTypes'
<1>1. ASSUME NEW force \in BOOLEAN, Provision(force) PROVE  DirTypes'
  <2>1. staging' = staging \/ staging' = [staging EXCEPT ![upstream] = 0]
    BY <1>1 DEF Provision, Nothing
  <2>2. 0 \in 0..downloads /\ staging \in [Rev -> 0..downloads]
    BY DEF DirTypes
  <2>3. staging' \in [Rev -> 0..downloads]
    BY <2>1, <2>2
  <2>. QED
    BY <1>1, <2>3 DEF Provision, DirTypes, fileVars, runtimeVars
<1>2. CASE Download
  BY <1>2 DEF Download, runtimeVars, DirTypes, CommandTypes, Contents
<1>3. CASE DownloadFails
  BY <1>3 DEF DownloadFails, dirVars, fileVars, runtimeVars, DirTypes
<1>4. CASE Compare
  BY <1>4 DEF Compare, dirVars, fileVars, runtimeVars, DirTypes
<1>5. CASE Describe
  BY <1>5 DEF Describe, dirVars, runtimeVars, DirTypes, Nothing, ManifestOf, StagedInv,
     Staged, CommandTypes
<1>6. CASE Check
  BY <1>6 DEF Check, dirVars, fileVars, runtimeVars, DirTypes
<1>7. CASE CheckFails
  <2>1. staging' = [staging EXCEPT ![pinned] = 0]
    BY <1>7 DEF CheckFails, Nothing
  <2>2. 0 \in 0..downloads /\ staging \in [Rev -> 0..downloads]
    BY DEF DirTypes
  <2>3. staging' \in [Rev -> 0..downloads]
    BY <2>1, <2>2
  <2>. QED
    BY <1>7, <2>3 DEF CheckFails, DirTypes, fileVars, runtimeVars
<1>8. CASE MoveAside
  BY <1>8 DEF MoveAside, fileVars, runtimeVars, DirTypes, Nothing, CommandTypes
<1>9. CASE Place
  BY <1>9 DEF Place, fileVars, runtimeVars, DirTypes, Nothing, CommandTypes
<1>10. CASE PlaceFails
  BY <1>10 DEF PlaceFails, fileVars, runtimeVars, DirTypes, Nothing, CommandTypes
<1>11. CASE DropAside
  BY <1>11 DEF DropAside, fileVars, runtimeVars, DirTypes, Nothing
<1>12. CASE VerifyPromoted
  BY <1>12 DEF VerifyPromoted, dirVars, fileVars, runtimeVars, DirTypes
<1>13. CASE ProbePasses
  <2>1. pinned \in Rev
    BY <1>13 DEF ProbePasses, CommandTypes
  <2>2. installed[pinned] \in 1..downloads
    BY <1>13, <2>1 DEF ProbePasses, Verifies, HasManifest, Nothing, DirTypes
  <2>. QED
    BY <1>13, <2>2 DEF ProbePasses, DirTypes, dirVars, fileVars, runtimeVars
<1>14. CASE ProbeFails
  BY <1>14 DEF ProbeFails, dirVars, fileVars, runtimeVars, DirTypes
<1>15. CASE Quarantine
  <2>1. installed' = installed \/ installed' = [installed EXCEPT ![pinned] = 0]
    BY <1>15 DEF Quarantine, Nothing
  <2>2. 0 \in 0..downloads /\ installed \in [Rev -> 0..downloads]
    BY DEF DirTypes
  <2>3. installed' \in [Rev -> 0..downloads]
    BY <2>1, <2>2
  <2>. QED
    BY <1>15, <2>3 DEF Quarantine, DirTypes, fileVars, runtimeVars
<1>16. CASE RemoveEntry
  BY <1>16 DEF RemoveEntry, dirVars, fileVars, runtimeVars, DirTypes
<1>17. CASE RecordReady
  BY <1>17 DEF RecordReady, dirVars, fileVars, runtimeVars, DirTypes
<1>18. CASE Kill
  BY <1>18 DEF Kill, fileVars, runtimeVars, DirTypes, Nothing
<1>19. ASSUME NEW d \in Range(installed) \union Range(staging), Damage(d) PROVE  DirTypes'
  <2>1. PICK found \in {"short", "rotten"} : files' = [files EXCEPT ![d] = found]
    BY <1>19 DEF Damage
  <2>2. files' \in Seq(Contents) /\ Len(files') = downloads
    <3>1. d \in 1..downloads
      BY <1>19 DEF Damage, HasManifest, Nothing, Range, DirTypes
    <3>2. files \in Seq(Contents) /\ Len(files) = downloads
      BY DEF DirTypes
    <3>. QED
      BY <2>1, <3>1, <3>2 DEF Contents
  <2>3. faults' \in Nat
    BY <1>19 DEF Damage, DirTypes
  <2>. QED
    BY <1>19, <2>2, <2>3 DEF Damage, DirTypes, dirVars, runtimeVars
<1>20. CASE DamageIndex
  BY <1>20 DEF DamageIndex, dirVars, fileVars, runtimeVars, DirTypes
<1>21. CASE Publish
  BY <1>21 DEF Publish, dirVars, fileVars, runtimeVars, DirTypes
<1>22. CASE Choose
  BY <1>22 DEF Choose, dirVars, fileVars, DirTypes
<1>23. CASE Resolve
  <2>1. entry.download \in probed
    BY <1>23 DEF Resolve, RecordInv
  <2>2. resolved' \in 0..downloads
    <3>0. downloads \in Nat /\ entry.download \in 1..downloads
      BY <2>1 DEF DirTypes
    <3>1. 0 \in 0..downloads /\ entry.download \in 0..downloads
      BY <3>0
    <3>. QED
      BY <1>23, <3>1 DEF Resolve, Nothing
  <2>. QED
    BY <1>23, <2>2 DEF Resolve, DirTypes, dirVars, fileVars
<1>24. CASE UNCHANGED vars
  BY <1>24 DEF vars, dirVars, fileVars, runtimeVars, DirTypes
<1>. QED
  BY <1>1, <1>2, <1>3, <1>4, <1>5, <1>6, <1>7, <1>8, <1>9, <1>10, <1>11, <1>12, <1>13,
     <1>14, <1>15, <1>16, <1>17, <1>18, <1>19, <1>20, <1>21, <1>22, <1>23, <1>24 DEF Next

\* The registry, the command and the resolver keep their types.
LEMMA CommandTypesKept ==
  ASSUME DirTypes, CommandTypes, RecordInv, StagedInv, PlacedInv, [Next]_vars
  PROVE  CommandTypes'
<1>1. ASSUME NEW force \in BOOLEAN, Provision(force) PROVE  CommandTypes'
  BY <1>1 DEF Provision, indexVars, runtimeVars, CommandTypes, Steps
<1>2. CASE Download
  BY <1>2 DEF Download, indexVars, runtimeVars, CommandTypes, Steps, Goto
<1>3. CASE DownloadFails
  BY <1>3 DEF DownloadFails, indexVars, runtimeVars, CommandTypes, Steps, Leave
<1>4. CASE Compare
  BY <1>4 DEF Compare, indexVars, runtimeVars, CommandTypes, Steps, Goto
<1>5. CASE Describe
  BY <1>5 DEF Describe, indexVars, runtimeVars, CommandTypes, Steps, Goto
<1>6. CASE Check
  BY <1>6 DEF Check, indexVars, runtimeVars, CommandTypes, Steps, Goto
<1>7. CASE CheckFails
  BY <1>7 DEF CheckFails, indexVars, runtimeVars, CommandTypes, Steps, Leave
<1>8. CASE MoveAside
  BY <1>8 DEF MoveAside, indexVars, runtimeVars, CommandTypes, Steps, Goto
<1>9. CASE Place
  BY <1>9 DEF Place, indexVars, runtimeVars, CommandTypes, Steps, Goto
<1>10. CASE PlaceFails
  BY <1>10 DEF PlaceFails, indexVars, runtimeVars, CommandTypes, Steps, Leave
<1>11. CASE DropAside
  BY <1>11 DEF DropAside, indexVars, runtimeVars, CommandTypes, Steps, Goto
<1>12. CASE VerifyPromoted
  BY <1>12 DEF VerifyPromoted, indexVars, runtimeVars, CommandTypes, Steps, Goto, Leave
<1>13. CASE ProbePasses
  BY <1>13 DEF ProbePasses, indexVars, runtimeVars, CommandTypes, Steps, Goto
<1>14. CASE ProbeFails
  BY <1>14 DEF ProbeFails, indexVars, runtimeVars, CommandTypes, Steps, Goto, Leave
<1>15. CASE Quarantine
  BY <1>15 DEF Quarantine, indexVars, runtimeVars, CommandTypes, Steps, Goto
<1>16. CASE RemoveEntry
  BY <1>16, WithoutIs DEF RemoveEntry, runtimeVars, CommandTypes, Steps, Leave
<1>17. CASE RecordReady
  <2>. DEFINE new == [rev |-> pinned, download |-> installed[pinned]]
              rest == Without(Entries, pinned)
  <2>1. /\ new \in Record /\ new.rev = pinned
        /\ new.download = installed[pinned] /\ new.download \in probed
    <3>1. pinned \in Rev /\ installed[pinned] \in probed
      BY <1>17 DEF RecordReady, CommandTypes, PlacedInv
    <3>2. installed[pinned] \in Nat \ {0}
      BY <3>1 DEF DirTypes
    <3>. QED
      BY <3>1, <3>2 DEF Record
  <2>2. Entries \in Seq(Record) /\ (Entries = index \/ Entries = <<>>)
    BY DEF Entries, CommandTypes
  <2>3. /\ rest \in Seq(Record) /\ Range(rest) \subseteq Range(Entries)
        /\ OneEach(Entries) => OneEach(rest) /\ \A e \in Range(rest) : e.rev # pinned
    BY <2>2, WithoutIs
  <2>4. index' = <<new>> \o rest
    BY <1>17 DEF RecordReady
  <2>. HIDE DEF new, rest
  <2>5. index' \in Seq(Record)
    BY <2>1, <2>3, <2>4, InFront
  <2>. QED
    BY <1>17, <2>5 DEF RecordReady, Leave, CommandTypes, runtimeVars, Steps
<1>18. CASE Kill
  BY <1>18 DEF Kill, indexVars, runtimeVars, CommandTypes, Steps, Leave
<1>19. ASSUME NEW d \in Range(installed) \union Range(staging), Damage(d) PROVE  CommandTypes'
  BY <1>19 DEF Damage, indexVars, cmdVars, runtimeVars, CommandTypes
<1>20. CASE DamageIndex
  BY <1>20 DEF DamageIndex, cmdVars, runtimeVars, CommandTypes
<1>21. CASE Publish
  BY <1>21 DEF Publish, indexVars, cmdVars, runtimeVars, CommandTypes
<1>22. CASE Choose
  BY <1>22, ChosenIsEntry DEF Choose, indexVars, cmdVars, CommandTypes
<1>23. CASE Resolve
  BY <1>23 DEF Resolve, indexVars, cmdVars, CommandTypes
<1>24. CASE UNCHANGED vars
  BY <1>24 DEF vars, indexVars, cmdVars, runtimeVars, CommandTypes
<1>. QED
  BY <1>1, <1>2, <1>3, <1>4, <1>5, <1>6, <1>7, <1>8, <1>9, <1>10, <1>11, <1>12, <1>13,
     <1>14, <1>15, <1>16, <1>17, <1>18, <1>19, <1>20, <1>21, <1>22, <1>23, <1>24 DEF Next

LEMMA TypesKept == ASSUME IInv, [Next]_vars PROVE TypeOK'
BY TwoTypes, TwoTypesNext, DirTypesKept, CommandTypesKept DEF IInv

\* What is in place, or set aside from there, has been described whole.
LEMMA WholeKept ==
  ASSUME IInv, [Next]_vars
  PROVE  WholeInPlace' /\ Undescribed'
<1>1. ASSUME NEW force \in BOOLEAN, Provision(force) PROVE  WholeInPlace' /\ Undescribed'
  BY <1>1 DEF Provision, fileVars, IInv, WholeInPlace, Undescribed
<1>2. CASE Download
  BY <1>2 DEF Download, IInv, TypeOK, WholeInPlace, Nothing, Undescribed
<1>3. CASE DownloadFails
  BY <1>3 DEF DownloadFails, dirVars, fileVars, IInv, WholeInPlace, Undescribed
<1>4. CASE Compare
  BY <1>4 DEF Compare, dirVars, fileVars, IInv, WholeInPlace, Undescribed
<1>5. CASE Describe
  BY <1>5 DEF Describe, dirVars, IInv, WholeInPlace, Undescribed, StagedInv
<1>6. CASE Check
  BY <1>6 DEF Check, dirVars, fileVars, IInv, WholeInPlace, Undescribed
<1>7. CASE CheckFails
  BY <1>7 DEF CheckFails, fileVars, IInv, WholeInPlace, Undescribed
<1>8. CASE MoveAside
  BY <1>8 DEF MoveAside, fileVars, IInv, TypeOK, WholeInPlace, Undescribed
<1>9. CASE Place
  BY <1>9 DEF Place, fileVars, IInv, WholeInPlace, Undescribed, StagedInv, Described
<1>10. CASE PlaceFails
  BY <1>10 DEF PlaceFails, fileVars, IInv, WholeInPlace, Undescribed
<1>11. CASE DropAside
  BY <1>11 DEF DropAside, fileVars, IInv, WholeInPlace, Undescribed
<1>12. CASE VerifyPromoted
  BY <1>12 DEF VerifyPromoted, dirVars, fileVars, IInv, WholeInPlace, Undescribed
<1>13. CASE ProbePasses
  BY <1>13 DEF ProbePasses, dirVars, fileVars, IInv, WholeInPlace, Undescribed
<1>14. CASE ProbeFails
  BY <1>14 DEF ProbeFails, dirVars, fileVars, IInv, WholeInPlace, Undescribed
<1>15. CASE Quarantine
  BY <1>15 DEF Quarantine, fileVars, IInv, TypeOK, WholeInPlace, Undescribed
<1>16. CASE RemoveEntry
  BY <1>16 DEF RemoveEntry, dirVars, fileVars, IInv, WholeInPlace, Undescribed
<1>17. CASE RecordReady
  BY <1>17 DEF RecordReady, dirVars, fileVars, IInv, WholeInPlace, Undescribed
<1>18. CASE Kill
  BY <1>18 DEF Kill, fileVars, IInv, WholeInPlace, Undescribed
<1>19. ASSUME NEW d \in Range(installed) \union Range(staging), Damage(d)
       PROVE  WholeInPlace' /\ Undescribed'
  BY <1>19 DEF Damage, dirVars, IInv, WholeInPlace, Undescribed, HasManifest
<1>20. CASE DamageIndex
  BY <1>20 DEF DamageIndex, dirVars, fileVars, IInv, WholeInPlace, Undescribed
<1>21. CASE Publish
  BY <1>21 DEF Publish, dirVars, fileVars, IInv, WholeInPlace, Undescribed
<1>22. CASE Choose
  BY <1>22 DEF Choose, dirVars, fileVars, IInv, WholeInPlace, Undescribed
<1>23. CASE Resolve
  BY <1>23 DEF Resolve, dirVars, fileVars, IInv, WholeInPlace, Undescribed
<1>24. CASE UNCHANGED vars
  BY <1>24 DEF vars, dirVars, fileVars, IInv, WholeInPlace, Undescribed
<1>. QED
  BY <1>1, <1>2, <1>3, <1>4, <1>5, <1>6, <1>7, <1>8, <1>9, <1>10, <1>11, <1>12, <1>13,
     <1>14, <1>15, <1>16, <1>17, <1>18, <1>19, <1>20, <1>21, <1>22, <1>23, <1>24 DEF Next

\* What is staged is what the command's step says.
LEMMA StagedKept ==
  ASSUME IInv, [Next]_vars
  PROVE  StagedInv'
<1>1. ASSUME NEW force \in BOOLEAN, Provision(force) PROVE  StagedInv'
  BY <1>1 DEF Provision, StagedInv, Staged, Described
<1>2. CASE Download
  BY <1>2 DEF Download, IInv, TypeOK, Goto, Nothing, StagedInv, Described
<1>3. CASE DownloadFails
  BY <1>3 DEF DownloadFails, Leave, StagedInv, Staged, Described
<1>4. CASE Compare
  BY <1>4 DEF Compare, dirVars, fileVars, IInv, TypeOK, Goto, Nothing, Undescribed,
     StagedInv, Staged, Described, Contents
<1>5. CASE Describe
  BY <1>5 DEF Describe, dirVars, IInv, TypeOK, Goto, Nothing, StagedInv, Staged, ManifestOf
<1>6. CASE Check
  BY <1>6 DEF Check, dirVars, fileVars, IInv, Goto, StagedInv, Staged, Described
<1>7. CASE CheckFails
  BY <1>7 DEF CheckFails, Leave, StagedInv, Staged, Described
<1>8. CASE MoveAside
  BY <1>8 DEF MoveAside, fileVars, IInv, Goto, StagedInv, Staged, Described
<1>9. CASE Place
  BY <1>9 DEF Place, Goto, StagedInv, Staged, Described
<1>10. CASE PlaceFails
  BY <1>10 DEF PlaceFails, Leave, StagedInv, Staged, Described
<1>11. CASE DropAside
  BY <1>11 DEF DropAside, Goto, StagedInv, Staged, Described
<1>12. CASE VerifyPromoted
  BY <1>12 DEF VerifyPromoted, Goto, Leave, StagedInv, Staged, Described
<1>13. CASE ProbePasses
  BY <1>13 DEF ProbePasses, Goto, StagedInv, Staged, Described
<1>14. CASE ProbeFails
  BY <1>14 DEF ProbeFails, Goto, Leave, StagedInv, Staged, Described
<1>15. CASE Quarantine
  BY <1>15 DEF Quarantine, Goto, StagedInv, Staged, Described
<1>16. CASE RemoveEntry
  BY <1>16 DEF RemoveEntry, Leave, StagedInv, Staged, Described
<1>17. CASE RecordReady
  BY <1>17 DEF RecordReady, Leave, StagedInv, Staged, Described
<1>18. CASE Kill
  BY <1>18 DEF Kill, Leave, StagedInv, Staged, Described
<1>19. ASSUME NEW d \in Range(installed) \union Range(staging), Damage(d) PROVE  StagedInv'
  BY <1>19 DEF Damage, dirVars, cmdVars, IInv, StagedInv, HasManifest
<1>20. CASE DamageIndex
  BY <1>20 DEF DamageIndex, dirVars, fileVars, cmdVars, IInv, StagedInv
<1>21. CASE Publish
  BY <1>21 DEF Publish, dirVars, fileVars, cmdVars, IInv, StagedInv
<1>22. CASE Choose
  BY <1>22 DEF Choose, dirVars, fileVars, cmdVars, IInv, StagedInv
<1>23. CASE Resolve
  BY <1>23 DEF Resolve, dirVars, fileVars, cmdVars, IInv, StagedInv
<1>24. CASE UNCHANGED vars
  BY <1>24 DEF vars, dirVars, fileVars, cmdVars, IInv, StagedInv
<1>. QED
  BY <1>1, <1>2, <1>3, <1>4, <1>5, <1>6, <1>7, <1>8, <1>9, <1>10, <1>11, <1>12, <1>13,
     <1>14, <1>15, <1>16, <1>17, <1>18, <1>19, <1>20, <1>21, <1>22, <1>23, <1>24 DEF Next

\* What is in place is what the command's step says.
LEMMA PlacedKept ==
  ASSUME IInv, [Next]_vars
  PROVE  PlacedInv'
<1>1. ASSUME NEW force \in BOOLEAN, Provision(force) PROVE  PlacedInv'
  BY <1>1 DEF Provision, Staged, PlacedInv, Placed
<1>2. CASE Download
  BY <1>2 DEF Download, IInv, Goto, PlacedInv, Placed
<1>3. CASE DownloadFails
  BY <1>3 DEF DownloadFails, Leave, Staged, PlacedInv, Placed
<1>4. CASE Compare
  BY <1>4 DEF Compare, dirVars, IInv, Goto, Staged, PlacedInv, Placed
<1>5. CASE Describe
  BY <1>5 DEF Describe, dirVars, IInv, Goto, Staged, PlacedInv, Placed
<1>6. CASE Check
  BY <1>6 DEF Check, dirVars, IInv, Goto, Staged, PlacedInv, Placed
<1>7. CASE CheckFails
  BY <1>7 DEF CheckFails, Leave, Staged, PlacedInv, Placed
<1>8. CASE MoveAside
  BY <1>8 DEF MoveAside, IInv, TypeOK, Goto, PlacedInv, Placed
<1>9. CASE Place
  BY <1>9 DEF Place, IInv, TypeOK, Goto, StagedInv, Staged, PlacedInv
<1>10. CASE PlaceFails
  BY <1>10 DEF PlaceFails, Leave, Staged, PlacedInv, Placed
<1>11. CASE DropAside
  BY <1>11 DEF DropAside, IInv, Goto, Staged, PlacedInv, Placed
<1>12. CASE VerifyPromoted
  BY <1>12 DEF VerifyPromoted, dirVars, IInv, Goto, Leave, Staged, PlacedInv, Placed
<1>13. CASE ProbePasses
  BY <1>13 DEF ProbePasses, dirVars, Goto, Staged, PlacedInv, Placed
<1>14. CASE ProbeFails
  BY <1>14 DEF ProbeFails, dirVars, IInv, Goto, Leave, Staged, PlacedInv, Placed
<1>15. CASE Quarantine
  BY <1>15 DEF Quarantine, IInv, TypeOK, Goto, Nothing, Staged, PlacedInv, Placed
<1>16. CASE RemoveEntry
  BY <1>16 DEF RemoveEntry, Leave, Staged, PlacedInv, Placed
<1>17. CASE RecordReady
  BY <1>17 DEF RecordReady, Leave, Staged, PlacedInv, Placed
<1>18. CASE Kill
  BY <1>18 DEF Kill, Leave, Staged, PlacedInv, Placed
<1>19. ASSUME NEW d \in Range(installed) \union Range(staging), Damage(d) PROVE  PlacedInv'
  BY <1>19 DEF Damage, dirVars, cmdVars, IInv, PlacedInv
<1>20. CASE DamageIndex
  BY <1>20 DEF DamageIndex, dirVars, cmdVars, IInv, PlacedInv
<1>21. CASE Publish
  BY <1>21 DEF Publish, dirVars, cmdVars, IInv, PlacedInv
<1>22. CASE Choose
  BY <1>22 DEF Choose, dirVars, cmdVars, IInv, PlacedInv
<1>23. CASE Resolve
  BY <1>23 DEF Resolve, dirVars, cmdVars, IInv, PlacedInv
<1>24. CASE UNCHANGED vars
  BY <1>24 DEF vars, dirVars, cmdVars, IInv, PlacedInv
<1>. QED
  BY <1>1, <1>2, <1>3, <1>4, <1>5, <1>6, <1>7, <1>8, <1>9, <1>10, <1>11, <1>12, <1>13,
     <1>14, <1>15, <1>16, <1>17, <1>18, <1>19, <1>20, <1>21, <1>22, <1>23, <1>24 DEF Next

\* Every record is of a download that has passed a probe.
LEMMA RecordsKept ==
  ASSUME IInv, [Next]_vars
  PROVE  RecordInv' /\ OneEach(index)'
<1>1. ASSUME NEW force \in BOOLEAN, Provision(force) PROVE  RecordInv' /\ OneEach(index)'
  BY <1>1 DEF Provision, indexVars, runtimeVars, IInv, RecordInv, ResolvedIsProbed
<1>2. CASE Download
  BY <1>2 DEF Download, indexVars, runtimeVars, IInv, RecordInv, ResolvedIsProbed
<1>3. CASE DownloadFails
  BY <1>3 DEF DownloadFails, indexVars, runtimeVars, IInv, RecordInv, ResolvedIsProbed
<1>4. CASE Compare
  BY <1>4 DEF Compare, indexVars, runtimeVars, IInv, RecordInv, ResolvedIsProbed
<1>5. CASE Describe
  BY <1>5 DEF Describe, indexVars, runtimeVars, IInv, RecordInv, ResolvedIsProbed
<1>6. CASE Check
  BY <1>6 DEF Check, indexVars, runtimeVars, IInv, RecordInv, ResolvedIsProbed
<1>7. CASE CheckFails
  BY <1>7 DEF CheckFails, indexVars, runtimeVars, IInv, RecordInv, ResolvedIsProbed
<1>8. CASE MoveAside
  BY <1>8 DEF MoveAside, indexVars, runtimeVars, IInv, RecordInv, ResolvedIsProbed
<1>9. CASE Place
  BY <1>9 DEF Place, indexVars, runtimeVars, IInv, RecordInv, ResolvedIsProbed
<1>10. CASE PlaceFails
  BY <1>10 DEF PlaceFails, indexVars, runtimeVars, IInv, RecordInv, ResolvedIsProbed
<1>11. CASE DropAside
  BY <1>11 DEF DropAside, indexVars, runtimeVars, IInv, RecordInv, ResolvedIsProbed
<1>12. CASE VerifyPromoted
  BY <1>12 DEF VerifyPromoted, indexVars, runtimeVars, IInv, RecordInv, ResolvedIsProbed
<1>13. CASE ProbePasses
  BY <1>13 DEF ProbePasses, indexVars, runtimeVars, IInv, RecordInv, ResolvedIsProbed
<1>14. CASE ProbeFails
  BY <1>14 DEF ProbeFails, indexVars, runtimeVars, IInv, RecordInv, ResolvedIsProbed
<1>15. CASE Quarantine
  BY <1>15 DEF Quarantine, indexVars, runtimeVars, IInv, RecordInv, ResolvedIsProbed
<1>16. CASE RemoveEntry
  BY <1>16, WithoutIs DEF RemoveEntry, runtimeVars, IInv, TypeOK, RecordInv, ResolvedIsProbed
<1>17. CASE RecordReady
  <2>. DEFINE new == [rev |-> pinned, download |-> installed[pinned]]
              rest == Without(Entries, pinned)
  <2>1. /\ new \in Record /\ new.rev = pinned
        /\ new.download = installed[pinned] /\ new.download \in probed
    <3>1. pinned \in Rev /\ installed[pinned] \in probed
      BY <1>17 DEF RecordReady, IInv, TypeOK, PlacedInv
    <3>2. installed[pinned] \in Nat \ {0}
      BY <3>1 DEF IInv, TypeOK
    <3>. QED
      BY <3>1, <3>2 DEF Record
  <2>2. Entries \in Seq(Record) /\ (Entries = index \/ Entries = <<>>)
    BY DEF Entries, IInv, TypeOK
  <2>3. /\ rest \in Seq(Record) /\ Range(rest) \subseteq Range(Entries)
        /\ OneEach(Entries) => OneEach(rest) /\ \A e \in Range(rest) : e.rev # pinned
    BY <2>2, WithoutIs
  <2>4. index' = <<new>> \o rest
    BY <1>17 DEF RecordReady
  <2>. HIDE DEF new, rest
  <2>5. OneEach(Entries)
    BY <2>2 DEF IInv, OneEach
  <2>6. \A e \in Range(Entries) : e.download \in probed
    BY <2>2 DEF IInv, RecordInv, Range
  <2>7. Range(index') = {new} \union Range(rest) /\ OneEach(index')
    BY <2>1, <2>3, <2>4, <2>5, InFront
  <2>8. \A e \in Range(index') : e.download \in probed
    BY <2>1, <2>3, <2>6, <2>7
  <2>. QED
    BY <1>17, <2>7, <2>8 DEF RecordReady, IInv, RecordInv, ResolvedIsProbed, runtimeVars
<1>18. CASE Kill
  BY <1>18 DEF Kill, indexVars, runtimeVars, IInv, RecordInv, ResolvedIsProbed
<1>19. ASSUME NEW d \in Range(installed) \union Range(staging), Damage(d)
       PROVE  RecordInv' /\ OneEach(index)'
  BY <1>19 DEF Damage, indexVars, runtimeVars, IInv, RecordInv, ResolvedIsProbed
<1>20. CASE DamageIndex
  BY <1>20 DEF DamageIndex, runtimeVars, IInv, RecordInv, ResolvedIsProbed
<1>21. CASE Publish
  BY <1>21 DEF Publish, indexVars, runtimeVars, IInv, RecordInv, ResolvedIsProbed
<1>22. CASE Choose
  BY <1>22, ChosenIsEntry DEF Choose, indexVars, IInv, TypeOK, RecordInv, ResolvedIsProbed
<1>23. CASE Resolve
  BY <1>23 DEF Resolve, indexVars, IInv, RecordInv, ResolvedIsProbed
<1>24. CASE UNCHANGED vars
  BY <1>24 DEF vars, indexVars, runtimeVars, IInv, RecordInv, ResolvedIsProbed
<1>. QED
  BY <1>1, <1>2, <1>3, <1>4, <1>5, <1>6, <1>7, <1>8, <1>9, <1>10, <1>11, <1>12, <1>13,
     <1>14, <1>15, <1>16, <1>17, <1>18, <1>19, <1>20, <1>21, <1>22, <1>23, <1>24 DEF Next

LEMMA InitHolds == Init => IInv
<1>. SUFFICES ASSUME Init PROVE IInv
  OBVIOUS
<1>1. TypeOK
  <2>1. files \in Seq(Contents) /\ Len(files) = 0
    BY DEF Init
  <2>2. manifest \in Seq(Contents \union {"none"}) /\ Len(manifest) = 0 /\ index \in Seq(Record)
    BY DEF Init
  <2>3. installed \in [Rev -> 0..downloads] /\ staging \in [Rev -> 0..downloads]
    BY DEF Init, Nothing
  <2>. QED
    BY <2>1, <2>2, <2>3 DEF Init, TypeOK, Steps
<1>2. Range(index) = {} /\ OneEach(index)
  BY DEF Init, Range, OneEach
<1>3. Undescribed
  BY DEF Init, Undescribed
<1>4. WholeInPlace /\ StagedInv /\ PlacedInv
  BY DEF Init, WholeInPlace, StagedInv, Staged, Described, PlacedInv
<1>5. RecordInv
  BY <1>2 DEF Init, RecordInv, ResolvedIsProbed
<1>. QED
  BY <1>1, <1>2, <1>3, <1>4, <1>5 DEF IInv

LEMMA NextKeeps == IInv /\ [Next]_vars => IInv'
BY TypesKept, WholeKept, StagedKept, PlacedKept, RecordsKept DEF IInv

LEMMA InvariantHolds == Spec => []IInv
BY InitHolds, NextKeeps, PTL DEF Spec

-----------------------------------------------------------------------------
(* Theorems *)

\* The store, its registry, the command and the resolver keep their types, for
\* any set of revisions and any number of downloads and faults.
THEOREM StoreTyped == Spec => []TypeOK
<1>1. IInv => TypeOK
  BY DEF IInv
<1>. QED
  BY <1>1, InvariantHolds, PTL

\* A worker is only given a model that was downloaded whole and has passed a
\* probe (resolve_model), wherever provision_model has been killed and whatever
\* it is replacing meanwhile.
THEOREM LoadedModelsAreProven == Spec => []LoadedIsProven
<1>1. IInv => LoadedIsProven
  BY DEF IInv, WholeInPlace, RecordInv, LoadPathIsWhole, LoadedIsProven
<1>. QED
  BY <1>1, InvariantHolds, PTL

\* A revision never has two records, so that remove_entry and record_ready, which
\* filter the registry, take one record from it at most.
THEOREM RecordsAreUnique == Spec => []OneEach(index)
<1>1. IInv => OneEach(index)
  BY DEF IInv
<1>. QED
  BY <1>1, InvariantHolds, PTL

\* Only a step that touches the directory or the registry can take a model's
\* readiness away.
LEMMA ReadyStays ==
  ASSUME IInv, NEW e \in Ready \ Ready'
  PROVE  /\ installed[e.rev] = e.download /\ e.rev \in Rev
         /\ e.download \in probed /\ e.download # Nothing
         /\ e \in Record /\ indexOk /\ e \in Range(index)
         /\ ~(indexOk' /\ e \in Range(index') /\ installed'[e.rev] = installed[e.rev])
<1>1. indexOk /\ e \in Range(index) /\ installed[e.rev] = e.download
  <2>1. e \in Range(Entries) /\ Matches(e)
    BY DEF Ready
  <2>2. Range(<<>>) = {}
    BY DEF Range
  <2>. QED
    BY <2>1, <2>2 DEF Entries, Matches
<1>2. e \in Record /\ e.download \in probed
  BY <1>1 DEF IInv, TypeOK, RecordInv, Range
<1>3. e.rev \in Rev /\ e.download # Nothing
  BY <1>2 DEF Record, Nothing
<1>4. ~(indexOk' /\ e \in Range(index') /\ installed'[e.rev] = installed[e.rev])
  BY <1>1 DEF Ready, Entries, Matches
<1>. QED
  BY <1>1, <1>2, <1>3, <1>4

LEMMA ReadyLost ==
  ASSUME IInv, [Next]_vars, faults' = faults, NEW e \in Ready \ Ready'
  PROVE  forced /\ e.rev = pinned
<1>. USE ReadyStays
<1>1. ASSUME NEW force \in BOOLEAN, Provision(force) PROVE  forced /\ e.rev = pinned
  BY <1>1 DEF Provision, indexVars
<1>2. CASE Download
  BY <1>2 DEF Download, indexVars
<1>3. CASE DownloadFails
  BY <1>3 DEF DownloadFails, dirVars, indexVars
<1>4. CASE Compare
  BY <1>4 DEF Compare, dirVars, indexVars
<1>5. CASE Describe
  BY <1>5 DEF Describe, dirVars, indexVars
<1>6. CASE Check
  BY <1>6 DEF Check, dirVars, indexVars
<1>7. CASE CheckFails
  BY <1>7 DEF CheckFails, indexVars
<1>8. CASE MoveAside
  BY <1>8 DEF MoveAside, PlacedInv, IInv, indexVars
<1>9. CASE Place
  BY <1>9 DEF Place, PlacedInv, IInv, indexVars
<1>10. CASE PlaceFails
  BY <1>10 DEF PlaceFails, PlacedInv, IInv, indexVars
<1>11. CASE DropAside
  BY <1>11 DEF DropAside, indexVars
<1>12. CASE VerifyPromoted
  BY <1>12 DEF VerifyPromoted, dirVars, indexVars
<1>13. CASE ProbePasses
  BY <1>13 DEF ProbePasses, dirVars, indexVars
<1>14. CASE ProbeFails
  BY <1>14 DEF ProbeFails, dirVars, indexVars
<1>15. CASE Quarantine
  BY <1>15 DEF Quarantine, PlacedInv, Placed, IInv, TypeOK, indexVars
<1>16. CASE RemoveEntry
  <2>1. e.rev # pinned
    BY <1>16 DEF RemoveEntry, PlacedInv, Placed, IInv
  <2>2. index' = Without(index, pinned)
    BY <1>16 DEF RemoveEntry
  <2>3. e \in Range(index')
    BY <2>1, <2>2, WithoutIs DEF IInv, TypeOK
  <2>. QED
    BY <1>16, <2>3 DEF RemoveEntry, dirVars
<1>17. CASE RecordReady
  <2>. DEFINE new == [rev |-> pinned, download |-> installed[pinned]]
              rest == Without(index, pinned)
  <2>1. index' = <<new>> \o rest
    BY <1>17 DEF RecordReady, Entries
  <2>2. new \in Record
    <3>1. pinned \in Rev /\ installed[pinned] \in probed
      BY <1>17 DEF RecordReady, IInv, TypeOK, PlacedInv
    <3>2. installed[pinned] \in Nat \ {0}
      BY <3>1 DEF IInv, TypeOK
    <3>. QED
      BY <3>1, <3>2 DEF Record
  <2>3. rest \in Seq(Record) /\ (e.rev # pinned => e \in Range(rest))
    BY WithoutIs DEF IInv, TypeOK
  <2>4. e.rev = pinned => e = new
    BY DEF Record
  <2>5. e \in Range(index')
    <3>. HIDE DEF new, rest
    <3>. QED
      BY <2>1, <2>2, <2>3, <2>4, InFront
  <2>. QED
    BY <1>17, <2>5 DEF RecordReady, dirVars
<1>18. CASE Kill
  BY <1>18 DEF Kill, IInv, TypeOK
<1>19. ASSUME NEW d \in Range(installed) \union Range(staging), Damage(d)
       PROVE  forced /\ e.rev = pinned
  BY <1>19 DEF Damage, IInv, TypeOK
<1>20. CASE DamageIndex
  BY <1>20 DEF DamageIndex, IInv, TypeOK
<1>21. CASE Publish
  BY <1>21 DEF Publish, dirVars, indexVars
<1>22. CASE Choose
  BY <1>22 DEF Choose, dirVars, indexVars
<1>23. CASE Resolve
  BY <1>23 DEF Resolve, dirVars, indexVars
<1>24. CASE UNCHANGED vars
  BY <1>24 DEF vars, dirVars, indexVars
<1>. QED
  BY <1>1, <1>2, <1>3, <1>4, <1>5, <1>6, <1>7, <1>8, <1>9, <1>10, <1>11, <1>12, <1>13,
     <1>14, <1>15, <1>16, <1>17, <1>18, <1>19, <1>20, <1>21, <1>22, <1>23, <1>24 DEF Next

\* As long as nothing is killed or damaged, a model that was ready stays so
\* unless a forced provision_model replaces that very revision.
THEOREM ReadyModelsAreKept == Spec => ReadyIsKept
<1>1. IInv /\ [Next]_vars
        => [faults' = faults => \A e \in Ready \ Ready' : forced /\ e.rev = pinned]_vars
  BY ReadyLost
<1>. QED
  BY <1>1, InvariantHolds, PTL DEF Spec, ReadyIsKept
=============================================================================
