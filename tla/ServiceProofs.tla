----------------------------- MODULE ServiceProofs -----------------------------
(***************************************************************************)
(* What is proved of the services that have no module of proofs of their   *)
(* own: the library's files, for any download, any settings and any number *)
(* of setbacks; the deletion of a series, for any number of episodes;      *)
(* scoring, for any releases and profiles; and the types of all services.  *)
(***************************************************************************)
EXTENDS Services, ClientProofs, StoreProofs, SequenceTheorems

-------------------------------------------------------------------------------
(* Landing.                                                                *)

(* What StartImport finds is a list of files of the walk: FindVideos in    *)
(* importer.go lists what the download folder holds.                       *)
LEMMA VideosOfWalk ==
  ASSUME NEW S, layout.walk \in Seq(S)
  PROVE  Videos \in Seq(S)
<1> DEFINE walk == layout.walk
           next(f, n) == IF n = 0 THEN <<>>
                         ELSE IF walk[n] \in download THEN Append(f[n - 1], walk[n]) ELSE f[n - 1]
           Upto(n) == \E f : f = [m \in 0 .. n |-> next(f, m)]
           long == {n \in Nat : ~Upto(n)}
           kept == CHOOSE f : f = [m \in 0 .. Len(walk) |-> next(f, m)]
           Right(n) == kept[n] \in Seq(S)
           wrong == {n \in 0 .. Len(walk) : ~Right(n)}
<1>1. Videos = kept[Len(walk)]
  BY DEF Videos
<1>2. Len(walk) \in Nat /\ \A i \in 1 .. Len(walk) : walk[i] \in S
  OBVIOUS
<1> HIDE DEF walk
<1>3. Upto(0)
  <2>1. [m \in 0 .. 0 |-> <<>>] = [m \in 0 .. 0 |-> next([i \in 0 .. 0 |-> <<>>], m)]
    OBVIOUS
  <2>2. QED
    BY <2>1
<1>4. ASSUME NEW n \in Nat, Upto(n) PROVE Upto(n + 1)
  <2>1. PICK f : f = [m \in 0 .. n |-> next(f, m)]
    BY <1>4
  <2> DEFINE g == [m \in 0 .. (n + 1) |-> IF m = n + 1 THEN next(f, n + 1) ELSE f[m]]
  <2>2. \A m \in 0 .. n : g[m] = f[m] /\ f[m] = next(f, m)
    <3> SUFFICES ASSUME NEW m \in 0 .. n PROVE g[m] = f[m] /\ f[m] = next(f, m)
      OBVIOUS
    <3>1. f[m] = next(f, m)
      <4> HIDE DEF next
      <4> QED
        BY <2>1
    <3>2. m \in 0 .. (n + 1) /\ m # n + 1
      OBVIOUS
    <3>3. g[m] = f[m]
      <4> HIDE DEF next
      <4> QED
        BY <3>2
    <3>4. QED
      BY <3>1, <3>3
  <2>3. \A m \in 0 .. (n + 1) : g[m] = next(g, m)
    <3>1. g[0] = next(g, 0)
      <4>1. 0 \in 0 .. n
        OBVIOUS
      <4>2. next(f, 0) = <<>> /\ next(g, 0) = <<>>
        OBVIOUS
      <4> HIDE DEF g, next
      <4>3. QED
        BY <2>2, <4>1, <4>2
    <3>2. ASSUME NEW m \in 0 .. n, m # 0 PROVE g[m] = next(g, m)
      <4>1. m - 1 \in 0 .. n
        BY <3>2
      <4> HIDE DEF g, next
      <4>2. g[m - 1] = f[m - 1] /\ g[m] = next(f, m)
        BY <2>2, <4>1
      <4> USE DEF next
      <4>3. next(f, m) = next(g, m)
        BY <4>2
      <4>4. QED
        BY <4>2, <4>3
    <3>3. g[n + 1] = next(g, n + 1)
      <4>1. n \in 0 .. n /\ (n + 1) - 1 = n
        OBVIOUS
      <4>2. g[n] = f[n]
        BY <2>2, <4>1
      <4>3. g[n + 1] = next(f, n + 1)
        OBVIOUS
      <4>4. QED
        BY <4>1, <4>2, <4>3
    <3> HIDE DEF g, next
    <3>4. QED
      BY <3>1, <3>2, <3>3
  <2>4. g = [m \in 0 .. (n + 1) |-> next(g, m)]
    <3> HIDE DEF next
    <3>1. g = [m \in 0 .. (n + 1) |-> g[m]]
      OBVIOUS
    <3>2. QED
      BY <2>3, <3>1
  <2>5. QED
    BY <2>4
<1>5. long = {}
  <2> SUFFICES ASSUME long # {} PROVE FALSE
    OBVIOUS
  <2> HIDE DEF Upto
  <2>1. PICK n \in long : \A m \in long : n <= m
    <3>1. long \in SUBSET Nat
      OBVIOUS
    <3> HIDE DEF long
    <3>2. QED
      BY <3>1, SmallestOf
  <2>2. n \in Nat /\ ~Upto(n) /\ n # 0
    BY <1>3
  <2>3. n - 1 \in Nat /\ Upto(n - 1)
    BY <2>1, <2>2
  <2>4. QED
    BY <1>4, <2>2, <2>3
<1>6. kept = [m \in 0 .. Len(walk) |-> next(kept, m)]
  <2>1. Upto(Len(walk))
    BY <1>2, <1>5
  <2> HIDE DEF next
  <2>2. QED
    BY <2>1
<1>7. \A m \in 0 .. Len(walk) : kept[m] = next(kept, m)
  <2> HIDE DEF next, kept
  <2> QED
    BY <1>6
<1> HIDE DEF kept
<1>8. Right(0)
  <2>1. kept[0] = <<>>
    BY <1>2, <1>7
  <2>2. QED
    BY <2>1
<1>9. ASSUME NEW n \in Nat, n + 1 \in 0 .. Len(walk), Right(n) PROVE Right(n + 1)
  <2>1. n + 1 # 0 /\ (n + 1) - 1 = n /\ walk[n + 1] \in S
    BY <1>2, <1>9
  <2>2. kept[n + 1] = IF walk[n + 1] \in download THEN Append(kept[n], walk[n + 1]) ELSE kept[n]
    BY <1>7, <1>9, <2>1
  <2>3. QED
    BY <1>9, <2>1, <2>2
<1>10. wrong = {}
  <2> SUFFICES ASSUME wrong # {} PROVE FALSE
    OBVIOUS
  <2> HIDE DEF Right
  <2>1. PICK n \in wrong : \A m \in wrong : n <= m
    <3>1. wrong \in SUBSET Nat
      BY <1>2
    <3> HIDE DEF wrong
    <3>2. QED
      BY <3>1, SmallestOf
  <2>2. n \in 0 .. Len(walk) /\ ~Right(n) /\ n # 0
    BY <1>8
  <2>3. n - 1 \in Nat /\ n - 1 \in 0 .. Len(walk) /\ (n - 1) + 1 = n
    BY <1>2, <2>2
  <2>4. Right(n - 1)
    BY <1>2, <2>1, <2>3
  <2>5. QED
    BY <1>9, <2>2, <2>3, <2>4
<1>11. Right(Len(walk))
  <2>1. Len(walk) \in 0 .. Len(walk)
    BY <1>2
  <2> HIDE DEF Right
  <2>2. QED
    BY <1>10, <2>1
<1>12. QED
  BY <1>1, <1>11

LandingSteps ==
  [pc : {"idle", "match", "recycle", "place", "copy", "record"},
   todo : Seq(Files(layout.walk)), active : SUBSET layout.items,
   item : layout.items \cup {""}, filed : SUBSET layout.items]

LandingShape ==
  /\ layout \in Layouts
  /\ download \subseteq Files(layout.walk)
  /\ shelf \in [layout.items -> DOMAIN layout.size \cup {NoFile}]
  /\ part \subseteq layout.items /\ bin \subseteq DOMAIN layout.size
  /\ land \in LandingSteps
  /\ land.filed \subseteq land.active
  /\ status \in [layout.items -> {"importing", "imported", "import_failed"}]
  /\ verdict \in {"importing", "imported", "failed"} /\ erred \in BOOLEAN
  /\ setbacks \in Nat

(* The file in hand and the item it goes to; nothing is placed where       *)
(* something is still on the shelf.                                        *)
InHand ==
  /\ land.pc \in {"recycle", "place", "copy", "record"} =>
       land.todo # <<>> /\ land.item \in land.active
  /\ land.pc = "recycle" => shelf[land.item] # NoFile
  /\ land.pc \in {"place", "copy"} => shelf[land.item] = NoFile

LandingInv == LandingShape /\ InHand /\ NothingDeleted

LEMMA FilesOfWalk ==
  ASSUME layout \in Layouts
  PROVE  layout.walk \in Seq(Files(layout.walk)) /\ Files(layout.walk) \subseteq DOMAIN layout.size
<1>1. layout.walk \in Seq(DOMAIN layout.size \cap DOMAIN layout.names)
  BY LayoutAssumption
<1>2. Files(layout.walk) = {layout.walk[i] : i \in DOMAIN layout.walk}
  BY DEF Files
<1>3. QED
  BY <1>1, <1>2

LEMMA NotLanding == NoLanding \in LandingSteps /\ NoLanding.filed = {}
<1>1. <<>> \in Seq(Files(layout.walk))
  OBVIOUS
<1>2. QED
  BY <1>1 DEF NoLanding, LandingSteps

LEMMA TailOfFiles ==
  ASSUME land \in LandingSteps, land.todo # <<>>
  PROVE  /\ land.todo \in Seq(Files(layout.walk)) /\ Head1 \in Files(layout.walk)
         /\ Tail(land.todo) \in Seq(Files(layout.walk))
<1>1. land.todo \in Seq(Files(layout.walk))
  BY DEF LandingSteps
<1> DEFINE todo == land.todo
           S == Files(layout.walk)
<1>2. todo \in Seq(S) /\ todo # <<>>
  BY <1>1
<1> HIDE DEF todo, S
<1>3. Head(todo) \in S /\ Tail(todo) \in Seq(S)
  BY <1>2, HeadTailProperties
<1>4. QED
  BY <1>1, <1>3 DEF Head1, todo, S

LEMMA LandingStarts == LandingInit => LandingInv
<1> SUFFICES ASSUME LandingInit PROVE LandingInv
  OBVIOUS
<1>1. layout \in Layouts /\ setbacks \in Nat /\ layout.old \in [layout.items -> DOMAIN layout.size \cup {NoFile}]
  BY LayoutAssumption DEF LandingInit
<1>2. LandingShape
  BY <1>1, NotLanding DEF LandingInit, LandingShape
<1>3. InHand
  BY DEF LandingInit, InHand, NoLanding
<1>4. NothingDeleted
  BY DEF LandingInit, NothingDeleted
<1>5. QED
  BY <1>2, <1>3, <1>4 DEF LandingInv

(* Starting, matching and ending leave the files where they are.           *)
LEMMA MatchingSteps ==
  ASSUME LandingInv,
         StartImport \/ Match \/ RecordImport \/ NoMatchingFile \/ CloseGrab
           \/ ImportFails \/ ImportDies \/ \E i \in layout.items : MarkImported(i)
  PROVE  LandingInv'
<1> USE DEF LandingInv
<1>1. NothingDeleted'
  <2>1. UNCHANGED <<layout, download, shelf, bin>>
    BY DEF StartImport, Match, RecordImport, NoMatchingFile, CloseGrab, ImportFails, ImportDies,
           MarkImported
  <2>2. QED
    BY <2>1 DEF NothingDeleted
<1>2. CASE StartImport
  <2>1. Videos \in Seq(Files(layout.walk))
    BY FilesOfWalk, VideosOfWalk DEF LandingShape
  <2>2. LandingShape'
    <3>1. /\ UNCHANGED <<layout, download, shelf, part, bin, status, verdict, erred, setbacks>>
          /\ land' = [NoLanding EXCEPT !.pc = "match", !.todo = Videos, !.active = ActiveItems]
      BY <1>2 DEF StartImport
    <3>2. ActiveItems \subseteq layout.items
      BY DEF ActiveItems
    <3>3. land' \in LandingSteps /\ land'.filed \subseteq land'.active
      BY <2>1, <3>1, <3>2 DEF LandingSteps, NoLanding
    <3>4. LandingSteps' = LandingSteps
      BY <3>1 DEF LandingSteps
    <3> QED
      BY <3>1, <3>3, <3>4 DEF LandingShape
  <2>3. InHand'
    BY <1>2 DEF StartImport, InHand, NoLanding
  <2>4. QED
    BY <1>1, <2>2, <2>3
<1>3. CASE Match
  <2>1. /\ land.todo \in Seq(Files(layout.walk)) /\ land.todo # <<>>
        /\ Tail(land.todo) \in Seq(Files(layout.walk))
    BY <1>3, TailOfFiles DEF Match, LandingShape
  <2>2. CASE MatchingEpisode(Head1) = {}
    <3>1. land' = [land EXCEPT !.pc = "match", !.todo = Tail(@)]
      BY <1>3, <2>2 DEF Match, NextFile
    <3>2. UNCHANGED <<layout, download, shelf, part, bin, status, verdict, erred, setbacks>>
      BY <1>3 DEF Match
    <3>3. LandingShape'
      BY <2>1, <3>1, <3>2 DEF LandingShape, LandingSteps
    <3>4. InHand'
      BY <3>1 DEF InHand, LandingShape, LandingSteps
    <3>5. QED
      BY <1>1, <3>3, <3>4
  <2>3. CASE MatchingEpisode(Head1) # {}
    <3>1. PICK i \in MatchingEpisode(Head1) :
            IF SameSize(Head1, i)
            THEN land' = [land EXCEPT !.todo = Tail(@), !.filed = @ \cup {i}]
            ELSE land' = [land EXCEPT !.item = i,
                            !.pc = IF shelf[i] # NoFile THEN "recycle" ELSE "place"]
      BY <1>3, <2>3 DEF Match
    <3>2. i \in land.active /\ land.pc = "match"
      BY <1>3 DEF Match, MatchingEpisode
    <3>3. UNCHANGED <<layout, download, shelf, part, bin, status, verdict, erred, setbacks>>
      BY <1>3 DEF Match
    <3>a. land \in LandingSteps /\ land.active \subseteq layout.items /\ land.filed \subseteq land.active
      BY DEF LandingShape, LandingSteps
    <3>b. land' \in LandingSteps /\ land'.filed \subseteq land'.active
      <4>1. CASE SameSize(Head1, i)
        <5>1. land' = [land EXCEPT !.todo = Tail(land.todo), !.filed = land.filed \cup {i}]
          BY <3>1, <4>1
        <5>2. i \in layout.items /\ land.filed \cup {i} \subseteq land.active
          BY <3>2, <3>a
        <5>3. QED
          BY <2>1, <3>a, <5>1, <5>2 DEF LandingSteps
      <4>2. CASE ~SameSize(Head1, i)
        <5>1. land' = [land EXCEPT !.item = i, !.pc = IF shelf[i] # NoFile THEN "recycle" ELSE "place"]
          BY <3>1, <4>2
        <5>2. i \in layout.items
          BY <3>2, <3>a
        <5>3. QED
          BY <3>a, <5>1, <5>2 DEF LandingSteps
      <4>3. QED
        BY <4>1, <4>2
    <3>4. LandingShape'
      BY <3>3, <3>b DEF LandingShape, LandingSteps
    <3>5. InHand'
      BY <2>1, <3>1, <3>2, <3>3 DEF InHand, LandingShape, LandingSteps
    <3>6. QED
      BY <1>1, <3>4, <3>5
  <2>4. QED
    BY <2>2, <2>3
<1>4. CASE RecordImport
  <2>1. /\ land.todo \in Seq(Files(layout.walk)) /\ land.todo # <<>>
        /\ Tail(land.todo) \in Seq(Files(layout.walk))
    BY <1>4, TailOfFiles DEF RecordImport, LandingShape, InHand
  <2>2. LandingShape'
    BY <1>4, <2>1 DEF RecordImport, LandingShape, LandingSteps, InHand
  <2>3. InHand'
    BY <1>4 DEF RecordImport, InHand, LandingShape
  <2>4. QED
    BY <1>1, <2>2, <2>3
<1>5. CASE NoMatchingFile \/ ImportFails \/ ImportDies
  <2>1. /\ UNCHANGED <<layout, download, shelf, bin>> /\ land' = NoLanding
        /\ part' \subseteq layout.items /\ setbacks' \in Nat /\ erred' \in BOOLEAN
    <3> /\ setbacks \in Nat /\ erred \in BOOLEAN /\ part \subseteq layout.items
      BY DEF LandingShape
    <3>1. CASE NoMatchingFile
      BY <3>1 DEF NoMatchingFile, FailImport
    <3>2. CASE ImportFails
      BY <3>2 DEF ImportFails, FailImport
    <3>3. CASE ImportDies
      BY <3>3 DEF ImportDies
    <3> QED
      BY <1>5, <3>1, <3>2, <3>3
  <2>2. /\ status' \in [layout.items -> {"importing", "imported", "import_failed"}]
        /\ verdict' \in {"importing", "imported", "failed"}
    BY <1>5 DEF NoMatchingFile, ImportFails, ImportDies, FailImport, LandingShape
  <2>3. LandingShape'
    <3>1. NoLanding \in LandingSteps' /\ NoLanding.filed = {}
      BY <2>1, NotLanding DEF LandingSteps
    <3>2. QED
      BY <2>1, <2>2, <3>1 DEF LandingShape
  <2>4. InHand'
    BY <2>1 DEF InHand, NoLanding
  <2>5. QED
    BY <1>1, <2>3, <2>4
<1>6. ASSUME NEW i \in layout.items, MarkImported(i) PROVE LandingInv'
  <2>1. LandingShape'
    BY <1>6, NotLanding DEF MarkImported, LandingShape, LandingSteps
  <2>2. InHand'
    BY <1>6 DEF MarkImported, InHand, NoLanding
  <2>3. QED
    BY <1>1, <2>1, <2>2
<1>7. CASE CloseGrab
  <2>1. LandingShape' /\ InHand'
    BY <1>7 DEF CloseGrab, LandingShape, LandingSteps, InHand
  <2>2. QED
    BY <1>1, <2>1
<1>8. QED
  BY <1>2, <1>3, <1>4, <1>5, <1>6, <1>7

(* Recycling, linking, moving and copying: a file leaves the shelf for the *)
(* recycle folder and the download for an empty place on the shelf.        *)
LEMMA MovingSteps ==
  ASSUME LandingInv, Recycle \/ Place \/ FinishCopy
  PROVE  LandingInv'
<1> USE DEF LandingInv
<1>1. /\ land.pc \in {"recycle", "place", "copy"} /\ land \in LandingSteps
      /\ land.todo # <<>> /\ land.item \in land.active /\ land.active \subseteq layout.items
      /\ land.item \in layout.items /\ shelf \in [layout.items -> DOMAIN layout.size \cup {NoFile}]
  BY DEF Recycle, Place, FinishCopy, InHand, LandingShape, LandingSteps
<1>2. Head1 \in Files(layout.walk) /\ Head1 \in DOMAIN layout.size
  BY <1>1, TailOfFiles, FilesOfWalk DEF LandingShape
<1>3. PICK pc \in {"place", "copy", "record"} : land' = [land EXCEPT !.pc = pc]
  BY DEF Recycle, Place, FinishCopy
<1>4. /\ land' \in LandingSteps /\ land'.filed \subseteq land'.active
      /\ land'.pc = pc /\ land'.item = land.item /\ land'.todo = land.todo
      /\ land'.active = land.active
  BY <1>1, <1>3 DEF LandingShape, LandingSteps
<1>5. UNCHANGED <<layout, status, verdict, erred, setbacks>>
  BY DEF Recycle, Place, FinishCopy
<1>6. CASE Recycle
  <2>1. /\ shelf' = [shelf EXCEPT ![land.item] = NoFile] /\ pc = "place"
        /\ bin' = IF layout.recycle THEN bin \cup {shelf[land.item]} ELSE bin
        /\ UNCHANGED <<download, part>> /\ shelf[land.item] \in DOMAIN layout.size
    <3>1. land' = [land EXCEPT !.pc = "place"] /\ shelf[land.item] # NoFile
      BY <1>6 DEF Recycle, InHand
    <3>2. pc = "place"
      BY <1>1, <1>4, <3>1 DEF LandingSteps
    <3>3. QED
      BY <1>1, <1>6, <3>1, <3>2 DEF Recycle
  <2>2. LandingShape'
    BY <1>1, <1>4, <1>5, <2>1 DEF LandingShape, LandingSteps
  <2>3. InHand'
    BY <1>1, <1>4, <2>1 DEF InHand
  <2>4. NothingDeleted'
    BY <1>1, <1>5, <2>1 DEF NothingDeleted
  <2>5. QED
    BY <2>2, <2>3, <2>4
<1>7. ASSUME shelf' = [shelf EXCEPT ![land.item] = Head1], shelf[land.item] = NoFile, UNCHANGED bin,
             pc = "record", download' \in {download, download \ {Head1}}, part' \subseteq layout.items
      PROVE  LandingInv'
  <2>1. LandingShape'
    BY <1>1, <1>2, <1>4, <1>5, <1>7 DEF LandingShape, LandingSteps
  <2>2. InHand'
    BY <1>1, <1>4, <1>7 DEF InHand
  <2>3. ASSUME layout.recycle PROVE NothingDeleted'
    <3>1. ASSUME NEW f, f \in download \cup {shelf[i] : i \in layout.items} \cup bin, f # NoFile
          PROVE  f \in download' \cup {shelf'[i] : i \in layout.items} \cup bin'
      <4>1. shelf'[land.item] = Head1 /\ \A i \in layout.items \ {land.item} : shelf'[i] = shelf[i]
        BY <1>1, <1>7
      <4>2. CASE f \in download
        BY <1>1, <1>7, <4>1, <4>2
      <4>3. ASSUME NEW i \in layout.items, f = shelf[i] PROVE f \in {shelf'[j] : j \in layout.items}
        BY <1>7, <3>1, <4>1, <4>3
      <4>4. QED
        BY <1>7, <3>1, <4>2, <4>3
    <3>2. \A f \in Files(layout.walk) \cup ({layout.old[i] : i \in layout.items} \ {NoFile}) : f # NoFile
      <4>1. NoFile \notin DOMAIN layout.size /\ Files(layout.walk) \subseteq DOMAIN layout.size
        BY FilesOfWalk, LayoutAssumption DEF LandingShape
      <4>2. QED
        BY <4>1
    <3>3. QED
      BY <1>5, <2>3, <3>1, <3>2 DEF NothingDeleted
  <2>4. QED
    BY <1>5, <2>1, <2>2, <2>3 DEF NothingDeleted
<1>8. CASE Place
  <2>1. shelf[land.item] = NoFile /\ UNCHANGED bin
    BY <1>8 DEF Place, InHand
  <2>2. CASE layout.hardlink \/ layout.move
    <3>1. /\ shelf' = [shelf EXCEPT ![land.item] = Head1] /\ UNCHANGED part
          /\ download' \in {download, download \ {Head1}} /\ land' = [land EXCEPT !.pc = "record"]
      BY <1>8, <2>2 DEF Place
    <3>2. pc = "record"
      BY <1>1, <1>4, <3>1 DEF LandingSteps
    <3>3. QED
      BY <1>7, <2>1, <3>1, <3>2 DEF LandingShape
  <2>3. CASE ~(layout.hardlink \/ layout.move)
    <3>1. /\ part' = part \cup {land.item} /\ UNCHANGED <<download, shelf>>
          /\ land' = [land EXCEPT !.pc = "copy"]
      BY <1>8, <2>3 DEF Place
    <3>2. pc = "copy"
      BY <1>1, <1>4, <3>1 DEF LandingSteps
    <3>3. LandingShape'
      BY <1>1, <1>4, <1>5, <2>1, <3>1 DEF LandingShape, LandingSteps
    <3>4. InHand' /\ NothingDeleted'
      BY <1>1, <1>4, <1>5, <2>1, <3>1, <3>2 DEF InHand, NothingDeleted
    <3>5. QED
      BY <3>3, <3>4
  <2>4. QED
    BY <2>2, <2>3
<1>9. CASE FinishCopy
  <2>1. /\ shelf' = [shelf EXCEPT ![land.item] = Head1] /\ part' = part \ {land.item}
        /\ UNCHANGED <<download, bin>> /\ land' = [land EXCEPT !.pc = "record"]
        /\ shelf[land.item] = NoFile
    BY <1>9 DEF FinishCopy, InHand
  <2>2. pc = "record"
    BY <1>1, <1>4, <2>1 DEF LandingSteps
  <2>3. QED
    BY <1>7, <2>1, <2>2 DEF LandingShape
<1>10. QED
  BY <1>6, <1>8, <1>9

LEMMA LandingStep == LandingInv /\ [LandingNext]_landingVars => LandingInv'
<1> SUFFICES ASSUME LandingInv, [LandingNext]_landingVars PROVE LandingInv'
  OBVIOUS
<1>1. CASE UNCHANGED landingVars
  <2>1. UNCHANGED <<layout, download, shelf, part, bin, land, status, verdict, erred, setbacks>>
    BY <1>1 DEF landingVars
  <2>2. LandingShape'
    <3>1. LandingSteps' = LandingSteps
      BY <2>1 DEF LandingSteps
    <3> QED
      BY <2>1, <3>1 DEF LandingInv, LandingShape
  <2>3. InHand' /\ NothingDeleted'
    BY <2>1 DEF LandingInv, InHand, NothingDeleted
  <2>4. QED
    BY <2>2, <2>3 DEF LandingInv
<1>2. QED
  BY <1>1, MatchingSteps, MovingSteps DEF LandingNext, ImportStep

(* With a recycle folder no file is lost: what an import takes away from   *)
(* one place it has put into another (files.go, placeFile and recycle).    *)
THEOREM NoFileIsLost == LandingSpec => []NothingDeleted
<1>1. LandingInv => NothingDeleted
  BY DEF LandingInv
<1>2. QED
  BY <1>1, LandingStarts, LandingStep, PTL DEF LandingSpec

-------------------------------------------------------------------------------
(* Deletion of a collection.                                               *)

Somewhere == Episodes \cup {NoDelete.at}

DelSteps ==
  [pc : {"idle", "lock", "check", "torrents", "mark", "files"}, files : BOOLEAN,
   downloads : BOOLEAN, listed : SUBSET Episodes, paths : SUBSET Episodes,
   grabs : SUBSET Episodes, todo : SUBSET Episodes, at : Somewhere]

PollShapes == [pc : {"idle", "copy", "mark"}, rows : SUBSET Episodes, at : Somewhere]

DeleteShape ==
  /\ episode \in [Episodes -> [row : BOOLEAN, path : {"none", "inside", "outside"}]]
  /\ lease \in [Episodes -> {"free", "search", "delete"}]
  /\ job \in [Episodes -> {"none", "active", "imported", "closed"}]
  /\ client \subseteq Episodes /\ video \subseteq Episodes /\ overtaken \subseteq Episodes
  /\ poll \in PollShapes
  /\ del \in DelSteps
  /\ outcome \in {"none", "refused", "failed", "done"}
  /\ lapses \in [failures : Nat, expired : BOOLEAN]

(* A deletion has no outcome while it works; it removes nothing before it  *)
(* has checked; one that succeeded left no row to search or download for;  *)
(* what the client has was grabbed.                                        *)
Stages ==
  /\ del.pc # "idle" => outcome = "none"
  /\ del.pc \in {"idle", "lock", "check"} /\ outcome \in {"none", "refused"} => ~removed
  /\ del.paths \subseteq del.listed /\ del.grabs \subseteq del.listed
  /\ del.todo \subseteq del.listed /\ (del.pc \in {"torrents", "mark"} => del.todo \subseteq del.grabs)
  /\ outcome = "done" => \A e \in Episodes : ~episode[e].row
  /\ \A e \in client : job[e] # "none"
  /\ del.pc = "mark" => del.at \in del.todo /\ del.at \in Episodes

(* What the status loop has in hand is of rows that were active.           *)
Handled ==
  /\ \A e \in poll.rows : job[e] \in {"active", "closed"}
  /\ poll.pc # "idle" => poll.at \in Episodes \ poll.rows
  /\ poll.pc # "idle" => job[poll.at] \in {"active", "closed"}

(* While the leases hold, nothing comes to a listed episode: what is still *)
(* there is still to be removed, but for what the status loop brings back. *)
Emptied(e) == (del.downloads => e \notin client) /\ (job[e] = "active" => e \in overtaken)
Shrinking ==
  /\ del.pc \in {"check", "torrents", "mark", "files"} =>
       \A e \in del.listed : lease[e] = "delete" /\ (e \in del.grabs \/ job[e] = "none")
  /\ del.pc \in {"torrents", "mark"} => \A e \in del.listed \ del.todo : Emptied(e)
  /\ del.pc = "mark" => del.at \notin client
  /\ del.pc = "files" \/ outcome = "done" =>
       /\ \A e \in del.listed : Emptied(e)
       /\ del.files => \A e \in del.paths \cap video :
            e \in overtaken \/ (del.pc = "files" /\ e \in del.todo)

DeleteCore == DeleteShape /\ Stages /\ (~lapses.expired => Shrinking)
DeleteInv == DeleteCore /\ Handled

LEMMA NotDeleting == NoDelete \in DelSteps
  BY DEF NoDelete, DelSteps, Somewhere

LEMMA NotPolling == NoPoll \in PollShapes /\ NoPoll.pc = "idle" /\ NoPoll.rows = {}
  BY DEF NoPoll, PollShapes, Somewhere

LEMMA DeleteStarts == DeleteInit => DeleteInv
<1> SUFFICES ASSUME DeleteInit PROVE DeleteInv
  OBVIOUS
<1>1. DeleteShape
  BY DeleteAssumption, NotDeleting, NotPolling DEF DeleteInit, DeleteShape
<1>2. Stages
  BY DEF DeleteInit, Stages, NoDelete
<1>3. Shrinking
  BY DEF DeleteInit, Shrinking, NoDelete
<1>4. Handled
  BY NotPolling DEF DeleteInit, Handled
<1>5. QED
  BY <1>1, <1>2, <1>3, <1>4 DEF DeleteInv, DeleteCore

(* The deletion up to what it checks before it removes anything.           *)
LEMMA CheckingSteps ==
  ASSUME DeleteInv,
         ReadJobs \/ CheckDelete \/ (\E e \in Episodes : LockEpisode(e))
           \/ (\E files, downloads \in BOOLEAN : ListEpisodes(files, downloads))
  PROVE  DeleteCore'
<1> USE DEF DeleteInv, DeleteCore
<1>1. ASSUME NEW files \in BOOLEAN, NEW downloads \in BOOLEAN, ListEpisodes(files, downloads)
      PROVE  DeleteCore'
  <2>1. /\ UNCHANGED <<episode, lease, job, client, video, poll, overtaken, removed, outcome, lapses>>
        /\ outcome = "none" /\ del.pc = "idle"
        /\ del' = [NoDelete EXCEPT !.pc = "lock", !.files = files, !.downloads = downloads,
             !.listed = Rows, !.paths = {e \in Rows : episode[e].path # "none"}]
    BY <1>1 DEF ListEpisodes
  <2>2. Rows \in SUBSET Episodes /\ {e \in Rows : episode[e].path # "none"} \in SUBSET Episodes
    BY DEF Rows
  <2>3. del' \in DelSteps /\ del'.pc = "lock" /\ del'.paths \subseteq del'.listed
        /\ del'.grabs = {} /\ del'.todo = {}
    <3> DEFINE paths == {e \in Rows : episode[e].path # "none"}
    <3>1. NoDelete \in DelSteps /\ NoDelete.grabs = {} /\ NoDelete.todo = {} /\ paths \subseteq Rows
      BY NotDeleting DEF NoDelete
    <3> HIDE DEF paths
    <3>2. QED
      BY <2>1, <2>2, <3>1 DEF DelSteps, paths
  <2>4. DeleteShape'
    BY <2>1, <2>3 DEF DeleteShape, DelSteps, PollShapes, Somewhere
  <2>5. Stages' /\ Shrinking'
    BY <2>1, <2>3 DEF Stages, Shrinking
  <2>6. QED
    BY <2>4, <2>5
<1>2. ASSUME Refuse, del.pc \in {"lock", "check"} PROVE DeleteCore'
  <2>1. /\ UNCHANGED <<episode, job, client, video, poll, overtaken, removed, lapses>>
        /\ outcome' = "refused" /\ del' = [del EXCEPT !.pc = "idle"]
        /\ lease' = [e \in Episodes |-> IF lease[e] = "delete" THEN "free" ELSE lease[e]]
    BY <1>2 DEF Refuse, ReleaseAll
  <2>2. lease' \in [Episodes -> {"free", "search", "delete"}]
    BY <2>1 DEF DeleteShape
  <2>3. del' \in DelSteps /\ del'.pc = "idle" /\ UNCHANGED <<del.paths, del.grabs, del.listed>>
    BY <2>1 DEF DeleteShape, DelSteps
  <2>4. DeleteShape'
    BY <2>1, <2>2, <2>3 DEF DeleteShape
  <2>5. Stages' /\ Shrinking'
    BY <1>2, <2>1, <2>3 DEF Stages, Shrinking
  <2>6. QED
    BY <2>4, <2>5
<1>3. ASSUME NEW e \in Episodes, LockEpisode(e) PROVE DeleteCore'
  <2>1. CASE lease[e] = "free"
    <3>1. /\ del.pc = "lock" /\ lease' = [lease EXCEPT ![e] = "delete"]
          /\ UNCHANGED <<episode, job, client, video, poll, overtaken, del, removed, outcome, lapses>>
      BY <1>3, <2>1 DEF LockEpisode
    <3>2. DeleteShape'
      BY <3>1 DEF DeleteShape, DelSteps
    <3>3. Stages' /\ Shrinking'
      BY <3>1 DEF Stages, Shrinking
    <3>4. QED
      BY <3>2, <3>3
  <2>2. CASE lease[e] # "free"
    BY <1>2, <1>3, <2>2 DEF LockEpisode
  <2>3. QED
    BY <2>1, <2>2
<1>4. CASE ReadJobs
  <2> DEFINE grabs == {e \in del.listed : job[e] # "none"}
  <2>1. /\ del.pc = "lock" /\ Leased = del.listed
        /\ del' = [del EXCEPT !.pc = "check", !.grabs = grabs]
        /\ UNCHANGED <<episode, lease, job, client, video, poll, overtaken, removed, outcome, lapses>>
    BY <1>4 DEF ReadJobs
  <2>2. grabs \subseteq del.listed /\ del.listed \subseteq Episodes
        /\ \A e \in del.listed : lease[e] = "delete" /\ (e \in grabs \/ job[e] = "none")
    BY <2>1 DEF Leased, DeleteShape, DelSteps
  <2> HIDE DEF grabs
  <2>3. /\ del' \in DelSteps /\ del'.pc = "check" /\ del'.grabs = grabs
        /\ UNCHANGED <<del.paths, del.listed>>
    BY <2>1, <2>2 DEF DeleteShape, DelSteps
  <2>4. DeleteShape'
    BY <2>1, <2>3 DEF DeleteShape
  <2>5. Stages' /\ Shrinking'
    BY <2>1, <2>2, <2>3 DEF Stages, Shrinking
  <2>6. QED
    BY <2>4, <2>5
<1>5. CASE CheckDelete
  <2>1. CASE Refuse
    BY <1>2, <1>5, <2>1 DEF CheckDelete
  <2>2. CASE ~Refuse
    <3> DEFINE todo == IF del.downloads THEN del.grabs ELSE {}
    <3>1. /\ del.pc = "check" /\ (del.downloads \/ \A e \in del.grabs : job[e] # "active")
          /\ del' = [del EXCEPT !.pc = "torrents", !.todo = todo]
          /\ UNCHANGED <<episode, lease, job, client, video, poll, overtaken, removed, outcome, lapses>>
      BY <1>5, <2>2 DEF CheckDelete
    <3>2. todo \in SUBSET Episodes
      BY DEF DeleteShape, DelSteps
    <3>3. (del.downloads => todo = del.grabs) /\ todo \subseteq del.grabs
      OBVIOUS
    <3> HIDE DEF todo
    <3>4. /\ del' \in DelSteps /\ del'.pc = "torrents" /\ del'.todo = todo
          /\ UNCHANGED <<del.paths, del.grabs, del.listed, del.downloads, del.files>>
      BY <3>1, <3>2 DEF DeleteShape, DelSteps
    <3>5. DeleteShape'
      BY <3>1, <3>4 DEF DeleteShape
    <3>6. Stages'
      BY <3>1, <3>3, <3>4 DEF Stages
    <3>7. ASSUME ~lapses.expired PROVE Shrinking'
      BY <3>1, <3>3, <3>4, <3>7 DEF Shrinking, Emptied, Stages
    <3>8. QED
      BY <3>1, <3>5, <3>6, <3>7
  <2>3. QED
    BY <2>1, <2>2
<1>6. QED
  BY <1>1, <1>3, <1>4, <1>5

(* The deletion from its first removal to its last.                        *)
LEMMA RemovingSteps ==
  ASSUME DeleteInv,
         MarkRemoved \/ StartFiles \/ DeleteRows \/ (\E e \in Episodes : RemoveData(e) \/ DeleteFile(e))
  PROVE  DeleteCore'
<1> USE DEF DeleteInv, DeleteCore
<1>1. ASSUME NEW e \in Episodes, RemoveData(e) PROVE DeleteCore'
  <2>1. /\ del.pc = "torrents" /\ e \in del.todo
        /\ client' = client \ {e} /\ removed' = TRUE
        /\ del' = [del EXCEPT !.pc = "mark", !.at = e]
        /\ UNCHANGED <<episode, lease, job, video, poll, overtaken, outcome, lapses>>
    BY <1>1 DEF RemoveData
  <2>2. /\ del' \in DelSteps /\ del'.pc = "mark" /\ del'.at = e
        /\ UNCHANGED <<del.paths, del.grabs, del.listed, del.downloads, del.files, del.todo>>
    BY <2>1 DEF DeleteShape, DelSteps, PollShapes, Somewhere
  <2>3. DeleteShape'
    BY <2>1, <2>2 DEF DeleteShape
  <2>4. Stages'
    BY <2>1, <2>2 DEF Stages
  <2>5. ASSUME ~lapses.expired PROVE Shrinking'
    BY <2>1, <2>2, <2>5 DEF Shrinking, Emptied, Stages
  <2>6. QED
    BY <2>1, <2>3, <2>4, <2>5
<1>2. CASE MarkRemoved
  <2>1. /\ del.pc = "mark" /\ job' = [job EXCEPT ![del.at] = "closed"]
        /\ del' = [del EXCEPT !.pc = "torrents", !.todo = del.todo \ {del.at}]
        /\ UNCHANGED <<episode, lease, client, video, poll, overtaken, removed, outcome, lapses>>
    BY <1>2 DEF MarkRemoved
  <2>2. /\ del' \in DelSteps /\ del'.pc = "torrents" /\ del'.todo = del.todo \ {del.at}
        /\ UNCHANGED <<del.paths, del.grabs, del.listed, del.downloads, del.files>>
    BY <2>1 DEF DeleteShape, DelSteps
  <2>3. DeleteShape'
    BY <2>1, <2>2 DEF DeleteShape
  <2>4. /\ job \in [Episodes -> {"none", "active", "imported", "closed"}] /\ del.at \in Episodes
        /\ del.at \in del.todo /\ client \subseteq Episodes /\ del.listed \subseteq Episodes
    BY <2>1 DEF Stages, DeleteShape, DelSteps
  <2>5. \A e \in Episodes : job'[e] = IF e = del.at THEN "closed" ELSE job[e]
    BY <2>1, <2>4
  <2>6. Stages'
    BY <2>1, <2>2, <2>4, <2>5 DEF Stages
  <2>7. ASSUME ~lapses.expired PROVE Shrinking'
    <3>1. del.at \notin client
      BY <2>1, <2>7 DEF Shrinking
    <3>2. \A e \in del.listed \ del.todo : Emptied(e)
      BY <2>1, <2>7 DEF Shrinking
    <3>3. \A e \in del'.listed \ del'.todo : Emptied(e)'
      BY <2>1, <2>2, <2>4, <2>5, <3>1, <3>2 DEF Emptied
    <3>4. \A e \in del.listed : lease[e] = "delete" /\ (e \in del.grabs \/ job[e] = "none")
      BY <2>1, <2>7 DEF Shrinking
    <3>5. del.at \in del.grabs
      BY <2>1, <2>4 DEF Stages
    <3>6. QED
      BY <2>1, <2>2, <2>4, <2>5, <3>3, <3>4, <3>5, <2>1 DEF Shrinking, Stages
  <2>8. QED
    BY <2>1, <2>3, <2>6, <2>7
<1>3. CASE StartFiles
  <2> DEFINE todo == IF del.files THEN del.paths ELSE {}
  <2>1. /\ del.pc = "torrents" /\ del.todo = {}
        /\ del' = [del EXCEPT !.pc = "files", !.todo = todo]
        /\ UNCHANGED <<episode, lease, job, client, video, poll, overtaken, removed, outcome, lapses>>
    BY <1>3 DEF StartFiles
  <2>2. todo \in SUBSET Episodes /\ (del.files => todo = del.paths) /\ todo \subseteq del.paths
    BY DEF DeleteShape, DelSteps
  <2> HIDE DEF todo
  <2>3. /\ del' \in DelSteps /\ del'.pc = "files" /\ del'.todo = todo
        /\ UNCHANGED <<del.paths, del.grabs, del.listed, del.downloads, del.files>>
    BY <2>1, <2>2 DEF DeleteShape, DelSteps
  <2>4. DeleteShape'
    BY <2>1, <2>3 DEF DeleteShape
  <2>5. Stages'
    BY <2>1, <2>2, <2>3 DEF Stages
  <2>6. ASSUME ~lapses.expired PROVE Shrinking'
    BY <2>1, <2>2, <2>3, <2>6 DEF Shrinking, Emptied, Stages
  <2>7. QED
    BY <2>1, <2>4, <2>5, <2>6
<1>4. ASSUME NEW e \in Episodes, DeleteFile(e) PROVE DeleteCore'
  <2>1. /\ del.pc = "files" /\ e \in del.todo
        /\ video' = video \ {e} /\ removed' = TRUE /\ del' = [del EXCEPT !.todo = del.todo \ {e}]
        /\ UNCHANGED <<episode, lease, job, client, poll, overtaken, outcome, lapses>>
    BY <1>4 DEF DeleteFile
  <2>2. /\ del' \in DelSteps /\ del'.pc = "files" /\ del'.todo = del.todo \ {e}
        /\ UNCHANGED <<del.paths, del.grabs, del.listed, del.downloads, del.files>>
    BY <2>1 DEF DeleteShape, DelSteps
  <2>3. DeleteShape'
    BY <2>1, <2>2 DEF DeleteShape
  <2>4. Stages'
    BY <2>1, <2>2 DEF Stages
  <2>5. ASSUME ~lapses.expired PROVE Shrinking'
    BY <2>1, <2>2, <2>5 DEF Shrinking, Emptied, Stages
  <2>6. QED
    BY <2>1, <2>3, <2>4, <2>5
<1>5. CASE DeleteRows
  <2>1. /\ del.pc = "files" /\ del.todo = {}
        /\ episode' = [e \in Episodes |-> [row |-> FALSE, path |-> "none"]]
        /\ del' = [del EXCEPT !.pc = "idle"] /\ outcome' = "done"
        /\ lease' = [e \in Episodes |-> IF lease[e] = "delete" THEN "free" ELSE lease[e]]
        /\ UNCHANGED <<job, client, video, poll, overtaken, removed, lapses>>
    BY <1>5 DEF DeleteRows, ReleaseAll
  <2>2. /\ del' \in DelSteps /\ del'.pc = "idle"
        /\ UNCHANGED <<del.paths, del.grabs, del.listed, del.downloads, del.files, del.todo>>
    BY <2>1 DEF DeleteShape, DelSteps
  <2>3. lease' \in [Episodes -> {"free", "search", "delete"}]
    BY <2>1 DEF DeleteShape
  <2>4. DeleteShape'
    BY <2>1, <2>2, <2>3 DEF DeleteShape
  <2>5. Stages'
    BY <2>1, <2>2 DEF Stages
  <2>6. ASSUME ~lapses.expired PROVE Shrinking'
    BY <2>1, <2>2, <2>6 DEF Shrinking, Emptied, Stages
  <2>7. QED
    BY <2>1, <2>4, <2>5, <2>6
<1>6. QED
  BY <1>1, <1>2, <1>3, <1>4, <1>5

(* A step that fails, and a lease that expires, after which nothing is     *)
(* promised but that a refusal removed nothing.                            *)
LEMMA FailingSteps ==
  ASSUME DeleteInv, DeleteFails \/ \E e \in Episodes : LeaseExpires(e)
  PROVE  DeleteCore'
<1> USE DEF DeleteInv, DeleteCore
<1>1. CASE DeleteFails
  <2>1. /\ del' = [del EXCEPT !.pc = "idle"] /\ outcome' = "failed"
        /\ UNCHANGED <<episode, job, client, video, poll, overtaken, removed>>
        /\ lapses.failures > 0 /\ lapses' = [lapses EXCEPT !.failures = lapses.failures - 1]
        /\ lease' \in [Episodes -> {"free", "search", "delete"}]
    BY <1>1 DEF DeleteFails, Lapse, ReleaseAll, DeleteShape
  <2>2. del' \in DelSteps /\ del'.pc = "idle" /\ UNCHANGED <<del.paths, del.grabs, del.listed>>
    BY <2>1 DEF DeleteShape, DelSteps
  <2>3. DeleteShape'
    BY <2>1, <2>2 DEF DeleteShape
  <2>4. Stages' /\ Shrinking'
    BY <2>1, <2>2 DEF Stages, Shrinking
  <2>5. QED
    BY <2>3, <2>4
<1>2. ASSUME NEW e \in Episodes, LeaseExpires(e) PROVE DeleteCore'
  <2>1. /\ lease' = [lease EXCEPT ![e] = "free"] /\ lapses' = [lapses EXCEPT !.expired = TRUE]
        /\ UNCHANGED <<episode, job, client, video, poll, overtaken, del, removed, outcome>>
    BY <1>2 DEF LeaseExpires
  <2>2. DeleteShape' /\ lapses'.expired
    BY <2>1 DEF DeleteShape, DelSteps, PollShapes, Somewhere
  <2>3. Stages'
    BY <2>1 DEF Stages
  <2>4. QED
    BY <2>2, <2>3
<1>3. QED
  BY <1>1, <1>2

(* A metadata pass and a search: an episode with a lease of the deletion   *)
(* is not searched.                                                        *)
LEMMA SearchingSteps ==
  ASSUME DeleteInv, NEW e \in Episodes, AddEpisode(e) \/ StartSearch(e) \/ GrabRelease(e)
  PROVE  DeleteCore'
<1> USE DEF DeleteInv, DeleteCore
<1>1. CASE AddEpisode(e)
  <2>1. /\ outcome # "done" /\ episode' = [episode EXCEPT ![e].row = TRUE]
        /\ UNCHANGED <<lease, job, client, video, poll, overtaken, del, removed, outcome, lapses>>
    BY <1>1 DEF AddEpisode, Rows, Stages
  <2>2. DeleteShape'
    <3>1. episode' \in [Episodes -> [row : BOOLEAN, path : {"none", "inside", "outside"}]]
      <4> DEFINE Kept == [row : BOOLEAN, path : {"none", "inside", "outside"}]
                 new == [episode[e] EXCEPT !.row = TRUE]
      <4>1. episode \in [Episodes -> Kept]
        BY DEF DeleteShape
      <4>2. new \in Kept
        BY <4>1
      <4>3. episode' = [episode EXCEPT ![e] = new]
        BY <2>1
      <4> HIDE DEF new, Kept
      <4>4. episode' \in [Episodes -> Kept]
        BY <4>1, <4>2, <4>3
      <4>5. QED
        BY <4>4 DEF Kept
    <3>2. QED
      BY <2>1, <3>1 DEF DeleteShape, DelSteps, PollShapes, Somewhere
  <2>3. Stages' /\ (Shrinking => Shrinking')
    BY <2>1 DEF Stages, Shrinking, Emptied
  <2>4. QED
    BY <2>1, <2>2, <2>3
<1>2. CASE StartSearch(e)
  <2>1. /\ lease[e] = "free" /\ lease' = [lease EXCEPT ![e] = "search"]
        /\ UNCHANGED <<episode, job, client, video, poll, overtaken, del, removed, outcome, lapses>>
    BY <1>2 DEF StartSearch
  <2>2. DeleteShape'
    BY <2>1 DEF DeleteShape, DelSteps, PollShapes, Somewhere
  <2>3. Stages'
    BY <2>1 DEF Stages
  <2>4. Shrinking => Shrinking'
    BY <2>1 DEF Shrinking, Emptied
  <2>5. QED
    BY <2>1, <2>2, <2>3, <2>4
<1>3. CASE GrabRelease(e)
  <2>1. /\ lease[e] = "search" /\ episode[e].row
        /\ client' = client \cup {e} /\ job' = [job EXCEPT ![e] = "active"]
        /\ lease' = [lease EXCEPT ![e] = "free"]
        /\ poll' = [poll EXCEPT !.rows = poll.rows \ {e}]
        /\ UNCHANGED <<episode, video, overtaken, del, removed, outcome, lapses>>
    BY <1>3 DEF GrabRelease, Rows
  <2>2. DeleteShape'
    <3>1. /\ job' \in [Episodes -> {"none", "active", "imported", "closed"}]
          /\ lease' \in [Episodes -> {"free", "search", "delete"}]
          /\ client' \subseteq Episodes /\ poll' \in PollShapes
      BY <2>1 DEF DeleteShape, PollShapes
    <3>2. QED
      BY <2>1, <3>1 DEF DeleteShape, DelSteps, PollShapes, Somewhere
  <2>3. outcome # "done"
    BY <2>1 DEF Stages
  <2>4. \A f \in Episodes : /\ job'[f] = IF f = e THEN "active" ELSE job[f]
                            /\ lease'[f] = IF f = e THEN "free" ELSE lease[f]
    BY <2>1 DEF DeleteShape
  <2>5. Stages'
    BY <2>1, <2>4 DEF Stages, DeleteShape
  <2>6. ASSUME Shrinking PROVE Shrinking'
    <3>1. /\ del.listed \subseteq Episodes /\ del.paths \subseteq Episodes /\ del.at \in Somewhere
          /\ del.pc \in {"idle", "lock", "check", "torrents", "mark", "files"}
      BY DEF DeleteShape, DelSteps
    <3>2. del.pc \in {"check", "torrents", "mark", "files"} => e \notin del.listed
      BY <2>1, <2>6 DEF Shrinking
    <3>3. \A f \in Episodes \ {e} : Emptied(f) => Emptied(f)'
      BY <2>1, <2>4 DEF Emptied
    <3>4. del.pc = "mark" => del.at \notin client'
      <4> SUFFICES ASSUME del.pc = "mark" PROVE del.at \notin client'
        OBVIOUS
      <4>1. del.at \in del.listed /\ del.at \notin client
        BY <2>6 DEF Shrinking, Stages
      <4>2. QED
        BY <2>1, <3>2, <4>1
    <3>5. QED
      BY <2>1, <2>3, <2>4, <2>6, <3>1, <3>2, <3>3, <3>4 DEF Shrinking
  <2>7. QED
    BY <2>1, <2>2, <2>5, <2>6
<1>4. QED
  BY <1>1, <1>2, <1>3

(* What the status loop writes: a row that is not none becomes one that is *)
(* not none, and where it becomes active over a closed one, or a file      *)
(* comes to a closed one, the loop has overtaken the deletion.             *)
LEMMA LoopWrites ==
  ASSUME DeleteInv, NEW e \in Episodes, job[e] # "none",
         NEW state \in {"active", "imported", "closed"},
         job' = [job EXCEPT ![e] = state],
         state = "active" => overtaken' = Overtaking(e) /\ job[e] \in {"active", "closed"},
         overtaken \subseteq overtaken', overtaken' \subseteq overtaken \cup {e},
         poll' \in PollShapes,
         UNCHANGED <<episode, lease, client, video, del, removed, outcome, lapses>>
  PROVE  DeleteCore'
<1> USE DEF DeleteInv, DeleteCore
<1>1. DeleteShape'
  BY DEF DeleteShape, DelSteps, PollShapes, Somewhere
<1>2. \A f \in Episodes : job'[f] = IF f = e THEN state ELSE job[f]
  BY DEF DeleteShape
<1>3. Stages'
  BY <1>2 DEF Stages, DeleteShape
<1>4. ASSUME Shrinking PROVE Shrinking'
  <2>1. del.listed \subseteq Episodes /\ del.paths \subseteq Episodes
    BY DEF DeleteShape, DelSteps
  <2>2. \A f \in Episodes : Emptied(f) => Emptied(f)'
    BY <1>2 DEF Emptied, Overtaking
  <2>3. QED
    BY <1>2, <1>4, <2>1, <2>2 DEF Shrinking
<1>5. QED
  BY <1>1, <1>3, <1>4

LEMMA PollingSteps ==
  ASSUME DeleteInv, PollReads \/ PlaceFile \/ ImportRefused
                      \/ \E e \in Episodes : PollWrites(e) \/ StartCopy(e)
  PROVE  DeleteCore'
<1> USE DEF DeleteInv, DeleteCore
<1>1. CASE PollReads
  <2>1. UNCHANGED <<episode, lease, job, client, video, overtaken, del, removed, outcome, lapses>>
        /\ poll' \in PollShapes
    BY <1>1 DEF PollReads, DeleteShape, PollShapes
  <2>2. DeleteShape' /\ Stages' /\ (Shrinking => Shrinking')
    BY <2>1 DEF DeleteShape, DelSteps, Somewhere, Stages, Shrinking, Emptied
  <2>3. QED
    BY <2>1, <2>2
<1>2. ASSUME NEW e \in Episodes, PollWrites(e) PROVE DeleteCore'
  <2>1. /\ job[e] \in {"active", "closed"} /\ poll' \in PollShapes
        /\ UNCHANGED <<episode, lease, client, video, del, removed, outcome, lapses>>
    BY <1>2 DEF PollWrites, Handled, DeleteShape, PollShapes
  <2>2. CASE job' = [job EXCEPT ![e] = "active"] /\ overtaken' = Overtaking(e)
    BY <2>1, <2>2, LoopWrites DEF Overtaking
  <2>3. CASE job' = [job EXCEPT ![e] = "closed"] /\ UNCHANGED overtaken
    BY <2>1, <2>3, LoopWrites
  <2>4. QED
    BY <1>2, <2>2, <2>3 DEF PollWrites
<1>3. ASSUME NEW e \in Episodes, StartCopy(e) PROVE DeleteCore'
  <2>1. /\ job[e] \in {"active", "closed"} /\ poll' \in PollShapes
        /\ UNCHANGED <<episode, lease, client, video, del, removed, outcome, lapses>>
        /\ job' = [job EXCEPT ![e] = "active"] /\ overtaken' = Overtaking(e)
    BY <1>3 DEF StartCopy, Handled, DeleteShape, PollShapes, Somewhere
  <2>2. QED
    BY <2>1, LoopWrites DEF Overtaking
<1>4. CASE ImportRefused
  <2>1. /\ poll.at \in Episodes /\ job[poll.at] \in {"active", "closed"} /\ poll' \in PollShapes
        /\ UNCHANGED <<episode, lease, client, video, overtaken, del, removed, outcome, lapses>>
        /\ job' = [job EXCEPT ![poll.at] = "closed"]
    BY <1>4 DEF ImportRefused, Handled, DeleteShape, PollShapes
  <2>2. QED
    BY <2>1, LoopWrites
<1>5. CASE PlaceFile
  <2>1. /\ poll.at \in Episodes /\ job[poll.at] \in {"active", "closed"} /\ poll' \in PollShapes
        /\ video' = video \cup {poll.at} /\ overtaken' = Overtaking(poll.at)
        /\ UNCHANGED <<episode, lease, job, client, del, removed, outcome, lapses>>
    BY <1>5 DEF PlaceFile, Handled, DeleteShape, PollShapes
  <2>2. /\ overtaken' \subseteq Episodes /\ overtaken \subseteq overtaken'
        /\ job[poll.at] = "closed" => poll.at \in overtaken'
    BY <2>1 DEF Overtaking, DeleteShape
  <2>3. DeleteShape'
    BY <2>1, <2>2 DEF DeleteShape, DelSteps, PollShapes, Somewhere
  <2>4. Stages'
    BY <2>1 DEF Stages
  <2>5. ASSUME Shrinking PROVE Shrinking'
    <3>1. \A f \in Episodes : Emptied(f) => Emptied(f)'
      BY <2>1, <2>2 DEF Emptied
    <3>2. del.listed \subseteq Episodes /\ del.paths \subseteq del.listed
      BY DEF DeleteShape, DelSteps, Stages
    <3>3. ASSUME del.pc = "files" \/ outcome = "done", poll.at \in del.listed
          PROVE  poll.at \in overtaken'
      BY <2>1, <2>2, <2>5, <3>3 DEF Shrinking, Emptied
    <3>4. QED
      BY <2>1, <2>2, <2>5, <3>1, <3>2, <3>3 DEF Shrinking
  <2>6. QED
    BY <2>1, <2>3, <2>4, <2>5
<1>6. QED
  BY <1>1, <1>2, <1>3, <1>4, <1>5

(* Marking needs the lease, which the deletion holds while it works.       *)
LEMMA MarkingStep ==
  ASSUME DeleteInv, MarkImport
  PROVE  DeleteCore'
<1> USE DEF DeleteInv, DeleteCore
<1> DEFINE e == poll.at
<1>1. /\ e \in Episodes /\ episode[e].row /\ lease[e] = "free"
      /\ job' = [job EXCEPT ![e] = "imported"] /\ poll' \in PollShapes
      /\ episode' = [episode EXCEPT ![e].path = "inside"]
      /\ UNCHANGED <<lease, client, video, overtaken, del, removed, outcome, lapses>>
  BY DEF MarkImport, Rows, Handled, DeleteShape, PollShapes
<1> HIDE DEF e
<1>2. DeleteShape'
  BY <1>1 DEF DeleteShape, DelSteps, PollShapes, Somewhere
<1>3. outcome # "done"
  BY <1>1 DEF Stages
<1>4. \A f \in Episodes : job'[f] = IF f = e THEN "imported" ELSE job[f]
  BY <1>1 DEF DeleteShape
<1>5. Stages'
  BY <1>1, <1>3, <1>4 DEF Stages, DeleteShape
<1>6. ASSUME Shrinking PROVE Shrinking'
  <2>1. del.listed \subseteq Episodes
    BY DEF DeleteShape, DelSteps
  <2>2. del.pc \in {"check", "torrents", "mark", "files"} => e \notin del.listed
    BY <1>1, <1>6 DEF Shrinking
  <2>3. \A f \in Episodes \ {e} : Emptied(f) => Emptied(f)'
    BY <1>1, <1>4 DEF Emptied
  <2>4. QED
    BY <1>1, <1>3, <1>4, <1>6, <2>1, <2>2, <2>3 DEF Shrinking
<1>7. QED
  BY <1>1, <1>2, <1>5, <1>6

(* Rows in the hands of the status loop were active and may have been      *)
(* closed since.                                                           *)
LEMMA HandlingSteps == DeleteInv /\ [DeleteNext]_deleteVars => Handled'
<1> SUFFICES ASSUME DeleteInv, [DeleteNext]_deleteVars PROVE Handled'
  OBVIOUS
<1> USE DEF DeleteInv, DeleteCore, Handled
<1>1. CASE UNCHANGED <<job, poll>>
  BY <1>1
<1>2. CASE MarkRemoved
  BY <1>2 DEF MarkRemoved, DeleteShape, PollShapes
<1>3. ASSUME NEW e \in Episodes, GrabRelease(e) PROVE Handled'
  BY <1>3 DEF GrabRelease, DeleteShape, PollShapes
<1>4. CASE PollReads
  BY <1>4 DEF PollReads, DeleteShape, PollShapes
<1>5. ASSUME NEW e \in Episodes, PollWrites(e) PROVE Handled'
  BY <1>5 DEF PollWrites, DeleteShape, PollShapes
<1>6. ASSUME NEW e \in Episodes, StartCopy(e) PROVE Handled'
  BY <1>6 DEF StartCopy, DeleteShape, PollShapes
<1>7. CASE PlaceFile
  BY <1>7 DEF PlaceFile, DeleteShape, PollShapes
<1>8. CASE MarkImport \/ ImportRefused
  BY <1>8 DEF MarkImport, ImportRefused, DeleteShape, PollShapes
<1>9. CASE ReadJobs \/ CheckDelete \/ StartFiles \/ DeleteRows \/ DeleteFails
             \/ (\E e \in Episodes : LockEpisode(e) \/ RemoveData(e) \/ DeleteFile(e))
             \/ (\E files, downloads \in BOOLEAN : ListEpisodes(files, downloads))
             \/ (\E e \in Episodes : LeaseExpires(e) \/ AddEpisode(e) \/ StartSearch(e))
  BY <1>1, <1>9 DEF ReadJobs, CheckDelete, Refuse, StartFiles, DeleteRows, DeleteFails, LockEpisode,
     RemoveData, DeleteFile, ListEpisodes, LeaseExpires, AddEpisode, StartSearch
<1>10. QED
  BY <1>1, <1>2, <1>3, <1>4, <1>5, <1>6, <1>7, <1>8, <1>9 DEF DeleteNext, DeletionStep, deleteVars

LEMMA DeleteStep == DeleteInv /\ [DeleteNext]_deleteVars => DeleteInv'
<1> SUFFICES ASSUME DeleteInv, [DeleteNext]_deleteVars PROVE DeleteInv'
  OBVIOUS
<1>1. CASE UNCHANGED deleteVars
  <2>1. UNCHANGED <<episode, lease, job, client, video, poll, overtaken, del, removed, outcome, lapses>>
    BY <1>1 DEF deleteVars
  <2>2. DeleteShape'
    BY <2>1 DEF DeleteInv, DeleteCore, DeleteShape, DelSteps, PollShapes, Somewhere
  <2>3. Stages' /\ (Shrinking => Shrinking')
    BY <2>1 DEF DeleteInv, DeleteCore, Stages, Shrinking, Emptied
  <2>4. QED
    BY <2>1, <2>2, <2>3, HandlingSteps DEF DeleteInv, DeleteCore
<1>2. CASE DeleteNext
  BY <1>2, CheckingSteps, RemovingSteps, FailingSteps, SearchingSteps, PollingSteps, MarkingStep,
     HandlingSteps DEF DeleteNext, DeletionStep, DeleteInv
<1>3. QED
  BY <1>1, <1>2

(* A deletion that refuses has removed nothing, and one that succeeds      *)
(* under its leases left nothing of what it listed but what the status     *)
(* loop brought back from before (prepareCollectionDelete in               *)
(* api/collection.go against status.go).                                   *)
THEOREM DeletionsAreWhole == DeleteSpec => []DeletionIsWhole
<1>1. DeleteInv => DeletionIsWhole
  <2> SUFFICES ASSUME DeleteInv PROVE DeletionIsWhole
    OBVIOUS
  <2>1. outcome = "refused" => ~removed
    BY DEF DeleteInv, DeleteCore, Stages, DeleteShape, DelSteps
  <2>2. ASSUME outcome = "done", ~lapses.expired
        PROVE  /\ del.downloads => del.listed \cap client = {}
               /\ \A e \in del.listed \ overtaken : job[e] # "active"
               /\ del.files => del.paths \cap video \subseteq overtaken
    <3>1. del.pc # "files" /\ Shrinking
      BY <2>2 DEF DeleteInv, DeleteCore, Stages
    <3>2. QED
      BY <2>2, <3>1 DEF Shrinking, Emptied
  <2>3. QED
    BY <2>1, <2>2 DEF DeletionIsWhole
<1>2. QED
  BY <1>1, DeleteStarts, DeleteStep, PTL DEF DeleteSpec

-------------------------------------------------------------------------------
(* Scoring.                                                                *)

(* The winner of an answer is a release of it that passes every filter.    *)
LEMMA BestIsAcceptable ==
  ASSUME NEW pool \in Offers, NEW answer \in SetToSeqs(pool), Best(answer) # NoRelease
  PROVE  Best(answer) \in pool /\ Acceptable(Best(answer))
<1> DEFINE accepted == {i \in DOMAIN answer : Acceptable(answer[i])}
           unbeaten == {i \in accepted : \A j \in accepted : ~Beats(answer[j], answer[i])}
<1>1. Cardinality(pool) \in Nat
  BY ScoringAssumption, FS_CardinalityType
<1>2. answer \in [1 .. Cardinality(pool) -> pool]
  BY DEF SetToSeqs
<1>3. unbeaten # {} /\ Best(answer) = answer[Min(unbeaten)]
  BY DEF Best
<1>4. unbeaten \in SUBSET Nat
  BY <1>1, <1>2
<1> HIDE DEF unbeaten
<1>5. \E n \in unbeaten : \A m \in unbeaten : n <= m
  BY <1>3, <1>4, SmallestOf
<1>6. Min(unbeaten) \in unbeaten
  BY <1>5 DEF Min
<1>7. Min(unbeaten) \in DOMAIN answer /\ Acceptable(answer[Min(unbeaten)])
  BY <1>6 DEF unbeaten
<1>8. QED
  BY <1>2, <1>3, <1>7

(* A field of a label from the third on is found among the third and later *)
(* ones (importedQuality in targets.go).                                   *)
LEMMA LaterFields ==
  ASSUME NEW S, NEW s \in Seq(S), NEW i \in 3 .. Len(s)
  PROVE  s[i] \in Range(SubSeq(s, 3, Len(s)))
<1>1. Len(s) \in Nat /\ 3 \in Int /\ \A j \in 3 .. Len(s) : s[j] \in S
  OBVIOUS
<1>2. /\ SubSeq(s, 3, Len(s)) \in Seq(S)
      /\ Len(SubSeq(s, 3, Len(s))) = IF 3 <= Len(s) THEN Len(s) - 3 + 1 ELSE 0
      /\ \A j \in 1 .. Len(s) - 3 + 1 : SubSeq(s, 3, Len(s))[j] = s[3 + j - 1]
  BY <1>1, SubSeqProperties
<1>3. i - 2 \in 1 .. Len(s) - 3 + 1 /\ 3 + (i - 2) - 1 = i
  BY <1>1
<1>4. SubSeq(s, 3, Len(s))[i - 2] = s[i] /\ i - 2 \in DOMAIN SubSeq(s, 3, Len(s))
  BY <1>1, <1>2, <1>3
<1>5. QED
  BY <1>4 DEF Range

LEMMA OneAfterAnother ==
  ASSUME NEW S, NEW a \in S, NEW b \in S
  PROVE  /\ <<a>> \in Seq(S) /\ <<>> \in Seq(S)
         /\ <<a>> \o <<b>> \in Seq(S) /\ Len(<<a>> \o <<b>>) = 2
         /\ (<<a>> \o <<b>>)[1] = a /\ (<<a>> \o <<b>>)[2] = b
         /\ <<a>> \o <<>> = <<a>>
  OBVIOUS

(* What a label tells of a name with a resolution and a source or codec:   *)
(* the resolution, the source if known, and whether it is a fix.           *)
LEMMA LabelTells ==
  ASSUME NEW r, label = QualityLabel(r), Told(r)
  PROVE  /\ Len(label) \in Nat /\ Len(label) >= 2 /\ Field(1) = r.resolution
         /\ Field(2) \in {r.source, r.codec} /\ (Field(2) = r.source \/ r.source = "")
         /\ Fix(r) => Fixed(label)
<1> DEFINE A == {r.resolution, r.source, r.codec, "proper", "repack"}
           ab == Stated(r.resolution) \o Stated(r.source)
           abc == ab \o Stated(r.codec)
           p == IF r.proper THEN <<"proper">> ELSE <<>>
           q == IF r.repack THEN <<"repack">> ELSE <<>>
           known(x) == x # ""
<1>1. known(r.resolution) /\ (known(r.source) \/ known(r.codec))
  BY DEF Told
<1>b. r.resolution \in A /\ r.source \in A /\ r.codec \in A
  OBVIOUS
<1>2. \A x : Stated(x) = IF known(x) THEN <<x>> ELSE <<>>
  BY Zenon DEF Stated
<1> HIDE DEF known
<1>3. label = (abc \o p) \o q
  BY DEF QualityLabel
<1>a. /\ Stated(r.resolution) \in Seq(A) /\ Stated(r.source) \in Seq(A)
      /\ Stated(r.codec) \in Seq(A) /\ p \in Seq(A) /\ q \in Seq(A)
  <2>1. \A x \in A : <<x>> \in Seq(A) /\ <<>> \in Seq(A)
    <3> HIDE DEF A
    <3>1. QED
      BY OneAfterAnother
  <2>2. {r.resolution, r.source, r.codec, "proper", "repack"} \subseteq A
    OBVIOUS
  <2> HIDE DEF A
  <2>3. QED
    BY <1>2, <2>1, <2>2
<1>4. /\ r.proper => Len(p) = 1 /\ p[1] = "proper"
      /\ r.repack => Len(q) = 1 /\ q[1] = "repack"
  OBVIOUS
<1> HIDE DEF p, q, A
<1>5. /\ abc \in Seq(A) /\ Len(abc) >= 2 /\ abc[1] = r.resolution
      /\ abc[2] = IF known(r.source) THEN r.source ELSE r.codec
  <2>1. CASE known(r.source)
    <3>1. ab = <<r.resolution>> \o <<r.source>>
      BY <1>1, <1>2, <2>1, Zenon
    <3> DEFINE x == r.resolution
               y == r.source
    <3>x. x \in A /\ y \in A
      BY <1>b
    <3> HIDE DEF x, y
    <3>y. /\ <<x>> \o <<y>> \in Seq(A) /\ Len(<<x>> \o <<y>>) = 2
          /\ (<<x>> \o <<y>>)[1] = x /\ (<<x>> \o <<y>>)[2] = y
      BY <3>x, OneAfterAnother
    <3>2. ab \in Seq(A) /\ Len(ab) = 2 /\ ab[1] = r.resolution /\ ab[2] = r.source
      BY <3>1, <3>y, Zenon DEF x, y
    <3> DEFINE c == Stated(r.codec)
    <3>3. c \in Seq(A)
      BY <1>a
    <3> HIDE DEF ab, c
    <3>4. /\ ab \o c \in Seq(A) /\ Len(ab \o c) >= 2
          /\ (ab \o c)[1] = ab[1] /\ (ab \o c)[2] = ab[2]
      <4>1. ab \in Seq(A) /\ c \in Seq(A)
        BY <3>2, <3>3
      <4>2. /\ ab \o c \in Seq(A) /\ Len(ab \o c) = Len(ab) + Len(c)
            /\ \A i \in 1 .. Len(ab) + Len(c) :
                 (ab \o c)[i] = IF i <= Len(ab) THEN ab[i] ELSE c[i - Len(ab)]
        BY <4>1, ConcatProperties
      <4>3. Len(ab) = 2 /\ Len(c) \in Nat
        BY <3>2, <4>1
      <4>4. QED
        BY <4>2, <4>3
    <3>5. QED
      BY <2>1, <3>2, <3>4, Zenon DEF c
  <2>2. CASE ~known(r.source)
    <3>1. ab = <<r.resolution>> \o <<>> /\ Stated(r.codec) = <<r.codec>>
      BY <1>1, <1>2, <2>2, Zenon
    <3>2. abc = <<r.resolution>> \o <<r.codec>>
      BY <1>b, <3>1, OneAfterAnother, Zenon
    <3> DEFINE x == r.resolution
               y == r.codec
    <3>x. x \in A /\ y \in A
      BY <1>b
    <3> HIDE DEF x, y
    <3>y. /\ <<x>> \o <<y>> \in Seq(A) /\ Len(<<x>> \o <<y>>) = 2
          /\ (<<x>> \o <<y>>)[1] = x /\ (<<x>> \o <<y>>)[2] = y
      BY <3>x, OneAfterAnother
    <3>3. abc \in Seq(A) /\ Len(abc) = 2 /\ abc[1] = r.resolution /\ abc[2] = r.codec
      BY <3>2, <3>y, Zenon DEF x, y
    <3> HIDE DEF abc
    <3>4. QED
      BY <2>2, <3>3
  <2>3. QED
    BY <2>1, <2>2
<1> HIDE DEF abc
<1> DEFINE abcp == abc \o p
<1>6. /\ abcp \in Seq(A) /\ Len(abcp) = Len(abc) + Len(p) /\ Len(abc) \in Nat /\ Len(p) \in Nat
      /\ \A i \in 1 .. Len(abc) + Len(p) : abcp[i] = IF i <= Len(abc) THEN abc[i] ELSE p[i - Len(abc)]
  BY <1>a, <1>5, ConcatProperties
<1>7. /\ label \in Seq(A) /\ Len(label) = Len(abcp) + Len(q) /\ Len(q) \in Nat /\ Len(abcp) \in Nat
      /\ \A i \in 1 .. Len(abcp) + Len(q) : label[i] = IF i <= Len(abcp) THEN abcp[i] ELSE q[i - Len(abcp)]
  <2> HIDE DEF abcp
  <2>1. label = abcp \o q
    BY <1>3 DEF abcp
  <2>2. /\ abcp \o q \in Seq(A) /\ Len(abcp \o q) = Len(abcp) + Len(q) /\ Len(q) \in Nat /\ Len(abcp) \in Nat
        /\ \A i \in 1 .. Len(abcp) + Len(q) :
             (abcp \o q)[i] = IF i <= Len(abcp) THEN abcp[i] ELSE q[i - Len(abcp)]
    <3>1. abcp \in Seq(A) /\ q \in Seq(A)
      BY <1>a, <1>6
    <3>2. Len(q) \in Nat /\ Len(abcp) \in Nat
      BY <3>1
    <3>3. QED
      BY <3>1, <3>2, ConcatProperties
  <2>3. QED
    BY <2>1, <2>2
<1> HIDE DEF abcp
<1>8. Len(label) >= 2 /\ label[1] = abc[1] /\ label[2] = abc[2]
  BY <1>5, <1>6, <1>7
<1>9. r.proper => Fixed(label)
  <2> SUFFICES ASSUME r.proper PROVE Fixed(label)
    OBVIOUS
  <2> DEFINE i == Len(abc) + 1
  <2>a. Len(p) = 1 /\ p[1] = "proper"
    BY <1>4
  <2>b. /\ i - Len(abc) = 1 /\ ~(i <= Len(abc)) /\ i \in 1 .. Len(abc) + Len(p)
        /\ i \in 3 .. Len(label)
    BY <1>5, <1>6, <1>7, <2>a
  <2>1. i \in 3 .. Len(label) /\ label[i] = "proper"
    BY <1>6, <1>7, <2>a, <2>b
  <2> HIDE DEF i
  <2>2. "proper" \in Range(SubSeq(label, 3, Len(label)))
    BY <1>7, <2>1, LaterFields
  <2>3. QED
    BY <2>2 DEF Fixed
<1>10. r.repack => Fixed(label)
  <2> SUFFICES ASSUME r.repack PROVE Fixed(label)
    OBVIOUS
  <2> DEFINE i == Len(abcp) + 1
  <2>a. Len(q) = 1 /\ q[1] = "repack"
    BY <1>4
  <2>b. /\ i - Len(abcp) = 1 /\ ~(i <= Len(abcp)) /\ i \in 1 .. Len(abcp) + Len(q)
        /\ i \in 3 .. Len(label)
    BY <1>5, <1>6, <1>7, <2>a
  <2>1. i \in 3 .. Len(label) /\ label[i] = "repack"
    BY <1>6, <1>7, <2>a, <2>b
  <2> HIDE DEF i
  <2>2. "repack" \in Range(SubSeq(label, 3, Len(label)))
    BY <1>7, <2>1, LaterFields
  <2>3. QED
    BY <2>2 DEF Fixed
<1>11. Len(label) \in Nat /\ Len(label) >= 2
  BY <1>7, <1>8
<1>12. 1 <= Len(label) /\ 2 <= Len(label)
  BY <1>11
<1>13. Field(1) = label[1] /\ Field(2) = label[2]
  BY <1>12, Zenon DEF Field
<1>14. QED
  BY <1>5, <1>8, <1>9, <1>10, <1>11, <1>13, Zenon DEF Fix, known

(* What was taken is an upgrade of what the label says, and the label is   *)
(* that of the name of the file.                                           *)
ScoringInv ==
  /\ ScoringTypeOK
  /\ winner # NoRelease => IsUpgrade(winner)
  /\ label = QualityLabel(named)
  /\ \A p \in Profiles : {"", named.codec} \cap Range(p.sources) = {}

(* No source is taken for a codec by what the importer reads in a name.    *)
LEMMA NamesAreRead ==
  ASSUME NEW r \in UNION Offers, NEW file \in FileNames \cup {ReleaseName(r)}, NEW p \in Profiles
  PROVE  {"", ParseSource(file, r).codec} \cap Range(p.sources) = {}
<1>1. file.codec = r.codec \/ file \in FileNames
  BY DEF ReleaseName
<1>2. ParseSource(file, r).codec \in {file.codec, r.codec}
  BY DEF ParseSource
<1>3. ParseSource(file, r).codec \in {x.codec : x \in FileNames \cup UNION Offers}
  BY <1>1, <1>2
<1>4. Range(p.sources) \cap ({""} \cup {x.codec : x \in FileNames \cup UNION Offers}) = {}
  BY ScoringAssumption
<1> DEFINE C == {x.codec : x \in FileNames \cup UNION Offers}
           S == Range(p.sources)
           c == ParseSource(file, r).codec
<1>5. c \in C /\ S \cap ({""} \cup C) = {}
  BY <1>3, <1>4
<1> HIDE DEF C, S, c
<1>6. {"", c} \cap S = {}
  BY <1>5
<1> QED
  BY <1>6 DEF S, c

LEMMA ScoringStarts == ScoringInit => ScoringInv
<1>1. NoName.codec = "" /\ QualityLabel(NoName) = <<>>
  <2>1. /\ NoName.resolution = "" /\ NoName.source = "" /\ NoName.codec = ""
        /\ ~NoName.proper /\ ~NoName.repack
    BY DEF NoName
  <2>2. QualityLabel(NoName) = ((<<>> \o <<>> \o <<>>) \o <<>>) \o <<>>
    BY <2>1, Zenon DEF QualityLabel, Stated
  <2>3. ((<<>> \o <<>> \o <<>>) \o <<>>) \o <<>> = <<>>
    OBVIOUS
  <2> QED
    BY <2>1, <2>2, <2>3
<1>2. \A p \in Profiles : {"", NoName.codec} \cap Range(p.sources) = {}
  BY <1>1, ScoringAssumption
<1> QED
  BY <1>1, <1>2 DEF ScoringInit, ScoringInv, ScoringTypeOK

LEMMA ScoringStep == ScoringInv /\ [ScoringNext]_scoringVars => ScoringInv'
<1> SUFFICES ASSUME ScoringInv, [ScoringNext]_scoringVars PROVE ScoringInv'
  OBVIOUS
<1> USE DEF ScoringInv, ScoringTypeOK
<1>1. CASE Import
  <2>1. PICK file \in FileNames \cup {ReleaseName(winner)} :
          named' = ParseSource(file, winner) /\ label' = QualityLabel(named')
    BY <1>1 DEF Import
  <2>2. winner \in UNION Offers
    BY <1>1 DEF Import
  <2>3. \A p \in Profiles : {"", named'.codec} \cap Range(p.sources) = {}
    BY <2>1, <2>2, NamesAreRead
  <2>4. label' = QualityLabel(named)'
    BY <2>1
  <2> QED
    BY <1>1, <2>3, <2>4 DEF Import
<1>2. CASE GrabFails
  BY <1>2 DEF GrabFails
<1>3. ASSUME NEW pool \in Offers, Evaluate(pool) PROVE ScoringInv'
  <2>1. PICK answer \in SetToSeqs(pool) : winner' = Best(answer)
    BY <1>3 DEF Evaluate
  <2>2. UNCHANGED <<want, profile, blacklist, have, named, label>>
    BY <1>3 DEF Evaluate
  <2>3. winner' # NoRelease => winner' \in pool /\ IsUpgrade(winner')
    BY <2>1, BestIsAcceptable DEF Acceptable
  <2>4. winner' # NoRelease => IsUpgrade(winner)'
    BY <2>2, <2>3 DEF IsUpgrade, ResolutionRank, SourceRank, Field, Fixed
  <2>5. QED
    BY <2>2, <2>3, <2>4
<1>4. CASE UNCHANGED scoringVars
  <2>1. UNCHANGED <<want, profile, blacklist, have, named, label, winner>>
    BY <1>4 DEF scoringVars
  <2>2. winner' # NoRelease => IsUpgrade(winner)'
    BY <2>1 DEF IsUpgrade, ResolutionRank, SourceRank, Field, Fixed
  <2>3. QED
    BY <2>1, <2>2
<1>5. QED
  BY <1>1, <1>2, <1>3, <1>4 DEF ScoringNext

(* A file is replaced by a better release only, as far as its name tells   *)
(* what it is: whatever the importer makes of the name and stores as the   *)
(* quality, the searches that read it back take nothing that is not better *)
(* (naming.go parseSource, importer.go qualityLabel, filters.go).          *)
THEOREM ReplacedByBetter == ScoringSpec => UpgradesClimb
<1>1. ScoringInv /\ [ScoringNext]_scoringVars => [ImprovesOnImport]_scoringVars
  <2> SUFFICES ASSUME ScoringInv, winner # NoRelease, have' = winner, Told(named)
               PROVE  ImprovesOnImport
    BY DEF ImprovesOnImport
  <2>1. profile \in Profiles /\ label = QualityLabel(named)
    BY DEF ScoringInv, ScoringTypeOK
  <2>2. /\ Len(label) \in Nat /\ Len(label) >= 2 /\ Field(1) = named.resolution
        /\ (Fix(named) => Fixed(label))
        /\ Field(2) \in {named.source, named.codec} /\ (Field(2) = named.source \/ named.source = "")
    BY <2>1, LabelTells
  <2>3. SourceRank(Field(2)) = SourceRank(named.source)
    <3>1. "" \notin Range(profile.sources) /\ named.codec \notin Range(profile.sources)
      BY <2>1 DEF ScoringInv
    <3> QED
      BY <2>2, <3>1 DEF SourceRank, Rank
  <2>4. IsUpgrade(winner) /\ ~(Len(label) < 2)
    <3>1. \A n \in Nat : n >= 2 => ~(n < 2)
      OBVIOUS
    <3> QED
      BY <2>2, <3>1, Zenon DEF ScoringInv
  <2> QED
    BY <2>2, <2>3, <2>4 DEF IsUpgrade, ImprovesOnImport, Fix
<1> QED
  BY <1>1, ScoringStarts, ScoringStep, PTL DEF ScoringSpec, UpgradesClimb


-------------------------------------------------------------------------------
(* Types of the services.                                                  *)

Asking == Ops \cup {NoRequest.op}
Requests == [op : Asking, attempt : 0 .. MaxRetries]
Breakers == [failures : 0 .. Threshold, open : 0 .. Cooldown]

LEMMA Requesting ==
  /\ NoRequest \in Requests
  /\ \A op \in Ops : [op |-> op, attempt |-> 0] \in Requests
  /\ IndexerTypeOK <=> kind \in Kinds /\ breaker \in Breakers /\ request \in [Callers -> Requests]
                       /\ answers \in BOOLEAN
<1>1. 0 \in 0 .. MaxRetries
  BY IndexersAssumption
<1>2. NoRequest.op = ""
  BY Zenon DEF NoRequest
<1>3. NoRequest = [op |-> NoRequest.op, attempt |-> 0] /\ NoRequest.op \in Asking
  BY Zenon DEF NoRequest, Asking
<1>4. \A op \in Asking : [op |-> op, attempt |-> 0] \in Requests
  BY <1>1 DEF Requests
<1>5. NoRequest \in Requests
  BY <1>3, <1>4, Zenon
<1>6. \A op \in Ops : [op |-> op, attempt |-> 0] \in Requests
  BY <1>4, Zenon DEF Asking
<1>7. IndexerTypeOK <=> kind \in Kinds /\ breaker \in Breakers /\ request \in [Callers -> Requests]
                        /\ answers \in BOOLEAN
  BY <1>2, Zenon DEF IndexerTypeOK, Requests, Asking, Breakers
<1> QED
  BY <1>5, <1>6, <1>7

LEMMA BreakerSteps ==
  ASSUME breaker \in Breakers,
         Failure \/ Success \/ (breaker.open > 0 /\ breaker' = [breaker EXCEPT !.open = @ - 1])
  PROVE  breaker' \in Breakers
<1> USE IndexersAssumption DEF Breakers
<1>1. CASE Failure
  <2> DEFINE n == AtMost(breaker.failures + 1, Threshold)
             open == IF n >= Threshold THEN Cooldown ELSE breaker.open
  <2>1. n \in 0 .. Threshold
    BY DEF AtMost
  <2>2. breaker' = [failures |-> n, open |-> open]
    BY <1>1 DEF Failure
  <2> HIDE DEF n
  <2>3. open \in 0 .. Cooldown
    BY <2>1
  <2> QED
    BY <2>1, <2>2, <2>3
<1>2. CASE Success
  BY <1>2 DEF Success
<1>3. CASE breaker.open > 0 /\ breaker' = [breaker EXCEPT !.open = @ - 1]
  BY <1>3
<1> QED
  BY <1>1, <1>2, <1>3

(* A failure is never counted beyond the threshold, a cooldown never lasts *)
(* longer than it should, and no request is tried more often than allowed. *)
LEMMA IndexersTyped == IndexerSpec => []IndexerTypeOK
<1>1. IndexerInit => IndexerTypeOK
  <2> SUFFICES ASSUME IndexerInit PROVE IndexerTypeOK
    OBVIOUS
  <2>1. kind \in Kinds /\ request = [c \in Callers |-> NoRequest] /\ answers \in BOOLEAN
    BY Zenon DEF IndexerInit
  <2>2. breaker \in Breakers
    BY IndexersAssumption DEF IndexerInit, Breakers
  <2> HIDE DEF NoRequest
  <2>3. request \in [Callers -> Requests]
    BY <2>1, Requesting, Zenon
  <2> QED
    BY <2>1, <2>2, <2>3, Requesting, Zenon
<1>2. IndexerTypeOK /\ [IndexerNext]_indexerVars => IndexerTypeOK'
  <2> SUFFICES ASSUME IndexerTypeOK, [IndexerNext]_indexerVars PROVE IndexerTypeOK'
    OBVIOUS
  <2>1. /\ kind \in Kinds /\ breaker \in Breakers /\ request \in [Callers -> Requests]
        /\ answers \in BOOLEAN
    BY Requesting, Zenon
  <2>2. kind' \in Kinds /\ answers' \in BOOLEAN
    BY <2>1, Zenon DEF IndexerNext, Ask, Finish, Begin, Refused, Answer, Retry, GiveUp, HangUp,
       GoDown, ComeBack, Tick, indexerVars
  <2>3. breaker' \in Breakers
    <3>1. \/ Failure \/ Success \/ (breaker.open > 0 /\ breaker' = [breaker EXCEPT !.open = @ - 1])
          \/ UNCHANGED breaker
      BY Zenon DEF IndexerNext, Ask, Finish, Begin, Refused, Answer, Retry, GiveUp, HangUp,
         GoDown, ComeBack, Tick, indexerVars
    <3> QED
      BY <2>1, <3>1, BreakerSteps
  <2>4. request' \in [Callers -> Requests]
    <3>1. \/ \E c \in Callers, op \in Ops : request' = [request EXCEPT ![c] = [op |-> op, attempt |-> 0]]
          \/ \E c \in Callers : request' = [request EXCEPT ![c] = NoRequest]
          \/ \E c \in Callers : request[c].attempt < MaxRetries
                               /\ request' = [request EXCEPT ![c].attempt = @ + 1]
          \/ UNCHANGED request
      BY Zenon DEF IndexerNext, Ask, Finish, Begin, Refused, Answer, Retry, GiveUp, HangUp,
         GoDown, ComeBack, Tick, indexerVars, Ended
    <3>2. ASSUME NEW c \in Callers, request[c].attempt < MaxRetries
          PROVE  [request[c] EXCEPT !.attempt = @ + 1] \in Requests
      BY <3>2, <2>1, IndexersAssumption DEF Requests
    <3> HIDE DEF NoRequest
    <3>3. ASSUME NEW c \in Callers, NEW r \in Requests, request' = [request EXCEPT ![c] = r]
          PROVE  request' \in [Callers -> Requests]
      BY <3>3, <2>1
    <3>4. ASSUME NEW c \in Callers, request[c].attempt < MaxRetries,
                 request' = [request EXCEPT ![c].attempt = @ + 1]
          PROVE  request' \in [Callers -> Requests]
      <4>1. request' = [request EXCEPT ![c] = [request[c] EXCEPT !.attempt = @ + 1]]
        BY <3>4
      <4> QED
        BY <4>1, <3>2, <3>3, <3>4, Zenon
    <3> QED
      BY <2>1, <3>1, <3>3, <3>4, Requesting, Zenon
  <2>5. NoRequest.op = ""
    BY Zenon DEF NoRequest
  <2> QED
    BY <2>2, <2>3, <2>4, <2>5, Zenon DEF IndexerTypeOK, Requests, Asking, Breakers
<1> QED
  BY <1>1, <1>2, PTL DEF IndexerSpec

(* No browser's buffer holds more than it can, however fast events come.   *)
LEMMA LoopsTyped == LoopsSpec => []LoopsTypeOK
<1> USE LoopsAssumption
<1>1. LoopsInit => LoopsTypeOK
  <2> SUFFICES ASSUME LoopsInit PROVE LoopsTypeOK
    OBVIOUS
  <2> DEFINE one == [state |-> "away", buffered |-> 0]
  <2>1. one \in [state : {"away", "subscribed", "closed"}, buffered : 0 .. Buffer]
    OBVIOUS
  <2>2. browser = [c \in Clients |-> one]
    BY DEF LoopsInit
  <2> HIDE DEF one
  <2>3. browser \in [Clients -> [state : {"away", "subscribed", "closed"}, buffered : 0 .. Buffer]]
    BY <2>1, <2>2
  <2> QED
    BY <2>3 DEF LoopsInit, LoopsTypeOK
<1>2. LoopsTypeOK /\ [LoopsNext]_loopsVars => LoopsTypeOK'
  <2> SUFFICES ASSUME LoopsTypeOK, [LoopsNext]_loopsVars PROVE LoopsTypeOK'
    OBVIOUS
  <2> USE DEF LoopsTypeOK
  <2>1. ASSUME NEW w \in Works, StoreWork(w) \/ Trigger(w) PROVE LoopsTypeOK'
    BY <2>1 DEF StoreWork, Trigger
  <2>2. CASE Wake \/ TickLoop \/ EndPublish \/ LoopEnds
    BY <2>2 DEF Wake, TickLoop, EndPublish, LoopEnds, GotoLoop
  <2>3. CASE ReadWork \/ EndPass
    BY <2>3, ZenonT(30) DEF ReadWork, EndPass
  <2>4. ASSUME NEW w \in Works, Handle(w) PROVE LoopsTypeOK'
    BY <2>4 DEF Handle, Subscribed
  <2>5. ASSUME NEW c \in Clients, SendEvent(c) PROVE LoopsTypeOK'
    BY <2>5 DEF SendEvent
  <2>6. CASE Shutdown
    BY <2>6 DEF Shutdown
  <2>7. ASSUME NEW c \in Clients, Subscribe(c) \/ ReadEvent(c) \/ Unsubscribe(c)
        PROVE  LoopsTypeOK'
    BY <2>7 DEF Subscribe, ReadEvent, Unsubscribe
  <2>8. CASE UNCHANGED loopsVars
    BY <2>8 DEF loopsVars
  <2> QED
    BY <2>1, <2>2, <2>3, <2>4, <2>5, <2>6, <2>7, <2>8 DEF LoopsNext, LoopStep
<1> QED
  BY <1>1, <1>2, PTL DEF LoopsSpec

LEMMA SessionTyped == SessionSpec => []SessionTypeOK
<1>1. SessionInv => SessionTypeOK
  BY DEF SessionInv
<1> QED
  BY <1>1, SessionInvariant, PTL

LEMMA ControlTyped == ControlSpec => []ControlTypeOK
<1>1. ControlInv => ControlTypeOK
  BY DEF ControlInv, ControlTypes, ControlTypeOK, TorrentRecords, GrabRecords
<1> QED
  BY <1>1, ControlInvariant, PTL

LEMMA LandingTyped == LandingSpec => []LandingTypeOK
<1>1. LandingInv => LandingTypeOK
  BY DEF LandingInv, LandingShape, LandingSteps, LandingTypeOK
<1> QED
  BY <1>1, LandingStarts, LandingStep, PTL DEF LandingSpec

LEMMA DeleteTyped == DeleteSpec => []DeleteTypeOK
<1>1. DeleteInv => DeleteTypeOK
  BY DEF DeleteInv, DeleteCore, DeleteShape, DelSteps, PollShapes, Somewhere, DeleteTypeOK
<1> QED
  BY <1>1, DeleteStarts, DeleteStep, PTL DEF DeleteSpec

LEMMA ScoringTyped == ScoringSpec => []ScoringTypeOK
<1>1. ScoringInv => ScoringTypeOK
  BY DEF ScoringInv
<1> QED
  BY <1>1, ScoringStarts, ScoringStep, PTL DEF ScoringSpec

-------------------------------------------------------------------------------
(* The composition.                                                        *)

(* Each step of the services is one of one of them, and none to the rest.  *)
LEMMA OneServiceSteps ==
  ASSUME [Next]_vars
  PROVE  /\ [IndexerNext]_indexerVars /\ [SessionNext]_sessionVars
         /\ [ControlNext]_controlVars /\ [LandingNext]_landingVars /\ [DeleteNext]_deleteVars
         /\ [LoopsNext]_loopsVars /\ [MigrationsNext]_migrationsVars
         /\ [BackupsNext]_backupsVars /\ [ScoringNext]_scoringVars /\ [LocksNext]_locksVars
         /\ UNCHANGED service
<1>1. CASE UNCHANGED vars
  BY <1>1 DEF vars
<1>2. CASE Next
  BY <1>2 DEF Next, Only
<1> QED
  BY <1>1, <1>2

(* A behaviour of the services is one of each of them: what is proved of   *)
(* one holds of the composition.                                           *)
THEOREM ServicesAreServices ==
  Spec => /\ IndexerSpec /\ SessionSpec /\ ControlSpec /\ LandingSpec /\ DeleteSpec
          /\ LoopsSpec /\ MigrationsSpec /\ BackupsSpec /\ ScoringSpec /\ LocksSpec
<1>1. Init => /\ IndexerInit /\ SessionInit /\ ControlInit /\ LandingInit /\ DeleteInit
              /\ LoopsInit /\ MigrationsInit /\ BackupsInit /\ ScoringInit /\ LocksInit
  BY DEF Init
<1> QED
  BY <1>1, OneServiceSteps, PTL
     DEF Spec, IndexerSpec, SessionSpec, ControlSpec, LandingSpec, DeleteSpec, LoopsSpec,
         MigrationsSpec, BackupsSpec, ScoringSpec, LocksSpec

(* Every variable of every service stays in its domain.                    *)
THEOREM ServicesAreTyped == Spec => []ServicesTypeOK
<1>1. Init => service \in Chosen
  BY DEF Init
<1>2. service \in Chosen /\ [Next]_vars => (service \in Chosen)'
  BY OneServiceSteps
<1>3. /\ service \in Chosen
      /\ IndexerTypeOK /\ SessionTypeOK /\ ControlTypeOK /\ LandingTypeOK /\ DeleteTypeOK
      /\ LoopsTypeOK /\ MigrationsTypeOK /\ BackupsTypeOK /\ ScoringTypeOK /\ LocksTypeOK
      => ServicesTypeOK
  BY DEF ServicesTypeOK
<1> QED
  BY <1>1, <1>2, <1>3, ServicesAreServices, IndexersTyped, SessionTyped, ControlTyped,
     LandingTyped, DeleteTyped, LoopsTyped, MigrationsTyped, BackupsTyped, ScoringTyped,
     LocksTyped, PTL DEF Spec

(* What each service promises, the composition promises.                   *)
THEOREM ServicesKeepTheirPromises ==
  Spec => /\ []OneLoginPerSession /\ []ExpiryIsInvisible
          /\ []PauseReaches
          /\ []NothingDeleted /\ []DeletionIsWhole
          /\ []RunsOnOwnSchema /\ []NewestKept
          /\ UpgradesClimb
  BY ServicesAreServices, LoginsAreBounded, ExpiryStaysInvisible, PauseReachesAll,
     NoFileIsLost, DeletionsAreWhole, OwnSchema, NewestAreKept,
     ReplacedByBetter, PTL

(* Leases exclude each other among the other services too, but for those   *)
(* that a namesake of their holder released or renewed.                    *)
THEOREM ServicesLease == Spec => []LeaseExclusion /\ []LiveLeaseHasRow
  BY ServicesAreServices, LiveLeaseKept, LeasesExclude, PTL
===============================================================================
