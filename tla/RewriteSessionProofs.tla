------------------------ MODULE RewriteSessionProofs ------------------------
(***************************************************************************)
(* Proofs about RewriteSession, for all refs, objects, images, commands    *)
(* and numbers of runs, whatever others do and wherever a run stops.       *)
(***************************************************************************)
EXTENDS RewriteSession, TLAPS

(* How far the lists of a run have grown. *)
Reading == pc \in {"begin", "collect", "classify", "peel", "rewrite"}

ListsInv ==
  /\ Len(names) <= Len(Listing) /\ Len(reads) <= Len(names) /\ Len(tips) <= Len(names)
  /\ Reading => updates = <<>> /\ written = {}
  /\ pc = "begin" => next = 1 /\ names = <<>>
  /\ pc \in {"begin", "collect"} => reads = <<>> /\ tips = <<>>
  /\ pc = "collect" => /\ Len(names) < next
                       /\ \A i \in DOMAIN names : \E k \in 1..(next - 1) : names[i] = Listing[k]
  /\ pc = "classify" => Len(reads) = next - 1 /\ Len(tips) = next - 1
  /\ pc = "peel" => Len(reads) = next /\ Len(tips) = next - 1
  /\ pc \in {"rewrite", "update"} => Len(reads) = Len(names) /\ Len(tips) = Len(names)
  /\ pc = "update" =>
       /\ cmd.kind # "commit-without-entry"
       /\ updates = [i \in DOMAIN names |-> [name |-> names[i], target |-> ResultOf(i)]]
       /\ TargetsAreWalked
  /\ call = "busy" <=> pc = "update"

TypeInv == TypeOK /\ ListsInv

(* Everything a ref may come to point to is in the repository. *)
DurableInv ==
  /\ \A id \in durable \cap Peels : Tip(id) \in durable
  /\ \A r \in Refs : refs[r] \in durable \cup {Missing, Symbolic}
  /\ \A i \in DOMAIN updates : updates[i].target \in durable

(* What was read was there during the run. *)
HeldInv ==
  /\ \A r \in Refs \ written : refs[r] \in held[r]
  /\ cmd.kind \in RefCommands =>
       /\ \A i \in DOMAIN reads : reads[i] \in Peels => reads[i] \in Held(names[i])
       /\ \A i \in DOMAIN tips : \E id \in Held(names[i]) : tips[i] = Tip(id)

(* A run that nobody disturbs reads the refs as they were when it began.   *)
QuietInv ==
  quiet =>
    /\ Reading => refs = before
    /\ pc = "collect" =>
         /\ cmd.kind = "rewrite-refs"
         /\ listed = {r \in Refs : before[r] # Missing}
         /\ \A r \in Refs : r \in Range(names) <=>
              r \in Targeted /\ \E k \in 1..(next - 1) : r = Listing[k]
    /\ pc \in {"classify", "peel"} =>
         /\ cmd.kind \in RefCommands /\ Range(names) = Targeted
         /\ \A i \in DOMAIN names : before[names[i]] \in Peels
         /\ \A i \in DOMAIN reads : reads[i] = before[names[i]]
         /\ \A i \in DOMAIN tips : tips[i] = Tip(before[names[i]])
    /\ pc \in {"rewrite", "update"} =>
         /\ Range(names) = Targeted \/ cmd.kind = "commit-without-entry"
         /\ \A i \in DOMAIN names : names[i] \in Targeted => ResultOf(i) = Expected(names[i])
    /\ \A r \in Refs : refs[r] = IF r \in written THEN Expected(r) ELSE before[r]
    /\ written \subseteq Targeted
    /\ pc = "done" => \A r \in Refs : refs[r] = Expected(r)
    /\ pc = "failed" /\ reason # "io" => written = {}

(* What the runs before may have made of a ref. *)
FinalOf(r) ==
  IF ValidName(r) /\ origin[r] \in Peels THEN Image({}, origin[r]) ELSE origin[r]
RerunInv ==
  cmd.kind = "rewrite-refs" /\ ~cmd.protect /\ moves = 0 =>
    quiet /\ \A r \in Refs : before[r] \in {origin[r], FinalOf(r)}

-----------------------------------------------------------------------------
LEMMA Constants ==
  /\ Listing \in Seq(Refs) /\ Len(Listing) \in Nat \ {0}
  /\ HeadBranch \in Refs /\ RewriteRef \in Refs /\ Link \in Refs
  /\ Missing \notin Ids /\ Symbolic \notin Ids /\ Missing # Symbolic
  /\ Peels \subseteq Ids /\ Commits \subseteq Peels /\ Commits \subseteq Classified
  /\ Classified \subseteq Ids
<1>1. Listing \in Seq(Refs) /\ Range(Listing) = Refs /\ {HeadBranch, RewriteRef, Link} \subseteq Refs
      BY RefNamesAssumption
<1>2. Len(Listing) \in Nat /\ DOMAIN Listing = 1..Len(Listing) BY <1>1
<1>3. \E i \in DOMAIN Listing : Listing[i] = Link BY <1>1 DEF Range
<1>4. Len(Listing) # 0 BY <1>2, <1>3
<1>5. Peels \subseteq Ids /\ Commits \subseteq Peels
      BY ObjectsAssumption, IdsAssumption DEF Commits
<1>6. Commits \subseteq Classified /\ Classified \subseteq Ids BY DEF Commits, Classified
<1> QED BY <1>1, <1>2, <1>4, <1>5, <1>6, IdsAssumption

LEMMA TipsAreCommits == \A id \in Peels : Tip(id) \in Commits /\ (id \in Commits => Tip(id) = id)
  BY ObjectsAssumption

(* Of the ids that classify_ref accepts only those of tags need not peel to *)
(* a commit.                                                               *)
LEMMA ClassifiedIds ==
  ASSUME NEW id \in Classified, TypeOf[id] = "tag" => id \in Peels
  PROVE  id \in Peels
  BY IdsAssumption DEF Classified

LEMMA ImagesArePeeled ==
  ASSUME NEW S \in SUBSET Commits, NEW id \in Peels
  PROVE  /\ Image(S, id) \in Peels /\ TypeOf[Image(S, id)] = TypeOf[id]
         /\ Tip(Image(S, id)) = Image(S, Tip(id))
  BY ImagesAssumption

(* What the tips and the reads of a run say of its results. *)
LEMMA ResultsAreIds ==
  ASSUME TypeOK, TargetsAreWalked, Len(reads) = Len(names), Len(tips) = Len(names),
         NEW i \in DOMAIN names
  PROVE  /\ ResultOf(i) \in Peels
         /\ Tip(ResultOf(i)) \in NewCommits \cup Results
         /\ names[i] \in Refs /\ tips[i] \in Commits /\ reads[i] \in Peels
<1>1. /\ names \in Seq(Refs) /\ reads \in Seq(Classified) /\ tips \in Seq(Commits)
      BY DEF TypeOK
<1>2. i \in DOMAIN reads /\ i \in DOMAIN tips BY <1>1
<1>3. names[i] \in Refs /\ tips[i] \in Commits /\ reads[i] \in Peels
  <2>1. names[i] \in Refs /\ tips[i] \in Commits /\ reads[i] \in Classified BY <1>1, <1>2
  <2>2. TypeOf[reads[i]] = "tag" => reads[i] \in Peels BY <1>2 DEF TargetsAreWalked
  <2> QED BY <2>1, <2>2, ClassifiedIds
<1>4. Range(tips) \subseteq Commits /\ Protected \subseteq Commits /\ tips[i] \in Range(tips)
      BY <1>1, <1>2 DEF Range, Protected
<1>5. Range(tips) \subseteq Walk(Range(tips)) /\ Walk(Range(tips)) \subseteq Commits
      BY <1>4, ImagesAssumption
<1>6. tips[i] \in Peels BY <1>3, Constants
<1>7. CASE cmd.kind \in {"commit-without-entry", "write-rewrite-ref"}
  <2>1. ResultOf(i) = HeadImage(tips[i]) BY <1>7 DEF ResultOf, HeadAlone
  <2>2. ResultOf(i) \in Commits BY <2>1, <1>3, ImagesAssumption
  <2>3. Tip(ResultOf(i)) = ResultOf(i) BY <2>2, TipsAreCommits, Constants
  <2> QED BY <2>2, <2>3, <1>3, Constants DEF Results
<1>8. CASE /\ cmd.kind \notin {"commit-without-entry", "write-rewrite-ref"}
           /\ TypeOf[reads[i]] = "tag"
  <2>1. ResultOf(i) = Image(Protected, reads[i]) BY <1>8 DEF ResultOf, HeadAlone
  <2>2. Tip(reads[i]) \in Walk(Range(tips)) BY <1>2, <1>8 DEF TargetsAreWalked
  <2>3. Tip(ResultOf(i)) = Image(Protected, Tip(reads[i])) BY <2>1, <1>3, <1>4, ImagesArePeeled
  <2>4. Tip(ResultOf(i)) \in NewCommits BY <1>8, <2>2, <2>3 DEF NewCommits, HeadAlone
  <2> QED BY <2>1, <2>4, <1>3, <1>4, ImagesArePeeled
<1>9. CASE /\ cmd.kind \notin {"commit-without-entry", "write-rewrite-ref"}
           /\ TypeOf[reads[i]] # "tag"
  <2>1. ResultOf(i) = Image(Protected, tips[i]) BY <1>9 DEF ResultOf, HeadAlone
  <2>2. Tip(ResultOf(i)) = Image(Protected, tips[i])
        BY <2>1, <1>3, <1>4, <1>6, ImagesArePeeled, TipsAreCommits
  <2>3. Tip(ResultOf(i)) \in NewCommits BY <1>9, <2>2, <1>4, <1>5 DEF NewCommits, HeadAlone
  <2> QED BY <2>1, <2>3, <1>3, <1>4, <1>6, ImagesArePeeled
<1> QED BY <1>7, <1>8, <1>9

-----------------------------------------------------------------------------
(* Types, and the lengths of the lists. *)

LEMMA TypeInvInit == Init => TypeInv
<1> SUFFICES ASSUME Init PROVE TypeInv
    OBVIOUS
<1>1. refs \in [Refs -> RefValues]
      BY ObjectsAssumption DEF Init, RefValues
<1>2. TypeOK
      BY <1>1, ObjectsAssumption, CommandsAssumption, BoundsAssumption, Constants
      DEF Init, TypeOK, IsUpdateList, Update!Names
<1>3. ListsInv
      BY Constants DEF Init, ListsInv, Reading
<1> QED BY <1>2, <1>3 DEF TypeInv

LEMMA TypeInvFail ==
  ASSUME TypeInv, NEW why \in {"invalid", "read", "target"}, Fail(why), call # "busy"
  PROVE  TypeInv'
<1>1. TypeOK'
      BY DEF Fail, TypeInv, TypeOK, reading, calling, history, IsUpdateList, Update!Names
<1>2. ListsInv'
      BY DEF Fail, TypeInv, ListsInv, Reading, reading, calling
<1> QED BY <1>1, <1>2 DEF TypeInv

LEMMA TypeInvRead ==
  ASSUME TypeInv,
         \/ BeginRewriteRefs \/ CollectOne \/ CollectDone \/ BeginRewriteRef \/ BeginHead
         \/ ClassifyOne \/ PeelOne
  PROVE  TypeInv'
<1> USE DEF TypeInv
<1>a. CASE BeginRewriteRefs
  <2>1. TypeOK'
        BY <1>a DEF BeginRewriteRefs, TypeOK, calling, history, IsUpdateList, Update!Names
  <2>2. ListsInv'
        BY <1>a, Constants DEF BeginRewriteRefs, TypeOK, ListsInv, Reading, calling
  <2> QED BY <2>1, <2>2
<1>b. CASE CollectOne
  <2> DEFINE r == Listing[next]
  <2>1. pc = "collect" /\ next \in 1..Len(Listing) /\ r \in Refs
        BY <1>b, Constants DEF CollectOne, TypeOK
  <2>2. /\ names \in Seq(Refs) /\ Len(names) < next
        /\ \A i \in DOMAIN names : \E k \in 1..(next - 1) : names[i] = Listing[k]
        BY <2>1 DEF TypeOK, ListsInv
  <2>3. \A k \in 1..(next - 1) : Listing[k] # r
        BY <2>1, Constants, RefNamesAssumption
  <2>4. \A i \in DOMAIN names : names[i] # r BY <2>2, <2>3
  <2>5. CASE names' = names
    <3>1. TypeOK'
          BY <1>b, <2>1, <2>5 DEF CollectOne, TypeOK, calling, history, IsUpdateList, Update!Names
    <3>2. ListsInv'
      <4>1. /\ pc = "collect" /\ pc' = pc /\ next' = next + 1 /\ names' = names
            /\ UNCHANGED <<reads, tips, updates, written, call>>
            BY <1>b, <2>5 DEF CollectOne, calling
      <4>2. Len(names') < next' /\ \A i \in DOMAIN names' : \E k \in 1..(next' - 1) : names'[i] = Listing[k]
            BY <2>1, <2>2, <4>1
      <4> HIDE DEF r
      <4> QED BY <4>1, <4>2 DEF ListsInv, Reading
    <3> QED BY <3>1, <3>2
  <2>6. CASE names' = Append(names, r)
    <3>1. /\ names' \in Seq(Refs) /\ Len(names') = Len(names) + 1
          /\ \A i \in DOMAIN names' :
               (i \in DOMAIN names /\ names'[i] = names[i]) \/ (i = Len(names) + 1 /\ names'[i] = r)
          BY <2>1, <2>2, <2>6
    <3>2. \A i, j \in DOMAIN names' : names'[i] = names'[j] => i = j
          BY <3>1, <2>4 DEF TypeOK
    <3>3. TypeOK'
          BY <1>b, <2>1, <3>1, <3>2 DEF CollectOne, TypeOK, calling, history, IsUpdateList, Update!Names
    <3>4. ASSUME NEW i \in DOMAIN names' PROVE \E k \in 1..next : names'[i] = Listing[k]
      <4>1. next \in 1..next BY <2>1
      <4>2. CASE i = Len(names) + 1 /\ names'[i] = r BY <4>1, <4>2
      <4>3. CASE i \in DOMAIN names /\ names'[i] = names[i]
        <5>1. PICK k \in 1..(next - 1) : names[i] = Listing[k] BY <2>2, <4>3
        <5>2. k \in 1..next BY <2>1, <5>1
        <5> QED BY <4>3, <5>1, <5>2
      <4> QED BY <3>1, <3>4, <4>2, <4>3
    <3>5. ListsInv'
      <4>1. /\ pc = "collect" /\ pc' = pc /\ next' = next + 1
            /\ UNCHANGED <<reads, tips, updates, written, call>>
            BY <1>b DEF CollectOne, calling
      <4>2. updates = <<>> /\ written = {} /\ reads = <<>> /\ tips = <<>> /\ call # "busy"
            BY <2>1 DEF ListsInv, Reading
      <4>3. Len(names') < next' /\ Len(names') <= Len(Listing) /\ next' - 1 = next
            BY <2>1, <2>2, <3>1, <4>1, Constants
      <4>4. Len(reads') = 0 /\ Len(tips') = 0 /\ Len(names') \in Nat BY <3>1, <4>1, <4>2
      <4> HIDE DEF r
      <4> QED BY <2>1, <3>4, <4>1, <4>2, <4>3, <4>4 DEF ListsInv, Reading
    <3> QED BY <3>3, <3>5
  <2> QED BY <1>b, <2>5, <2>6 DEF CollectOne
<1>c. CASE CollectDone
  <2>1. names \in Seq(Refs) /\ (names # <<>> => 1 \in DOMAIN names) BY DEF TypeOK
  <2>2. TypeOK'
        BY <1>c, <2>1, Constants DEF CollectDone, TypeOK, calling, history, IsUpdateList, Update!Names
  <2>3. ListsInv'
        BY <1>c, <2>1, Constants DEF CollectDone, TypeOK, ListsInv, Reading, calling
  <2> QED BY <2>2, <2>3
<1>d. CASE BeginRewriteRef
  <2>1. CASE Fail("invalid") BY <2>1, <1>d, TypeInvFail DEF BeginRewriteRef, ListsInv
  <2>2. CASE names' = <<cmd.ref>> /\ pc' = "classify"
             /\ UNCHANGED <<refs, durable, cmd, next, listed, reads, tips, calling, reason, history>>
    <3>1. cmd.ref \in Refs BY CommandsAssumption DEF TypeOK
    <3>2. names' \in Seq(Refs) /\ DOMAIN names' = {1} /\ Len(names') = 1 BY <2>2, <3>1
    <3>3. next = 1 BY <1>d DEF BeginRewriteRef, ListsInv
    <3>4. TypeOK'
          BY <2>2, <3>2, <3>3 DEF TypeOK, calling, history, IsUpdateList, Update!Names
    <3>5. ListsInv'
          BY <1>d, <2>2, <3>2, <3>3, Constants DEF BeginRewriteRef, TypeOK, ListsInv, Reading, calling
    <3> QED BY <3>4, <3>5
  <2> QED BY <1>d, <2>1, <2>2 DEF BeginRewriteRef
<1>e. CASE BeginHead
  <2>1. CASE Fail("read") BY <2>1, <1>e, TypeInvFail DEF BeginHead, ListsInv
  <2>2. CASE ~Fail("read")
    <3> DEFINE id == Resolved(HeadBranch)
    <3>1. /\ id \in Peels /\ names' = <<RewriteRef>> /\ reads' = <<Tip(id)>> /\ tips' = <<Tip(id)>>
          /\ pc = "begin" /\ pc' = "rewrite"
          /\ UNCHANGED <<refs, durable, cmd, next, listed, calling, reason, history>>
          BY <1>e, <2>2 DEF BeginHead
    <3>2. Tip(id) \in Commits BY <3>1, TipsAreCommits
    <3> HIDE DEF id
    <3>3. /\ names' \in Seq(Refs) /\ DOMAIN names' = {1} /\ Len(names') = 1
          /\ reads' \in Seq(Classified) /\ Len(reads') = 1 /\ tips' \in Seq(Commits) /\ Len(tips') = 1
          BY <3>1, <3>2, Constants
    <3>4. TypeOK'
          BY <3>1, <3>3 DEF TypeOK, calling, history, IsUpdateList, Update!Names
    <3>5. ListsInv'
          BY <3>1, <3>3, Constants DEF TypeOK, ListsInv, Reading, calling
    <3> QED BY <3>4, <3>5
  <2> QED BY <2>1, <2>2
<1>f. CASE ClassifyOne
  <2>1. CASE Fail("read") BY <2>1, <1>f, TypeInvFail DEF ClassifyOne, ListsInv
  <2>2. CASE ~Fail("read")
    <3> DEFINE id == Resolved(names[next])
    <3>1. /\ id \in Classified /\ reads' = Append(reads, id)
          /\ pc = "classify" /\ pc' = "peel"
          /\ UNCHANGED <<refs, durable, cmd, next, listed, names, tips, calling, reason, history>>
          BY <1>f, <2>2 DEF ClassifyOne
    <3> HIDE DEF id
    <3>2. reads' \in Seq(Classified) /\ Len(reads') = Len(reads) + 1 BY <3>1 DEF TypeOK
    <3>3. TypeOK'
          BY <3>1, <3>2 DEF TypeOK, calling, history, IsUpdateList, Update!Names
    <3>4. ListsInv'
          BY <3>1, <3>2, Constants DEF TypeOK, ListsInv, Reading, calling
    <3> QED BY <3>3, <3>4
  <2> QED BY <2>1, <2>2
<1>g. CASE PeelOne
  <2>1. CASE Fail("read") BY <2>1, <1>g, TypeInvFail DEF PeelOne, ListsInv
  <2>2. CASE ~Fail("read")
    <3> DEFINE id == Resolved(names[next])
    <3>1. /\ id \in Peels /\ tips' = Append(tips, Tip(id)) /\ next' = next + 1
          /\ pc = "peel" /\ pc' = IF next < Len(names) THEN "classify" ELSE "rewrite"
          /\ UNCHANGED <<refs, durable, cmd, listed, names, reads, calling, reason, history>>
          BY <1>g, <2>2 DEF PeelOne
    <3>2. Tip(id) \in Commits BY <3>1, TipsAreCommits
    <3> HIDE DEF id
    <3>3. tips' \in Seq(Commits) /\ Len(tips') = Len(tips) + 1 BY <3>1, <3>2 DEF TypeOK
    <3>4. next \in 1..Len(names) /\ Len(names) \in Nat /\ Len(names) <= Len(Listing)
          BY <3>1 DEF TypeOK, ListsInv
    <3>5. TypeOK'
          BY <3>1, <3>3, <3>4, Constants DEF TypeOK, calling, history, IsUpdateList, Update!Names
    <3>6. ListsInv'
          BY <3>1, <3>3, <3>4, Constants DEF TypeOK, ListsInv, Reading, calling
    <3> QED BY <3>5, <3>6
  <2> QED BY <2>1, <2>2
<1> QED BY <1>a, <1>b, <1>c, <1>d, <1>e, <1>f, <1>g

LEMMA NewCommitsAreIds ==
  ASSUME TypeOK PROVE NewCommits \subseteq Commits \cap Ids
<1>1. Range(tips) \subseteq Commits /\ Protected \subseteq Commits
      BY DEF TypeOK, Range, Protected
<1>2. Walk(Range(tips)) \subseteq Commits BY <1>1, ImagesAssumption
<1>3. ASSUME NEW c \in Commits PROVE Image(Protected, c) \in Commits
      BY <1>1, <1>3, ImagesArePeeled, Constants DEF Commits
<1>4. ASSUME NEW c \in Commits PROVE HeadImage(c) \in Commits
      BY <1>4, ImagesAssumption
<1>5. NewCommits \subseteq Commits BY <1>1, <1>2, <1>3, <1>4 DEF NewCommits
<1> QED BY <1>5 DEF Commits

LEMMA TypeInvRewrite ==
  ASSUME TypeInv, Rewrite
  PROVE  TypeInv'
<1> USE DEF TypeInv
<1>1. /\ pc = "rewrite" /\ TargetsAreWalked /\ durable' = durable \cup NewCommits \cup Results
      /\ updates' = [i \in DOMAIN names |-> [name |-> names[i], target |-> ResultOf(i)]]
      /\ UNCHANGED <<refs, cmd, reading, written, reason, history>>
      BY DEF Rewrite
<1>2. /\ names \in Seq(Refs) /\ \A i, j \in DOMAIN names : names[i] = names[j] => i = j
      /\ Len(reads) = Len(names) /\ Len(tips) = Len(names)
      BY <1>1 DEF TypeOK, ListsInv
<1>3. \A i \in DOMAIN names : ResultOf(i) \in Ids
      BY <1>1, <1>2, ResultsAreIds, Constants
<1>4. durable' \subseteq Ids
      BY <1>1, <1>3, NewCommitsAreIds DEF Results, TypeOK
<1>5. /\ updates' \in Seq([name : Refs, target : Ids]) /\ DOMAIN updates' = DOMAIN names
      /\ \A i \in DOMAIN names : updates'[i].name = names[i]
      BY <1>1, <1>2, <1>3
<1>6. IsUpdateList(updates') BY <1>2, <1>5 DEF IsUpdateList
<1>7. written = {} /\ call # "busy" BY <1>1 DEF ListsInv, Reading
<1>8. /\ pc' \in {"done", "update"} /\ call' \in {"none", "busy", "ok", "refused", "stopped"}
      /\ call' = "busy" <=> pc' = "update"
      /\ pc' = "update" => cmd.kind # "commit-without-entry"
      BY <1>7 DEF Rewrite, TypeOK
<1>9. TypeOK'
      BY <1>1, <1>4, <1>6, <1>7, <1>8 DEF TypeOK, reading, history
<1>10. UNCHANGED <<cmd, names, reads, tips>> BY <1>1 DEF reading
<1>11. /\ \A i : (ResultOf(i))' = ResultOf(i)
       /\ TargetsAreWalked'
       BY <1>1, <1>10 DEF ResultOf, HeadAlone, Protected, TargetsAreWalked
<1>12. ListsInv'
       BY <1>1, <1>2, <1>8, <1>10, <1>11 DEF ListsInv, Reading
<1> QED BY <1>9, <1>12

LEMMA TypeInvStop ==
  ASSUME TypeInv,
         \/ TargetMissing \/ UpdateRefused
         \/ \E how \in {"failed", "crashed"} : ReadStops(how) \/ RewriteStops(how) \/ UpdateStops(how)
  PROVE  TypeInv'
<1> USE DEF TypeInv
<1>1. CASE TargetMissing BY <1>1, TypeInvFail DEF TargetMissing, ListsInv
<1>2. CASE UpdateRefused
  <2>1. TypeOK'
        BY <1>2 DEF UpdateRefused, Update!Refuse, TypeOK, reading, history, IsUpdateList, Update!Names
  <2>2. ListsInv' BY <1>2 DEF UpdateRefused, Update!Refuse, ListsInv, Reading, reading
  <2> QED BY <2>1, <2>2
<1>3. ASSUME NEW how \in {"failed", "crashed"}, ReadStops(how) PROVE TypeInv'
  <2>1. TypeOK'
        BY <1>3 DEF ReadStops, TypeOK, reading, calling, history, IsUpdateList, Update!Names
  <2>2. ListsInv'
        BY <1>3 DEF ReadStops, Ended, TypeOK, ListsInv, Reading, reading, calling
  <2> QED BY <2>1, <2>2
<1>4. ASSUME NEW how \in {"failed", "crashed"}, RewriteStops(how) PROVE TypeInv'
  <2>1. durable' \subseteq Ids BY <1>4, NewCommitsAreIds DEF RewriteStops, TypeOK
  <2>2. TypeOK'
        BY <1>4, <2>1 DEF RewriteStops, TypeOK, reading, calling, history, IsUpdateList, Update!Names
  <2>3. ListsInv'
        BY <1>4 DEF RewriteStops, ListsInv, Reading, reading, calling
  <2> QED BY <2>2, <2>3
<1>5. ASSUME NEW how \in {"failed", "crashed"}, UpdateStops(how) PROVE TypeInv'
  <2>1. TypeOK'
        BY <1>5 DEF UpdateStops, Update!Stop, TypeOK, reading, history, IsUpdateList, Update!Names
  <2>2. ListsInv' BY <1>5 DEF UpdateStops, Update!Stop, ListsInv, Reading, reading
  <2> QED BY <2>1, <2>2
<1> QED BY <1>1, <1>2, <1>3, <1>4, <1>5

(* What the results of a run depend on. *)
LEMMA ResultsStay ==
  ASSUME UNCHANGED <<cmd, reading>>
  PROVE  (\A i : (ResultOf(i))' = ResultOf(i)) /\ (TargetsAreWalked' <=> TargetsAreWalked)
  BY DEF ResultOf, HeadAlone, Protected, TargetsAreWalked, reading

LEMMA UpdatesAreTyped ==
  ASSUME NEW u, IsUpdateList(u), NEW i \in DOMAIN u
  PROVE  u[i].name \in Refs /\ u[i].target \in Ids
<1> DEFINE U == [name : Refs, target : Ids]
<1>1. u \in Seq(U) BY DEF IsUpdateList
<1> HIDE DEF U
<1>2. u[i] \in U BY <1>1
<1> QED BY <1>2 DEF U

LEMMA TypeInvUpdate ==
  ASSUME TypeInv, (\E i \in DOMAIN updates : WriteOne(i)) \/ UpdateDone
  PROVE  TypeInv'
<1> USE DEF TypeInv
<1>1. ASSUME NEW i \in DOMAIN updates, WriteOne(i) PROVE TypeInv'
  <2>1. updates[i].name \in Refs /\ updates[i].target \in Ids
        BY <1>1, UpdatesAreTyped DEF TypeOK
  <2>2. /\ pc = "update" /\ call = "busy"
        /\ refs' = [refs EXCEPT ![updates[i].name] = updates[i].target]
        /\ written' = written \cup {updates[i].name}
        /\ UNCHANGED <<updates, call, durable, cmd, pc, reading, reason, history>>
        BY <1>1 DEF WriteOne, Update!Write
  <2>3. refs' \in [Refs -> RefValues] BY <2>1, <2>2 DEF TypeOK, RefValues
  <2>4. written' \subseteq Update!Names' BY <2>2 DEF TypeOK, Update!Names
  <2>5. TypeOK'
        BY <2>2, <2>3, <2>4 DEF TypeOK, reading, history, IsUpdateList
  <2>6. UNCHANGED <<cmd, pc, reading, updates, call>> BY <2>2
  <2>7. UNCHANGED <<next, listed, names, reads, tips>> BY <2>6 DEF reading
  <2>8. ListsInv' BY <2>2, <2>6, <2>7, ResultsStay DEF ListsInv, Reading
  <2> QED BY <2>5, <2>8
<1>2. CASE UpdateDone
  <2>1. TypeOK'
        BY <1>2 DEF UpdateDone, Update!Succeed, TypeOK, reading, history, IsUpdateList, Update!Names
  <2>2. ListsInv' BY <1>2 DEF UpdateDone, Update!Succeed, ListsInv, Reading, reading
  <2> QED BY <2>1, <2>2
<1> QED BY <1>1, <1>2

LEMMA TypeInvOthers ==
  ASSUME TypeInv, NEW r \in Refs, OthersMove(r)
  PROVE  TypeInv'
<1> USE DEF TypeInv
<1>1. PICK v \in RefValues : refs' = [refs EXCEPT ![r] = v]
      BY DEF OthersMove, Update!OthersChange, RefValues, Update!RefValues
<1>2. refs' \in [Refs -> RefValues] /\ refs'[r] \in RefValues BY <1>1 DEF TypeOK
<1>3. /\ moves < MaxMoves /\ moves' = moves + 1 /\ quiet' = FALSE
      /\ held' = [held EXCEPT ![r] = @ \cup {refs'[r]}]
      /\ UNCHANGED <<durable, cmd, pc, reading, reason, before, origin, runs>>
      /\ UNCHANGED <<updates, written, call>>
      BY DEF OthersMove, Update!OthersChange
<1>4. held' \in [Refs -> SUBSET RefValues] BY <1>2, <1>3 DEF TypeOK
<1>5. moves' \in 0..MaxMoves BY <1>3, BoundsAssumption DEF TypeOK
<1>6. UNCHANGED <<next, listed, names, reads, tips>> BY <1>3 DEF reading
<1>7. IsUpdateList(updates') /\ written' \subseteq Update!Names'
      BY <1>3 DEF TypeOK, IsUpdateList, Update!Names
<1>8. TypeOK' BY <1>2, <1>3, <1>4, <1>5, <1>6, <1>7 DEF TypeOK
<1>9. ListsInv' BY <1>3, <1>6, ResultsStay DEF ListsInv, Reading
<1> QED BY <1>8, <1>9

LEMMA TypeInvAgain ==
  ASSUME TypeInv, RunAgain
  PROVE  TypeInv'
<1> USE DEF TypeInv
<1>1. /\ held' \in [Refs -> SUBSET RefValues] /\ before' \in [Refs -> RefValues]
      BY DEF RunAgain, TypeOK
<1>2. runs' \in Nat /\ names' \in Seq(Refs) /\ reads' \in Seq(Classified) /\ tips' \in Seq(Commits)
      BY DEF RunAgain, TypeOK
<1>3. IsUpdateList(updates') BY DEF RunAgain, IsUpdateList
<1>4. TypeOK' BY <1>1, <1>2, <1>3, Constants DEF RunAgain, TypeOK
<1>5. ListsInv' BY Constants DEF RunAgain, ListsInv, Reading
<1> QED BY <1>4, <1>5

LEMMA TypeInvStep == TypeInv /\ [Next]_vars => TypeInv'
<1> SUFFICES ASSUME TypeInv, [Next]_vars PROVE TypeInv'
    OBVIOUS
<1>1. CASE UNCHANGED vars
  <2>1. TypeOK'
        BY <1>1 DEF vars, TypeInv, TypeOK, reading, calling, history, IsUpdateList, Update!Names
  <2>2. UNCHANGED <<cmd, reading, calling, pc, next, names, reads, tips, updates, written, call>>
        BY <1>1 DEF vars, reading, calling
  <2>3. ListsInv' BY <2>2, ResultsStay DEF TypeInv, ListsInv, Reading
  <2> QED BY <2>1, <2>3 DEF TypeInv
<1>2. CASE Next
  BY <1>2, TypeInvRead, TypeInvRewrite, TypeInvStop, TypeInvUpdate, TypeInvOthers, TypeInvAgain
  DEF Next, Step, Stops
<1> QED BY <1>1, <1>2

(* The state of a session is well typed: the loops stay in their lists, a  *)
(* list of updates names no ref twice, and every target is an object.      *)
THEOREM TypeCorrect == Spec => []TypeOK
<1>1. Spec => []TypeInv BY TypeInvInit, TypeInvStep, PTL DEF Spec
<1>2. TypeInv => TypeOK BY DEF TypeInv
<1> QED BY <1>1, <1>2, PTL

-----------------------------------------------------------------------------
(* Refs and the repository. *)

LEMMA DurableInvInit == Init => DurableInv
  BY ObjectsAssumption DEF Init, DurableInv

LEMMA DurableInvStep ==
  ASSUME TypeInv, DurableInv, [Next]_vars
  PROVE  DurableInv'
<1>1. CASE UNCHANGED <<refs, durable, updates>>
  BY <1>1 DEF DurableInv
<1>2. CASE Rewrite
  <2>1. /\ TargetsAreWalked /\ durable' = durable \cup NewCommits \cup Results /\ refs' = refs
        /\ updates' = [i \in DOMAIN names |-> [name |-> names[i], target |-> ResultOf(i)]]
        /\ Len(reads) = Len(names) /\ Len(tips) = Len(names)
        BY <1>2 DEF Rewrite, TypeInv, ListsInv
  <2>2. \A id \in Results : Tip(id) \in durable'
        BY <2>1, ResultsAreIds DEF Results, TypeInv
  <2>3. \A id \in NewCommits : Tip(id) = id
        BY NewCommitsAreIds, TipsAreCommits, Constants DEF TypeInv
  <2>4. \A id \in durable' \cap Peels : Tip(id) \in durable'
        BY <2>1, <2>2, <2>3 DEF DurableInv
  <2>5. \A i \in DOMAIN updates' : updates'[i].target \in durable'
        BY <2>1 DEF Results
  <2>6. \A r \in Refs : refs'[r] \in durable' \cup {Missing, Symbolic}
        BY <2>1 DEF DurableInv
  <2> QED BY <2>4, <2>5, <2>6 DEF DurableInv
<1>3. ASSUME NEW how, RewriteStops(how) PROVE DurableInv'
  <2>1. \A id \in NewCommits : Tip(id) = id
        BY NewCommitsAreIds, TipsAreCommits, Constants DEF TypeInv
  <2> QED BY <1>3, <2>1 DEF RewriteStops, calling, DurableInv
<1>4. ASSUME NEW i \in DOMAIN updates, WriteOne(i) PROVE DurableInv'
  <2>1. /\ refs' = [refs EXCEPT ![updates[i].name] = updates[i].target]
        /\ UNCHANGED <<durable, updates>>
        BY <1>4 DEF WriteOne, Update!Write
  <2>2. updates[i].target \in durable BY <1>4 DEF DurableInv
  <2>3. \A r \in Refs : refs'[r] \in durable \cup {Missing, Symbolic}
        BY <2>1, <2>2 DEF DurableInv, TypeInv, TypeOK
  <2> QED BY <2>1, <2>3 DEF DurableInv
<1>5. ASSUME NEW r \in Refs, OthersMove(r) PROVE DurableInv'
  <2>1. PICK v \in RefValues : refs' = [refs EXCEPT ![r] = v]
        BY <1>5 DEF OthersMove, Update!OthersChange, RefValues, Update!RefValues
  <2>2. UNCHANGED <<durable, updates>> /\ refs'[r] \in durable \cup {Missing, Symbolic}
        BY <1>5 DEF OthersMove, Update!OthersChange
  <2>3. \A s \in Refs : refs'[s] \in durable \cup {Missing, Symbolic}
        BY <2>1, <2>2 DEF DurableInv, TypeInv, TypeOK
  <2> QED BY <2>2, <2>3 DEF DurableInv
<1>6. CASE RunAgain BY <1>6 DEF RunAgain, DurableInv
<1> QED
  BY <1>1, <1>2, <1>3, <1>4, <1>5, <1>6
  DEF Next, Step, Stops, vars, Fail, BeginRewriteRefs, CollectOne, CollectDone, BeginRewriteRef,
      BeginHead, ClassifyOne, PeelOne, TargetMissing, UpdateDone, UpdateRefused, ReadStops,
      UpdateStops, Update!Succeed, Update!Refuse, Update!Stop, calling

(* No ref ever points to an object that the repository does not have.      *)
THEOREM RefsStayWhole == Spec => []RefsNeverDangle
<1>1. DurableInv => RefsNeverDangle
      BY Constants DEF DurableInv, RefsNeverDangle
<1>2. TypeInv /\ DurableInv /\ [Next]_vars => TypeInv' /\ DurableInv'
      BY TypeInvStep, DurableInvStep
<1> QED BY <1>1, <1>2, TypeInvInit, DurableInvInit, PTL DEF Spec

-----------------------------------------------------------------------------
(* What was read, and what was written for it. *)

LEMMA HeldInvInit == Init => HeldInv
  BY DEF Init, HeldInv

LEMMA HeldInvFrame ==
  ASSUME HeldInv, UNCHANGED <<refs, held, written, cmd, names, reads, tips>>
  PROVE  HeldInv'
  BY DEF HeldInv, Held

LEMMA ResolvedIsHeld ==
  ASSUME TypeInv, HeldInv, written = {}, NEW r \in Refs, Resolved(r) \in Peels
  PROVE  Resolved(r) \in Held(r)
<1>1. refs[r] \in held[r] /\ refs[Link] \in held[Link] BY Constants DEF HeldInv
<1> QED BY <1>1 DEF Resolved, Held

LEMMA HeldInvRead ==
  ASSUME TypeInv, HeldInv, ClassifyOne \/ PeelOne
  PROVE  HeldInv'
<1>1. CASE Fail("read")
  BY <1>1, HeldInvFrame DEF Fail, reading, calling, history
<1> DEFINE r == names[next]
           id == Resolved(r)
<1>2. /\ next \in DOMAIN names /\ names \in Seq(Refs) /\ r \in Refs /\ written = {}
      /\ reads \in Seq(Classified) /\ tips \in Seq(Commits)
      BY DEF ClassifyOne, PeelOne, TypeInv, TypeOK, ListsInv, Reading
<1>3. id \in Peels => id \in Held(r) BY <1>2, ResolvedIsHeld
<1> HIDE DEF id
<1>4. CASE ClassifyOne /\ ~Fail("read")
  <2>1. /\ reads' = Append(reads, id) /\ Len(reads) = next - 1
        /\ UNCHANGED <<refs, held, written, cmd, names, tips>>
        BY <1>4 DEF ClassifyOne, TypeInv, ListsInv, calling, history, id
  <2>2. \A s : Held(s)' = Held(s) BY <2>1 DEF Held
  <2>3. \A i \in DOMAIN reads' :
          (i \in DOMAIN reads /\ reads'[i] = reads[i]) \/ (i = next /\ reads'[i] = id)
        BY <2>1, <1>2
  <2>4. cmd.kind \in RefCommands =>
          \A i \in DOMAIN reads' : reads'[i] \in Peels => reads'[i] \in Held(names[i])
        BY <2>3, <1>3 DEF HeldInv
  <2>5. cmd.kind \in RefCommands =>
          \A i \in DOMAIN tips' : \E v \in Held(names[i]) : tips'[i] = Tip(v)
        BY <2>1 DEF HeldInv
  <2>6. \A s \in Refs \ written' : refs'[s] \in held'[s] BY <2>1 DEF HeldInv
  <2> QED BY <2>1, <2>2, <2>4, <2>5, <2>6 DEF HeldInv
<1>5. CASE PeelOne /\ ~Fail("read")
  <2>1. /\ id \in Peels /\ tips' = Append(tips, Tip(id)) /\ Len(tips) = next - 1
        /\ UNCHANGED <<refs, held, written, cmd, names, reads>>
        BY <1>5 DEF PeelOne, TypeInv, ListsInv, calling, history, id
  <2>2. \A s : Held(s)' = Held(s) BY <2>1 DEF Held
  <2>3. \A i \in DOMAIN tips' :
          (i \in DOMAIN tips /\ tips'[i] = tips[i]) \/ (i = next /\ tips'[i] = Tip(id))
        BY <2>1, <1>2
  <2>4. cmd.kind \in RefCommands =>
          \A i \in DOMAIN tips' : \E v \in Held(names[i]) : tips'[i] = Tip(v)
        BY <2>1, <2>3, <1>3 DEF HeldInv
  <2>5. cmd.kind \in RefCommands =>
          \A i \in DOMAIN reads' : reads'[i] \in Peels => reads'[i] \in Held(names[i])
        BY <2>1 DEF HeldInv
  <2>6. \A s \in Refs \ written' : refs'[s] \in held'[s] BY <2>1 DEF HeldInv
  <2> QED BY <2>1, <2>2, <2>4, <2>5, <2>6 DEF HeldInv
<1> QED BY <1>1, <1>4, <1>5

LEMMA HeldInvOthers ==
  ASSUME TypeInv, HeldInv, NEW r \in Refs, OthersMove(r)
  PROVE  HeldInv'
<1>1. PICK v \in RefValues : refs' = [refs EXCEPT ![r] = v]
      BY DEF OthersMove, Update!OthersChange, RefValues, Update!RefValues
<1>2. /\ held' = [held EXCEPT ![r] = @ \cup {refs'[r]}]
      /\ UNCHANGED <<written, cmd, names, reads, tips>>
      BY DEF OthersMove, Update!OthersChange, reading
<1>3. refs \in [Refs -> RefValues] /\ held \in [Refs -> SUBSET RefValues] BY DEF TypeInv, TypeOK
<1>4. \A s \in Refs : held[s] \subseteq held'[s] BY <1>2, <1>3
<1>5. \A s \in Refs : Held(s) \subseteq Held(s)'
      BY <1>4, Constants DEF Held
<1>6. \A s \in Refs \ written : refs'[s] \in held'[s]
      BY <1>1, <1>2, <1>3 DEF HeldInv
<1>7. CASE cmd.kind \notin RefCommands BY <1>2, <1>6, <1>7 DEF HeldInv
<1>8. CASE cmd.kind \in RefCommands
  <2>1. /\ \A i \in DOMAIN reads : names[i] \in Refs
        /\ \A i \in DOMAIN tips : names[i] \in Refs
        BY DEF TypeInv, TypeOK, ListsInv
  <2> QED BY <1>2, <1>5, <1>6, <1>8, <2>1 DEF HeldInv
<1> QED BY <1>7, <1>8

LEMMA HeldInvStep ==
  ASSUME TypeInv, HeldInv, [Next]_vars
  PROVE  HeldInv'
<1>1. CASE UNCHANGED <<refs, held, written, cmd, names, reads, tips>>
  BY <1>1, HeldInvFrame
<1>2. CASE reads' = <<>> /\ tips' = <<>> /\ UNCHANGED <<refs, held, written, cmd>>
  BY <1>2 DEF HeldInv
<1>3. CASE BeginHead
  <2>1. CASE Fail("read") BY <2>1, HeldInvFrame DEF Fail, reading, calling, history
  <2>2. CASE ~Fail("read")
    <3>1. cmd.kind \in HeadCommands /\ UNCHANGED <<refs, held, written, cmd>>
          BY <1>3, <2>2 DEF BeginHead, calling, history
    <3>2. cmd'.kind \notin RefCommands BY <3>1 DEF HeadCommands, RefCommands
    <3> QED BY <3>1, <3>2 DEF HeldInv
  <2> QED BY <2>1, <2>2
<1>4. CASE ClassifyOne \/ PeelOne BY <1>4, HeldInvRead
<1>5. ASSUME NEW i \in DOMAIN updates, WriteOne(i) PROVE HeldInv'
  <2>1. /\ refs' = [refs EXCEPT ![updates[i].name] = updates[i].target]
        /\ written' = written \cup {updates[i].name}
        /\ UNCHANGED <<held, cmd, names, reads, tips>>
        BY <1>5 DEF WriteOne, Update!Write, reading, history
  <2>2. \A s \in Refs \ written' : refs'[s] \in held'[s] BY <2>1 DEF HeldInv, TypeInv, TypeOK
  <2>3. \A s : Held(s)' = Held(s) BY <2>1 DEF Held
  <2> QED BY <2>1, <2>2, <2>3 DEF HeldInv
<1>6. ASSUME NEW r \in Refs, OthersMove(r) PROVE HeldInv'
  BY <1>6, HeldInvOthers
<1>7. CASE RunAgain
  BY <1>7 DEF RunAgain, HeldInv
<1>8. CASE Rewrite \/ TargetMissing \/ UpdateDone \/ UpdateRefused
  BY <1>8, <1>1 DEF Rewrite, TargetMissing, UpdateDone, UpdateRefused, Update!Succeed,
    Update!Refuse, Fail, reading, calling, history
<1>9. ASSUME NEW how, ReadStops(how) \/ RewriteStops(how) \/ UpdateStops(how) PROVE HeldInv'
  BY <1>9, <1>1 DEF ReadStops, RewriteStops, UpdateStops, Update!Stop, reading, calling, history
<1>10. CASE BeginRewriteRefs \/ CollectDone
  BY <1>10, <1>1 DEF BeginRewriteRefs, CollectDone, calling, history
<1>11. CASE CollectOne \/ BeginRewriteRef
  BY <1>11, <1>2 DEF CollectOne, BeginRewriteRef, Fail, TypeInv, ListsInv, reading, calling, history
<1>12. CASE UNCHANGED vars BY <1>12, <1>1 DEF vars, reading, calling, history
<1> QED
  BY <1>3, <1>4, <1>5, <1>6, <1>7, <1>8, <1>9, <1>10, <1>11, <1>12 DEF Next, Step, Stops

(* What a run of --rewrite-ref or --rewrite-refs makes of what it read.    *)
LEMMA ResultsAreImages ==
  ASSUME TypeInv, cmd.kind \in RefCommands, TargetsAreWalked,
         Len(reads) = Len(names), Len(tips) = Len(names), NEW i \in DOMAIN names
  PROVE  /\ TypeOf[reads[i]] = "tag" => ResultOf(i) = Image(Protected, reads[i])
         /\ TypeOf[reads[i]] # "tag" => ResultOf(i) = Image(Protected, tips[i])
  BY DEF ResultOf, HeadAlone, RefCommands

LEMMA WritesAreImages ==
  ASSUME TypeInv, HeldInv, cmd.kind \in RefCommands, NEW i \in DOMAIN updates, WriteOne(i),
         NEW r, r = updates[i].name
  PROVE  /\ \E id \in Held(r) : refs'[r] \in {Image(Protected, id), Image(Protected, Tip(id))}
         /\ held[r] = {refs[r]} => refs'[r] = Image(Protected, refs[r])
<1>1. /\ pc = "update" /\ r \notin written /\ Replaceable(refs[r])
      /\ refs' = [refs EXCEPT ![r] = updates[i].target]
      BY DEF WriteOne, Update!Write, Update!MayChange, Update!Replaceable, Replaceable
<1>2. /\ updates = [j \in DOMAIN names |-> [name |-> names[j], target |-> ResultOf(j)]]
      /\ Len(reads) = Len(names) /\ Len(tips) = Len(names) /\ TargetsAreWalked
      BY <1>1 DEF TypeInv, ListsInv
<1>3. i \in DOMAIN names /\ r = names[i] /\ updates[i].target = ResultOf(i) BY <1>2
<1>4. /\ r \in Refs /\ names \in Seq(Refs) /\ reads \in Seq(Classified) /\ tips \in Seq(Commits)
      /\ refs \in [Refs -> RefValues]
      BY <1>3 DEF TypeInv, TypeOK
<1>5. i \in DOMAIN reads /\ i \in DOMAIN tips BY <1>2, <1>3, <1>4
<1>6. reads[i] \in Peels /\ reads[i] \in Held(r)
  <2>1. reads[i] \in Peels BY <1>2, <1>3, ResultsAreIds DEF TypeInv
  <2> QED BY <1>3, <1>5, <2>1 DEF HeldInv
<1>7. PICK id \in Held(r) : tips[i] = Tip(id) BY <1>3, <1>5 DEF HeldInv
<1>8. refs'[r] = ResultOf(i) BY <1>1, <1>3, <1>4
<1>9. ResultOf(i) \in {Image(Protected, reads[i]), Image(Protected, Tip(id))}
      BY <1>2, <1>3, <1>7, ResultsAreImages
<1>10. ASSUME held[r] = {refs[r]} PROVE refs'[r] = Image(Protected, refs[r])
  <2>1. refs[r] # Symbolic BY <1>1, IdsAssumption DEF Replaceable
  <2>2. Held(r) \subseteq {refs[r]} BY <1>10, <2>1 DEF Held
  <2>3. reads[i] = refs[r] /\ tips[i] = Tip(refs[r]) /\ refs[r] \in Peels
        BY <1>6, <1>7, <2>2
  <2>4. CASE TypeOf[refs[r]] = "tag" BY <2>3, <2>4, <1>2, <1>3, <1>8, ResultsAreImages
  <2>5. CASE TypeOf[refs[r]] # "tag"
    <3>1. refs[r] \in Commits BY <2>3, <2>5, ObjectsAssumption DEF Commits
    <3>2. tips[i] = refs[r] BY <2>3, <3>1, TipsAreCommits
    <3> QED BY <2>3, <2>5, <3>2, <1>2, <1>3, <1>8, ResultsAreImages
  <2> QED BY <2>4, <2>5
<1> QED BY <1>6, <1>7, <1>8, <1>9, <1>10

(* Each ref that is rewritten gets the image of what that same ref held    *)
(* during the run, and of what it replaces unless others moved the ref.    *)
THEOREM WritesAreOfTheSameRef == Spec => WritesImagesOfTheSameRef
<1> DEFINE Written ==
      \A r \in written' \ written : cmd.kind \in RefCommands =>
        /\ \E id \in Held(r) : refs'[r] \in {Image(Protected, id), Image(Protected, Tip(id))}
        /\ held[r] = {refs[r]} => refs'[r] = Image(Protected, refs[r])
<1>1. ASSUME TypeInv, HeldInv, [Next]_vars PROVE Written
  <2>1. CASE written' \subseteq written BY <2>1
  <2>2. ASSUME NEW i \in DOMAIN updates, WriteOne(i) PROVE Written
    <3>1. written' = written \cup {updates[i].name} BY <2>2 DEF WriteOne, Update!Write
    <3> QED BY <2>2, <3>1, <1>1, WritesAreImages
  <2>3. (\E i \in DOMAIN updates : WriteOne(i)) \/ written' \subseteq written
    BY <1>1
    DEF Next, Step, Stops, vars, Fail, BeginRewriteRefs, CollectOne, CollectDone, BeginRewriteRef,
        BeginHead, ClassifyOne, PeelOne, Rewrite, TargetMissing, UpdateDone, UpdateRefused,
        ReadStops, RewriteStops, UpdateStops, OthersMove, RunAgain, Update!Succeed,
        Update!Refuse, Update!Stop, Update!OthersChange, calling
  <2> QED BY <2>1, <2>2, <2>3
<1>2. TypeInv /\ HeldInv /\ [Next]_vars => TypeInv' /\ HeldInv'
      BY TypeInvStep, HeldInvStep
<1>3. Spec => [](TypeInv /\ HeldInv)
      BY <1>2, TypeInvInit, HeldInvInit, PTL DEF Spec
<1>4. TypeInv /\ HeldInv /\ [Next]_vars => [Written]_vars
      BY <1>1
<1>5. Spec => [][Written]_vars BY <1>3, <1>4, PTL DEF Spec
<1> QED BY <1>5 DEF WritesImagesOfTheSameRef

-----------------------------------------------------------------------------
(* Runs that nobody disturbs. *)

LEMMA ExpectedStays ==
  ASSUME UNCHANGED <<cmd, before>>
  PROVE  Targeted' = Targeted /\ \A r : Expected(r)' = Expected(r)
<1>1. Targeted' = Targeted BY DEF Targeted
<1>2. HeadCommit' = HeadCommit BY DEF HeadCommit
<1>3. \A S : Guarded(S)' = Guarded(S) BY DEF Guarded
<1>4. TargetedTips' = TargetedTips BY <1>1 DEF TargetedTips
<1>5. \A r : Expected(r)' = Expected(r)
      BY <1>1, <1>2, <1>3, <1>4 DEF Expected
<1> QED BY <1>1, <1>5

LEMMA TargetedRefs ==
  ASSUME TypeInv
  PROVE  /\ Targeted \subseteq Refs
         /\ cmd.kind = "rewrite-refs" => Targeted = {r \in Refs : ValidName(r) /\ before[r] \in Peels}
         /\ cmd.kind = "rewrite-ref" => Targeted = {cmd.ref}
         /\ cmd.kind = "commit-without-entry" => Targeted = {}
         /\ cmd.kind \in {"write-rewrite-ref", "rewrite-head-history"} => Targeted = {RewriteRef}
         /\ cmd.kind \in RefCommands \cup HeadCommands
<1>1. cmd.kind \in RefCommands \cup HeadCommands /\ cmd.ref \in Refs
      BY CommandsAssumption DEF TypeInv, TypeOK
<1> QED BY <1>1, Constants DEF Targeted, RefCommands, HeadCommands

LEMMA QuietInvInit == Init => QuietInv
<1> SUFFICES ASSUME Init PROVE QuietInv
    OBVIOUS
<1> QED BY DEF Init, QuietInv, Reading

(* The steps after which no ref is read or written any more, but for those *)
(* that succeed.                                                           *)
LEMMA QuietInvEnds ==
  ASSUME QuietInv, UNCHANGED <<quiet, before, cmd, refs, written>>,
         pc' = "crashed" \/ (pc' = "failed" /\ (reason' = "io" \/ written = {}))
  PROVE  QuietInv'
  BY ExpectedStays DEF QuietInv, Reading

LEMMA QuietInvCollect ==
  ASSUME TypeInv, QuietInv, BeginRewriteRefs \/ CollectOne \/ CollectDone
  PROVE  QuietInv'
<1>1. /\ UNCHANGED <<refs, cmd, before, quiet, written, reads, tips, reason>>
      /\ Targeted' = Targeted /\ \A r : Expected(r)' = Expected(r)
      BY ExpectedStays DEF BeginRewriteRefs, CollectOne, CollectDone, calling, history
<1>2. CASE ~quiet BY <1>1, <1>2 DEF QuietInv
<1>3. CASE quiet
  <2>1. /\ Reading /\ refs = before /\ written = {} /\ names \in Seq(Refs)
        /\ reads = <<>> /\ tips = <<>>
        BY <1>3 DEF BeginRewriteRefs, CollectOne, CollectDone, QuietInv, Reading, TypeInv,
                    TypeOK, ListsInv
  <2>2. CASE BeginRewriteRefs
    <3>1. names' = <<>> /\ next' = 1 /\ pc' = "collect" /\ cmd.kind = "rewrite-refs"
          /\ listed' = {r \in Refs : before[r] # Missing}
          BY <2>1, <2>2 DEF BeginRewriteRefs, TypeInv, ListsInv
    <3>2. Range(names') = {} BY <3>1 DEF Range
    <3> QED BY <1>1, <1>3, <2>1, <3>1, <3>2 DEF QuietInv, Reading
  <2>3. CASE CollectOne
    <3> DEFINE r == Listing[next]
    <3>1. /\ pc = "collect" /\ pc' = "collect" /\ listed' = listed /\ next' = next + 1
          /\ next \in 1..Len(Listing) /\ r \in Refs /\ cmd.kind = "rewrite-refs"
          /\ listed = {s \in Refs : before[s] # Missing}
          /\ \A s \in Refs : s \in Range(names) <=>
               s \in Targeted /\ \E k \in 1..(next - 1) : s = Listing[k]
          /\ names' = IF r \in listed /\ Rewriteable(r) THEN Append(names, r) ELSE names
          BY <1>3, <2>3, Constants DEF CollectOne, QuietInv, TypeInv, TypeOK
    <3> HIDE DEF r
    <3>2. r \in listed /\ Rewriteable(r) <=> r \in Targeted
          BY <2>1, <3>1, TargetedRefs, IdsAssumption DEF Rewriteable
    <3>3. Range(names') = IF r \in Targeted THEN Range(names) \cup {r} ELSE Range(names)
      <4>1. CASE r \in Targeted
        <5>1. names' = Append(names, r) BY <3>1, <3>2, <4>1
        <5>2. /\ DOMAIN names' = 1..(Len(names) + 1)
              /\ names'[Len(names) + 1] = r /\ \A i \in 1..Len(names) : names'[i] = names[i]
              BY <2>1, <3>1, <5>1
        <5>3. DOMAIN names = 1..Len(names) /\ Len(names) \in Nat BY <2>1
        <5> QED BY <4>1, <5>2, <5>3 DEF Range
      <4>2. CASE r \notin Targeted BY <3>1, <3>2, <4>2
      <4> QED BY <4>1, <4>2
    <3>4. \A s \in Refs : (\E k \in 1..(next' - 1) : s = Listing[k]) <=>
             (\E k \in 1..(next - 1) : s = Listing[k]) \/ s = r
          BY <3>1 DEF r
    <3>5. \A s \in Refs : s \in Range(names') <=>
            s \in Targeted /\ \E k \in 1..(next' - 1) : s = Listing[k]
          BY <3>1, <3>3, <3>4
    <3> QED BY <1>1, <1>3, <2>1, <3>1, <3>5 DEF QuietInv, Reading
  <2>4. CASE CollectDone
    <3>1. /\ pc = "collect" /\ names' = names /\ cmd.kind = "rewrite-refs" /\ next - 1 = Len(Listing)
          /\ pc' = IF names = <<>> THEN "done" ELSE "classify"
          /\ \A s \in Refs : s \in Range(names) <=>
               s \in Targeted /\ \E k \in 1..(next - 1) : s = Listing[k]
          BY <1>3, <2>4, Constants DEF CollectDone, QuietInv, TypeInv, TypeOK
    <3>2. \A s \in Refs : \E k \in 1..(next - 1) : s = Listing[k]
          BY <3>1, Constants, RefNamesAssumption DEF Range
    <3>3. Range(names) \subseteq Refs BY <2>1 DEF Range
    <3>4. Range(names) = Targeted BY <3>1, <3>2, <3>3, TargetedRefs
    <3>5. CASE names = <<>>
      <4>1. Targeted = {} BY <3>4, <3>5 DEF Range
      <4>2. \A r : Expected(r) = before[r] BY <4>1 DEF Expected
      <4> QED BY <1>1, <1>3, <2>1, <3>1, <3>5, <4>1, <4>2 DEF QuietInv, Reading
    <3>6. CASE names # <<>>
      <4>1. \A i \in DOMAIN names : names[i] \in Targeted BY <3>4 DEF Range
      <4>2. \A i \in DOMAIN names : before[names[i]] \in Peels BY <3>1, <4>1, TargetedRefs
      <4> QED BY <1>1, <1>3, <2>1, <3>1, <3>4, <3>6, <4>2 DEF QuietInv, Reading, RefCommands
    <3> QED BY <3>5, <3>6
  <2> QED BY <2>2, <2>3, <2>4
<1> QED BY <1>2, <1>3

LEMMA QuietInvBeginRef ==
  ASSUME TypeInv, QuietInv, BeginRewriteRef
  PROVE  QuietInv'
<1>1. written = {} BY DEF BeginRewriteRef, TypeInv, ListsInv, Reading
<1>2. CASE Fail("invalid")
  BY <1>1, <1>2, QuietInvEnds DEF Fail, calling, history
<1>3. CASE ~Fail("invalid")
  <2>1. /\ pc = "begin" /\ pc' = "classify" /\ names' = <<cmd.ref>> /\ cmd.kind = "rewrite-ref"
        /\ Rewriteable(cmd.ref) /\ reads' = <<>> /\ tips' = <<>>
        /\ UNCHANGED <<refs, cmd, before, quiet, written>>
        BY <1>3 DEF BeginRewriteRef, calling, history, TypeInv, ListsInv
  <2>2. Range(names') = {cmd.ref} BY <2>1 DEF Range
  <2>3. Targeted' = Targeted /\ Targeted = {cmd.ref} /\ \A r : Expected(r)' = Expected(r)
        BY <2>1, ExpectedStays, TargetedRefs
  <2>4. quiet => before[cmd.ref] \in Peels /\ refs = before
        BY <2>1 DEF QuietInv, Rewriteable, Reading
  <2> QED BY <1>1, <2>1, <2>2, <2>3, <2>4 DEF QuietInv, Reading, RefCommands
<1> QED BY <1>2, <1>3

LEMMA QuietInvBeginHead ==
  ASSUME TypeInv, QuietInv, BeginHead
  PROVE  QuietInv'
<1>1. written = {} BY DEF BeginHead, TypeInv, ListsInv, Reading
<1>2. CASE Fail("read")
  BY <1>1, <1>2, QuietInvEnds DEF Fail, calling, history
<1>3. CASE ~Fail("read")
  <2> DEFINE c == Tip(Resolved(HeadBranch))
  <2>1. /\ pc = "begin" /\ pc' = "rewrite" /\ names' = <<RewriteRef>> /\ cmd.kind \in HeadCommands
        /\ reads' = <<c>> /\ tips' = <<c>> /\ Resolved(HeadBranch) \in Peels
        /\ UNCHANGED <<refs, cmd, before, quiet, written>>
        BY <1>3 DEF BeginHead, calling, history
  <2>2. c \in Commits BY <2>1, TipsAreCommits
  <2>3. quiet => c = HeadCommit /\ refs = before
        BY <2>1 DEF QuietInv, Reading, Resolved, HeadCommit
  <2> HIDE DEF c
  <2>4. Range(names') = {RewriteRef} /\ Range(tips') = {c} BY <2>1 DEF Range
  <2>5. Targeted' = Targeted /\ \A r : Expected(r)' = Expected(r) BY <2>1, ExpectedStays
  <2>6. Protected' = Guarded({c}) BY <2>1, <2>4 DEF Protected, Guarded
  <2>7. TypeOf[c] # "tag" BY <2>2 DEF Commits
  <2>8. ResultOf(1)' = IF cmd.kind = "rewrite-head-history" THEN Image(Guarded({c}), c) ELSE HeadImage(c)
        BY <2>1, <2>6, <2>7 DEF ResultOf, HeadAlone, HeadCommands
  <2>9. Range(names') = Targeted' \/ cmd'.kind = "commit-without-entry"
        BY <2>1, <2>4, <2>5, TargetedRefs DEF HeadCommands
  <2>10. ASSUME quiet, RewriteRef \in Targeted PROVE ResultOf(1)' = Expected(RewriteRef)
    <3>1. cmd.kind \in {"write-rewrite-ref", "rewrite-head-history"} /\ cmd.kind \notin RefCommands
          BY <2>1, <2>10, TargetedRefs DEF HeadCommands, RefCommands
    <3> QED BY <2>3, <2>8, <2>10, <3>1 DEF Expected
  <2>11. \A i \in DOMAIN names' : i = 1 /\ names'[i] = RewriteRef BY <2>1
  <2> QED BY <1>1, <2>1, <2>3, <2>5, <2>9, <2>10, <2>11 DEF QuietInv, Reading
<1> QED BY <1>2, <1>3

(* All tips read as they were when the run began: the results are those    *)
(* expected.                                                               *)
LEMMA QuietResults ==
  ASSUME TypeInv, cmd.kind \in RefCommands, Range(names) = Targeted,
         NEW S, S = Guarded(TargetedTips), NEW i \in DOMAIN names, before[names[i]] \in Peels
  PROVE  /\ TypeOf[before[names[i]]] = "tag" => Image(S, before[names[i]]) = Expected(names[i])
         /\ TypeOf[before[names[i]]] # "tag" => Image(S, Tip(before[names[i]])) = Expected(names[i])
<1>1. names[i] \in Targeted BY DEF Range
<1>2. Expected(names[i]) = Image(S, before[names[i]])
      BY <1>1 DEF Expected, RefCommands
<1>3. ASSUME TypeOf[before[names[i]]] # "tag" PROVE Tip(before[names[i]]) = before[names[i]]
      BY <1>3, ObjectsAssumption DEF Commits
<1> QED BY <1>2, <1>3

LEMMA QuietInvRead ==
  ASSUME TypeInv, QuietInv, ClassifyOne \/ PeelOne
  PROVE  QuietInv'
<1>1. /\ written = {} /\ next \in DOMAIN names /\ names \in Seq(Refs)
      /\ reads \in Seq(Classified) /\ tips \in Seq(Commits)
      /\ pc = "classify" \/ pc = "peel"
      BY DEF ClassifyOne, PeelOne, TypeInv, TypeOK, ListsInv, Reading
<1>2. CASE Fail("read")
  BY <1>1, <1>2, QuietInvEnds DEF Fail, calling, history
<1>3. CASE ~quiet
  BY <1>3 DEF ClassifyOne, PeelOne, Fail, QuietInv, history
<1> DEFINE b(i) == before[names[i]]
<1>4. ASSUME quiet
      PROVE  /\ Resolved(names[next]) = b(next) /\ refs = before
             /\ cmd.kind \in RefCommands /\ Range(names) = Targeted
             /\ \A i \in DOMAIN names : b(i) \in Peels
             /\ \A i \in DOMAIN reads : reads[i] = b(i)
             /\ \A i \in DOMAIN tips : tips[i] = Tip(b(i))
  <2>1. /\ refs = before /\ cmd.kind \in RefCommands /\ Range(names) = Targeted
        /\ \A i \in DOMAIN names : b(i) \in Peels
        /\ \A i \in DOMAIN reads : reads[i] = b(i)
        /\ \A i \in DOMAIN tips : tips[i] = Tip(b(i))
        BY <1>1, <1>4 DEF QuietInv, Reading
  <2>2. b(next) \in Peels /\ refs[names[next]] # Symbolic BY <1>1, <2>1, IdsAssumption
  <2>3. Resolved(names[next]) = b(next) BY <2>1, <2>2 DEF Resolved
  <2> QED BY <2>1, <2>3
<1>5. CASE quiet /\ ClassifyOne /\ ~Fail("read")
  <2>1. /\ reads' = Append(reads, b(next)) /\ Len(reads) = next - 1 /\ pc' = "peel"
        /\ UNCHANGED <<refs, cmd, names, tips, before, quiet, written>>
        BY <1>4, <1>5 DEF ClassifyOne, TypeInv, ListsInv, calling, history
  <2>2. \A i \in DOMAIN reads' :
          (i \in DOMAIN reads /\ reads'[i] = reads[i]) \/ (i = next /\ reads'[i] = b(next))
        BY <1>1, <2>1
  <2>3. \A i \in DOMAIN reads' : reads'[i] = b(i) BY <1>4, <1>5, <2>2
  <2>4. Targeted' = Targeted /\ \A r : Expected(r)' = Expected(r) BY <2>1, ExpectedStays
  <2>5. \A r \in Refs : refs[r] = before[r] BY <1>4, <1>5
  <2> QED BY <1>1, <1>4, <1>5, <2>1, <2>3, <2>4, <2>5 DEF QuietInv, Reading
<1>6. CASE quiet /\ PeelOne /\ ~Fail("read")
  <2>1. /\ tips' = Append(tips, Tip(b(next))) /\ Len(tips) = next - 1 /\ Len(reads) = next
        /\ pc' = IF next < Len(names) THEN "classify" ELSE "rewrite"
        /\ UNCHANGED <<refs, cmd, names, reads, before, quiet, written>>
        BY <1>4, <1>6 DEF PeelOne, TypeInv, ListsInv, calling, history
  <2>2. \A i \in DOMAIN tips' :
          (i \in DOMAIN tips /\ tips'[i] = tips[i]) \/ (i = next /\ tips'[i] = Tip(b(next)))
        BY <1>1, <2>1
  <2>3. \A i \in DOMAIN tips' : tips'[i] = Tip(b(i)) BY <1>4, <1>6, <2>2
  <2>4. Targeted' = Targeted /\ \A r : Expected(r)' = Expected(r) BY <2>1, ExpectedStays
  <2>5. \A r \in Refs : refs[r] = before[r] BY <1>4, <1>6
  <2>6. CASE next < Len(names)
    BY <1>1, <1>4, <1>6, <2>1, <2>3, <2>4, <2>5, <2>6 DEF QuietInv, Reading
  <2>7. CASE ~(next < Len(names))
    <3>1. /\ next = Len(names) /\ pc' = "rewrite" /\ DOMAIN tips' = DOMAIN names
          /\ DOMAIN reads = DOMAIN names
          BY <1>1, <2>1, <2>7
    <3>2. Range(tips') \subseteq TargetedTips
          BY <1>4, <1>6, <2>3, <3>1 DEF Range, TargetedTips
    <3>3. TargetedTips \subseteq Range(tips')
          BY <1>4, <1>6, <2>3, <3>1 DEF Range, TargetedTips
    <3>4. Protected' = Guarded(TargetedTips)
      <4>1. Range(tips') = TargetedTips BY <3>2, <3>3
      <4>2. Range(tips)' = TargetedTips BY <4>1 DEF Range
      <4> QED BY <2>1, <4>2 DEF Protected, Guarded
    <3> DEFINE S == Guarded(TargetedTips)
    <3>5. ASSUME NEW i \in DOMAIN names PROVE ResultOf(i)' = Expected(names[i])
      <4>1. /\ reads'[i] = b(i) /\ tips'[i] = Tip(b(i)) /\ b(i) \in Peels
            /\ cmd'.kind \in RefCommands
            BY <1>4, <1>6, <2>1, <2>3, <3>1, <3>5
      <4>2. ResultOf(i)' = Image(S, IF TypeOf[b(i)] = "tag" THEN b(i) ELSE Tip(b(i)))
            BY <3>4, <4>1 DEF ResultOf, HeadAlone, RefCommands
      <4> QED BY <1>4, <1>6, <3>5, <4>1, <4>2, QuietResults
    <3>6. \A i \in DOMAIN names' : ResultOf(i)' = Expected(names[i])' BY <2>1, <2>4, <3>5
    <3> QED BY <1>1, <1>4, <1>6, <2>1, <2>4, <2>5, <3>1, <3>6 DEF QuietInv, Reading
  <2> QED BY <2>6, <2>7
<1> QED BY <1>2, <1>3, <1>5, <1>6

LEMMA QuietInvRewrite ==
  ASSUME TypeInv, QuietInv, Rewrite
  PROVE  QuietInv'
<1>1. /\ UNCHANGED <<refs, cmd, names, reads, tips, before, quiet, written, reading>>
      /\ pc = "rewrite" /\ pc' = IF cmd.kind = "commit-without-entry" THEN "done" ELSE "update"
      /\ written = {}
      BY DEF Rewrite, reading, history, TypeInv, ListsInv, Reading
<1>2. Targeted' = Targeted /\ \A r : Expected(r)' = Expected(r) BY <1>1, ExpectedStays
<1>3. \A i : ResultOf(i)' = ResultOf(i) BY <1>1, ResultsStay
<1>4. cmd.kind = "commit-without-entry" => \A r : Expected(r) = before[r]
      BY TargetedRefs DEF Expected
<1> QED BY <1>1, <1>2, <1>3, <1>4 DEF QuietInv, Reading

LEMMA QuietInvUpdate ==
  ASSUME TypeInv, QuietInv, (\E i \in DOMAIN updates : WriteOne(i)) \/ UpdateDone
  PROVE  QuietInv'
<1>1. /\ pc = "update" /\ UNCHANGED <<cmd, names, reads, tips, before, quiet, reading>>
      /\ updates = [i \in DOMAIN names |-> [name |-> names[i], target |-> ResultOf(i)]]
      /\ refs \in [Refs -> RefValues] /\ names \in Seq(Refs)
      BY DEF WriteOne, UpdateDone, reading, history, TypeInv, TypeOK, ListsInv
<1>2. Targeted' = Targeted /\ \A r : Expected(r)' = Expected(r) BY <1>1, ExpectedStays
<1>3. \A i : ResultOf(i)' = ResultOf(i) BY <1>1, ResultsStay
<1>4. CASE ~quiet BY <1>1, <1>4 DEF QuietInv
<1>5. ASSUME quiet
      PROVE  /\ Range(names) = Targeted /\ written \subseteq Targeted
             /\ \A i \in DOMAIN names : names[i] \in Targeted /\ ResultOf(i) = Expected(names[i])
             /\ \A r \in Refs : refs[r] = IF r \in written THEN Expected(r) ELSE before[r]
  <2>1. Range(names) = Targeted BY <1>1, <1>5 DEF QuietInv, TypeInv, ListsInv
  <2>2. \A i \in DOMAIN names : names[i] \in Targeted BY <2>1 DEF Range
  <2> QED BY <1>1, <1>5, <2>1, <2>2 DEF QuietInv
<1>6. ASSUME quiet, NEW i \in DOMAIN updates, WriteOne(i) PROVE QuietInv'
  <2>1. /\ i \in DOMAIN names /\ updates[i].name = names[i] /\ updates[i].target = Expected(names[i])
        /\ names[i] \in Targeted
        BY <1>1, <1>5, <1>6
  <2>2. /\ refs' = [refs EXCEPT ![names[i]] = Expected(names[i])]
        /\ written' = written \cup {names[i]} /\ pc' = "update"
        BY <1>1, <1>6, <2>1 DEF WriteOne, Update!Write
  <2>3. \A r \in Refs : refs'[r] = IF r \in written' THEN Expected(r) ELSE before[r]
        BY <1>1, <1>5, <1>6, <2>2
  <2>4. written' \subseteq Targeted BY <1>5, <1>6, <2>1, <2>2
  <2> QED BY <1>1, <1>2, <1>3, <1>5, <1>6, <2>2, <2>3, <2>4 DEF QuietInv, Reading
<1>7. CASE quiet /\ UpdateDone
  <2>1. /\ written = Update!Names /\ pc' = "done" /\ UNCHANGED <<refs, written>>
        BY <1>7 DEF UpdateDone, Update!Succeed
  <2>2. Update!Names = Range(names) BY <1>1 DEF Update!Names, Range
  <2>3. \A r \in Refs : refs[r] = Expected(r)
        BY <1>5, <1>7, <2>1, <2>2 DEF Expected
  <2> QED BY <1>1, <1>2, <1>5, <1>7, <2>1, <2>3 DEF QuietInv, Reading
<1> QED BY <1>4, <1>6, <1>7

LEMMA QuietInvStep ==
  ASSUME TypeInv, QuietInv, [Next]_vars
  PROVE  QuietInv'
<1>1. CASE UNCHANGED vars
  <2>1. /\ UNCHANGED <<refs, cmd, pc, next, listed, names, reads, tips, before, quiet, written, reason>>
        /\ UNCHANGED reading
        BY <1>1 DEF vars, reading, calling, history
  <2>2. Targeted' = Targeted /\ \A r : Expected(r)' = Expected(r) BY <2>1, ExpectedStays
  <2>3. \A i : ResultOf(i)' = ResultOf(i) BY <2>1, ResultsStay
  <2> QED BY <2>1, <2>2, <2>3 DEF QuietInv, Reading
<1>2. CASE TargetMissing
  BY <1>2, QuietInvEnds DEF TargetMissing, Fail, calling, history, TypeInv, ListsInv, Reading
<1>3. CASE UpdateRefused
  BY <1>3, QuietInvEnds DEF UpdateRefused, Update!Refuse, history
<1>4. ASSUME NEW how \in {"failed", "crashed"}, ReadStops(how) \/ RewriteStops(how) \/ UpdateStops(how)
      PROVE QuietInv'
  BY <1>4, QuietInvEnds DEF ReadStops, RewriteStops, UpdateStops, Update!Stop, calling, history
<1>5. ASSUME NEW r \in Refs, OthersMove(r) PROVE QuietInv'
  BY <1>5 DEF OthersMove, QuietInv
<1>6. CASE RunAgain
  BY <1>6 DEF RunAgain, QuietInv, Reading
<1> QED
  BY <1>1, <1>2, <1>3, <1>4, <1>5, <1>6, QuietInvCollect, QuietInvBeginRef, QuietInvBeginHead,
     QuietInvRead, QuietInvRewrite, QuietInvUpdate
  DEF Next, Step, Stops

(* A run that nobody disturbs changes the refs it is about, all of them, to *)
(* their images, or, when it fails but for an I/O error, none.             *)
THEOREM RunsAreAllOrNothing == Spec => []AllOrNothing
<1>1. TypeInv /\ QuietInv => AllOrNothing
  <2> SUFFICES ASSUME TypeInv, QuietInv, quiet PROVE AllOrNothing
      BY DEF AllOrNothing
  <2>1. ASSUME written = {} PROVE refs = before
        BY <2>1 DEF QuietInv, TypeInv, TypeOK
  <2> QED BY <2>1 DEF QuietInv, AllOrNothing
<1>2. TypeInv /\ QuietInv /\ [Next]_vars => TypeInv' /\ QuietInv'
      BY TypeInvStep, QuietInvStep
<1> QED BY <1>1, <1>2, TypeInvInit, QuietInvInit, PTL DEF Spec

-----------------------------------------------------------------------------
(* Runs after runs. *)

LEMMA RerunInvInit == Init => RerunInv
  BY DEF Init, RerunInv

LEMMA ExpectedIsFinal ==
  ASSUME TypeInv, RerunInv, cmd.kind = "rewrite-refs", ~cmd.protect, moves = 0, NEW r \in Refs
  PROVE  Expected(r) = FinalOf(r)
<1>1. before[r] \in {origin[r], FinalOf(r)} BY DEF RerunInv
<1>2. r \in Targeted <=> ValidName(r) /\ before[r] \in Peels BY TargetedRefs
<1>3. Guarded(TargetedTips) = {} BY DEF Guarded
<1>4. ASSUME ValidName(r), origin[r] \in Peels PROVE Expected(r) = FinalOf(r)
  <2>1. FinalOf(r) = Image({}, origin[r]) /\ FinalOf(r) \in Peels
        BY <1>4, ImagesArePeeled DEF FinalOf
  <2>2. r \in Targeted BY <1>1, <1>2, <1>4, <2>1
  <2>3. Expected(r) = Image({}, before[r]) BY <1>3, <2>2 DEF Expected, RefCommands
  <2>4. Image({}, Image({}, origin[r])) = Image({}, origin[r]) BY <1>4, ImagesAssumption
  <2> QED BY <1>1, <2>1, <2>3, <2>4
<1>5. ASSUME ~(ValidName(r) /\ origin[r] \in Peels) PROVE Expected(r) = FinalOf(r)
  <2>1. FinalOf(r) = origin[r] /\ before[r] = origin[r] BY <1>1, <1>5 DEF FinalOf
  <2>2. r \notin Targeted BY <1>2, <1>5, <2>1
  <2> QED BY <2>1, <2>2 DEF Expected
<1> QED BY <1>4, <1>5

LEMMA RefsAreFirstOrFinal ==
  ASSUME TypeInv, QuietInv, RerunInv, cmd.kind = "rewrite-refs", ~cmd.protect, moves = 0,
         NEW r \in Refs
  PROVE  refs[r] \in {origin[r], FinalOf(r)} /\ (pc = "done" => refs[r] = FinalOf(r))
<1>1. quiet /\ before[r] \in {origin[r], FinalOf(r)} BY DEF RerunInv
<1>2. Expected(r) = FinalOf(r) BY ExpectedIsFinal
<1> QED BY <1>1, <1>2 DEF QuietInv

LEMMA RerunInvStep ==
  ASSUME TypeInv, QuietInv, RerunInv, [Next]_vars
  PROVE  RerunInv'
<1>1. CASE UNCHANGED <<cmd, moves, quiet, before, origin>>
  BY <1>1 DEF RerunInv, FinalOf
<1>2. ASSUME NEW r \in Refs, OthersMove(r) PROVE RerunInv'
  <2>1. moves' # 0 BY <1>2 DEF OthersMove, TypeInv, TypeOK
  <2> QED BY <2>1 DEF RerunInv
<1>3. CASE RunAgain
  <2>1. UNCHANGED <<cmd, moves, origin>> /\ quiet' = TRUE /\ before' = refs
        BY <1>3 DEF RunAgain
  <2>2. \A r : FinalOf(r)' = FinalOf(r) BY <2>1 DEF FinalOf
  <2> QED BY <2>1, <2>2, RefsAreFirstOrFinal DEF RerunInv
<1> QED
  BY <1>1, <1>2, <1>3
  DEF Next, Step, Stops, vars, Fail, BeginRewriteRefs, CollectOne, CollectDone, BeginRewriteRef,
      BeginHead, ClassifyOne, PeelOne, Rewrite, TargetMissing, WriteOne, UpdateDone, UpdateRefused,
      ReadStops, RewriteStops, UpdateStops, history

(* Without blob protection --rewrite-refs may be stopped anywhere and run  *)
(* again, as often as it takes: no ref is lost on the way, and a run that  *)
(* succeeds comes to the result of the run that was never stopped.         *)
THEOREM Convergence == Spec => []RerunsConverge
<1>1. TypeInv /\ QuietInv /\ RerunInv => RerunsConverge
      BY RefsAreFirstOrFinal DEF RerunsConverge, FinalOf
<1>2. TypeInv /\ QuietInv /\ RerunInv /\ [Next]_vars => TypeInv' /\ QuietInv' /\ RerunInv'
      BY TypeInvStep, QuietInvStep, RerunInvStep
<1> QED BY <1>1, <1>2, TypeInvInit, QuietInvInit, RerunInvInit, PTL DEF Spec
=============================================================================
