--------------------------- MODULE GitObjectProofs ---------------------------
(***************************************************************************)
(* Facts about git objects: peeling is well defined where tags do not go   *)
(* in circles, and new objects do not change it.                           *)
(***************************************************************************)
EXTENDS GitObjects, TLAPS

(* A set of tags of which each points to another one of them is empty.     *)
(* This is induction along chains of tags.                                 *)
LEMMA TagInduction ==
  ASSUME NEW objects, TagsNest(objects),
         NEW set, set \subseteq {o \in objects : o.type = "tag"},
         \A t \in set : t.target \in set
  PROVE  set = {}
BY DEF TagsNest

LEMMA TargetStays ==
  ASSUME NEW objects, Closed(objects), NEW o \in objects, o.type = "tag"
  PROVE  o.target \in objects
BY DEF Closed, Needs

(* The equation of the recursion in PeelIn has a solution, so PeelIn is it. *)
LEMMA PeelEquation ==
  ASSUME NEW objects, Closed(objects), TagsNest(objects)
  PROVE  PeelIn(objects) =
           [o \in objects |-> IF o.type = "tag" THEN PeelIn(objects)[o.target] ELSE o]
<1> DEFINE Down(S) == S \subseteq objects /\ \A x \in S : x.type = "tag" => x.target \in S
           Solves(h, S) == \A x \in S : h[x] = IF x.type = "tag" THEN h[x.target] ELSE x
<1>1. ASSUME NEW S, NEW T, NEW h, NEW k, Down(S), Down(T), Solves(h, S), Solves(k, T)
      PROVE  \A x \in S \cap T : h[x] = k[x]
  <2> DEFINE bad == {x \in S \cap T : h[x] # k[x]}
  <2>1. bad \subseteq {o \in objects : o.type = "tag"}
    BY <1>1
  <2>2. \A t \in bad : t.target \in bad
    BY <1>1, <2>1
  <2>3. QED
    BY <2>1, <2>2, TagInduction
<1> DEFINE Solved(x, h) == \E S : Down(S) /\ x \in S /\ Solves(h, S)
           U == {x \in objects : \E h : Solved(x, h)}
           sol(x) == CHOOSE h : Solved(x, h)
           g == [x \in U |-> sol(x)[x]]
<1>2. \A x \in U : Solved(x, sol(x))
  OBVIOUS
<1>3. ASSUME NEW x \in objects, NEW h, Solved(x, h)
      PROVE  x \in U /\ g[x] = h[x]
  <2>1. x \in U
    BY <1>3
  <2>2. sol(x)[x] = h[x]
    <3> HIDE DEF Down, Solves, sol
    <3> QED BY <1>1, <1>2, <1>3, <2>1
  <2> QED BY <2>1, <2>2
<1>4. Down(U) /\ Solves(g, U)
  <2> SUFFICES ASSUME NEW x \in U
               PROVE  /\ x.type = "tag" => x.target \in U
                      /\ g[x] = IF x.type = "tag" THEN g[x.target] ELSE x
    OBVIOUS
  <2> DEFINE h == sol(x)
  <2>1. PICK S : Down(S) /\ x \in S /\ Solves(h, S)
    BY <1>2
  <2> HIDE DEF h, sol, U, g
  <2>2. Solved(x, h) /\ x \in objects
    BY <2>1
  <2>3. ASSUME x.type = "tag" PROVE Solved(x.target, h) /\ x.target \in objects
    BY <2>1, <2>3
  <2>4. g[x] = h[x]
    BY <2>2, <1>3
  <2>5. CASE x.type = "tag"
    BY <2>1, <2>3, <2>4, <2>5, <1>3
  <2>6. CASE x.type # "tag"
    BY <2>1, <2>4, <2>6
  <2> QED BY <2>5, <2>6
<1>5. U = objects
  <2> DEFINE bad == objects \ U
  <2> SUFFICES bad = {}
    OBVIOUS
  <2>1. ASSUME NEW o \in bad, o.type # "tag" PROVE FALSE
    <3>1. Down({o}) /\ Solves([x \in {o} |-> o], {o})
      BY <2>1
    <3>2. Solved(o, [x \in {o} |-> o])
      BY <3>1
    <3> QED BY <2>1, <3>2
  <2>2. ASSUME NEW t \in bad, t.type = "tag", t.target \notin bad PROVE FALSE
    <3> DEFINE S == U \cup {t}
               h == [x \in S |-> IF x = t THEN g[t.target] ELSE g[x]]
    <3>1. t.target \in U /\ t \notin U /\ t.target # t
      BY <2>2, TargetStays
    <3> HIDE DEF U, g
    <3>2. Down(S)
      BY <1>4, <2>2, <3>1
    <3>3. Solves(h, S)
      BY <1>4, <2>2, <3>1
    <3>4. Solved(t, h)
      BY <3>2, <3>3
    <3> QED BY <3>1, <3>4, <2>2 DEF U
  <2>3. bad \subseteq {o \in objects : o.type = "tag"}
    BY <2>1
  <2>4. \A t \in bad : t.target \in bad
    <3> HIDE DEF bad
    <3> QED BY <2>2, <2>3
  <2> HIDE DEF bad
  <2> QED BY <2>3, <2>4, TagInduction
<1> DEFINE Body(f) == [o \in objects |-> IF o.type = "tag" THEN f[o.target] ELSE o]
<1>6. g = Body(g)
  <2> HIDE DEF g, U, sol
  <2>1. g = [x \in U |-> g[x]]
    BY DEF g
  <2> QED BY <1>4, <1>5, <2>1
<1>7. PeelIn(objects) = CHOOSE f : f = Body(f)
  BY DEF PeelIn
<1> HIDE DEF g, Body
<1>8. PeelIn(objects) = Body(PeelIn(objects))
  BY <1>6, <1>7
<1> QED BY <1>8 DEF Body

(* The same, object by object. *)
LEMMA PeelSteps ==
  ASSUME NEW objects, Closed(objects), TagsNest(objects), NEW o \in objects
  PROVE  /\ o.type = "tag" =>
              o.target \in objects /\ PeelIn(objects)[o] = PeelIn(objects)[o.target]
         /\ o.type # "tag" => PeelIn(objects)[o] = o
BY PeelEquation, TargetStays

-----------------------------------------------------------------------------
(* Where tags still do not go in circles. *)

LEMMA NestSubset ==
  ASSUME NEW objects, TagsNest(objects),
         NEW others, \A o \in others : o.type = "tag" => o \in objects
  PROVE  TagsNest(others)
<1> SUFFICES ASSUME NEW set \in SUBSET {o \in others : o.type = "tag"}, set # {}
             PROVE  \E t \in set : t.target \notin set
  BY DEF TagsNest
<1>1. set \subseteq {o \in objects : o.type = "tag"}
  OBVIOUS
<1>2. QED
  BY <1>1, TagInduction

(* A new tag cannot be what an older one points to. *)
LEMMA NestAdd ==
  ASSUME NEW objects, TagsNest(objects), Closed(objects),
         NEW new, new.type = "tag", new.target \in objects
  PROVE  TagsNest(objects \cup {new})
<1> SUFFICES ASSUME NEW set \in SUBSET {o \in objects \cup {new} : o.type = "tag"},
                    \A t \in set : t.target \in set
             PROVE  set = {}
  BY DEF TagsNest
<1>1. CASE new \in objects
  <2>1. set \subseteq {o \in objects : o.type = "tag"}
    BY <1>1
  <2> QED BY <2>1, TagInduction
<1>2. CASE new \notin objects
  <2> DEFINE old == set \ {new}
  <2>1. old \subseteq {o \in objects : o.type = "tag"}
    OBVIOUS
  <2>2. \A t \in old : t.target \in old
    BY <1>2, <2>1, TargetStays
  <2>3. old = {}
    <3> HIDE DEF old
    <3> QED BY <2>1, <2>2, TagInduction
  <2>4. new.target \notin set
    BY <1>2, <2>3
  <2> QED BY <2>3, <2>4
<1> QED BY <1>1, <1>2

-----------------------------------------------------------------------------
(* Tags that are copied onto the images of what they point to peel to the  *)
(* image of what they peeled to.                                           *)
LEMMA PeelImages ==
  ASSUME NEW old, Closed(old), TagsNest(old), NEW new, Closed(new), TagsNest(new),
         NEW commits, \A c \in DOMAIN commits : commits[c] \in new /\ commits[c].type = "commit",
         NEW tags, DOMAIN tags \subseteq {t \in old : t.type = "tag"},
         \A t \in DOMAIN tags :
           /\ tags[t] \in new
           /\ \/ /\ t.target.type = "commit" /\ t.target \in DOMAIN commits
                 /\ tags[t] = Tag(t.name, commits[t.target])
              \/ /\ t.target.type = "tag" /\ t.target \in DOMAIN tags
                 /\ tags[t] = Tag(t.name, tags[t.target])
  PROVE  \A t \in DOMAIN tags :
           /\ PeelIn(old)[t] \in DOMAIN commits
           /\ PeelIn(new)[tags[t]] = commits[PeelIn(old)[t]]
<1> DEFINE Good(t) == /\ PeelIn(old)[t] \in DOMAIN commits
                      /\ PeelIn(new)[tags[t]] = commits[PeelIn(old)[t]]
           bad == {t \in DOMAIN tags : ~Good(t)}
<1>1. ASSUME NEW t \in DOMAIN tags, t.target \notin bad PROVE Good(t)
  <2>1. t \in old /\ t.type = "tag" /\ tags[t] \in new
    OBVIOUS
  <2>2. t.target \in old /\ PeelIn(old)[t] = PeelIn(old)[t.target]
    BY <2>1, PeelSteps
  <2>3. CASE /\ t.target.type = "commit" /\ t.target \in DOMAIN commits
             /\ tags[t] = Tag(t.name, commits[t.target])
    <3>1. PeelIn(old)[t] = t.target
      BY <2>2, <2>3, PeelSteps
    <3>2. tags[t].type = "tag" /\ tags[t].target = commits[t.target]
      BY <2>3 DEF Tag
    <3>3. PeelIn(new)[tags[t]] = PeelIn(new)[commits[t.target]]
      BY <2>1, <3>2, PeelSteps
    <3>4. PeelIn(new)[commits[t.target]] = commits[t.target]
      BY <2>3, PeelSteps
    <3> QED BY <2>3, <3>1, <3>3, <3>4
  <2>4. CASE /\ t.target.type = "tag" /\ t.target \in DOMAIN tags
             /\ tags[t] = Tag(t.name, tags[t.target])
    <3>1. Good(t.target)
      BY <1>1, <2>4
    <3>2. tags[t].type = "tag" /\ tags[t].target = tags[t.target]
      BY <2>4 DEF Tag
    <3>3. PeelIn(new)[tags[t]] = PeelIn(new)[tags[t.target]]
      BY <2>1, <3>2, PeelSteps
    <3> QED BY <2>2, <3>1, <3>3
  <2> QED BY <2>3, <2>4
<1>2. bad \subseteq {o \in old : o.type = "tag"}
  OBVIOUS
<1>3. \A t \in bad : t.target \in bad
  <2> HIDE DEF Good
  <2> QED BY <1>1
<1>4. bad = {}
  <2> HIDE DEF bad
  <2> QED BY <1>2, <1>3, TagInduction
<1> QED BY <1>4
=============================================================================
