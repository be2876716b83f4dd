---------------------------- MODULE ActorsProofs ----------------------------
(***************************************************************************)
(* Proofs about Actors, for any processes, tags and bounds.                *)
(***************************************************************************)
EXTENDS Actors, ListsProofs, TLAPS

---------------------------------------------------------------------------
(* The inductive invariant: first what it says of one memory, me.          *)

IsDown(m) == m.tag = "down"

Message == Frame \union Down
Monitor == [ref : Nat, to : Proc, own : BOOLEAN]
Kid     == [pid : Proc, bound : BOOLEAN, reaped : BOOLEAN]

\* A record of a child is bound to the handle that leads to it.
Owns(me, to) == \E i \in DOMAIN me.kids : me.kids[i].pid = to /\ me.kids[i].bound

\* Whoever holds the handle spawn returned, or monitors with it, has the bound
\* record of the child; a spawn under way is about the last record.
KidsAgree(me) ==
    /\ \A h \in me.handles : h.own => Owns(me, h.to)
    /\ \A i \in DOMAIN me.mons : me.mons[i].own => Owns(me, me.mons[i].to)
    /\ me.pc = "spawn" =>
         me.child \in Proc /\ me.kids # <<>> /\ me.kids[Len(me.kids)].pid = me.child

\* A handle in a frame is never the handle spawn returned.
Carried(m) == ~IsDown(m) => m.carry = None \/ ~m.carry.own

Armed(me, ref)  == {i \in DOMAIN me.mons : me.mons[i].ref = ref}
Queued(me, ref) == {i \in DOMAIN me.retain : IsDown(me.retain[i]) /\ me.retain[i].ref = ref}

Once(me, ref) ==
    /\ \A i, j \in Armed(me, ref) : i = j
    /\ \A i, j \in Queued(me, ref) : i = j
    /\ \E place \in {"armed", "queued", "seen", "off"} :
          /\ Armed(me, ref) # {}  <=> place = "armed"
          /\ Queued(me, ref) # {} <=> place = "queued"
          /\ ref \in me.seen      <=> place = "seen"
          /\ ref \in me.off       <=> place = "off"

\* A reference that was given out is in one place, and no other is anywhere.
RefsOnce(me) ==
    /\ \A i \in DOMAIN me.mons : me.mons[i].ref \in 1 .. me.nref
    /\ \A i \in DOMAIN me.retain : IsDown(me.retain[i]) => me.retain[i].ref \in 1 .. me.nref
    /\ me.seen \subseteq 1 .. me.nref /\ me.off \subseteq 1 .. me.nref
    /\ \A ref \in 1 .. me.nref : Once(me, ref)

\* The frames in the retain queue, and their numbers.
Frames(me) == {i \in DOMAIN me.retain : ~IsDown(me.retain[i])}
Kept_n(me) == {me.retain[i].n : i \in Frames(me)}

\* The retain queue is in the order of arrival.
Ordered(me) == \A i, j \in Frames(me) : i < j => me.retain[i].n < me.retain[j].n

\* A receive that waits was offered everything in the retain queue.
Waits(me) == me.pc = "wait" => \A i \in DOMAIN me.retain : ~Matches(me.retain[i], me.tag)

\* All but the last, which does not hold within a receive.
Sound(me) ==
    /\ me \in Memory /\ KidsAgree(me) /\ RefsOnce(me) /\ Ordered(me)
    /\ \A i \in DOMAIN me.retain : Carried(me.retain[i])

\* With the mailbox b and the a frames that ever entered it: the mailbox has
\* the last of them, and the others were received, refused or are retained.
Numbered(me, b, a) ==
    /\ Len(b) <= a
    /\ \A i \in DOMAIN b : b[i].n = a - Len(b) + i
    /\ me.got \union me.bad \union Kept_n(me) = 1 .. a - Len(b)
    /\ me.got \intersect Kept_n(me) = {}
    /\ me.bad \intersect (me.got \union Kept_n(me)) = {}

\* A down message tells the truth.
DownTrue(m) ==
    IsDown(m) => /\ HungUp(m.to)
                 /\ m.reason = status[m.to] <=> m.own
                 /\ ~m.own => m.reason \in {"down", "noproc"}

IInv ==
    /\ TypeOK
    /\ \A p \in Proc : HungUp(p) => status[p] \in Reasons
    /\ \A p \in Proc : Sound(interp[p]) /\ Waits(interp[p])
    /\ \A p \in Proc : \A i \in DOMAIN box[p] : Carried(box[p][i])
    /\ \A p \in Proc : ~HungUp(p) => Numbered(interp[p], box[p], arrived[p])
    /\ \A p \in Proc : \A i \in DOMAIN interp[p].retain : DownTrue(interp[p].retain[i])

---------------------------------------------------------------------------
(* Memories.                                                               *)

\* What a memory is made of.
LEMMA Fields ==
  ASSUME NEW me \in Memory
  PROVE  /\ me.pc \in {"idle", "spawn", "wait", "cleanup"}
         /\ me.tag \in Tags \union {"down", None} /\ me.child \in Proc \union {None}
         /\ me.exit \in {"normal", "error"}
         /\ me.retain \in Seq(Message) /\ me.mons \in Seq(Monitor) /\ me.kids \in Seq(Kid)
         /\ me.nref \in 0 .. MaxRefs /\ me.pgid \in Proc \union {None}
         /\ me.handles \in SUBSET Handle
         /\ me.got \in SUBSET Nat /\ me.bad \in SUBSET Nat /\ me.seen \in SUBSET Nat /\ me.off \in SUBSET Nat
  BY DEF Memory, Message, Monitor, Kid

\* A frame and a down are told apart by the tag.
LEMMA MessageKinds ==
  ASSUME NEW m \in Message
  PROVE  /\ IsDown(m) => m \in Down
         /\ ~IsDown(m) => m \in Frame
  BY TagsAssumption DEF Message, Frame, Down, IsDown

\* The memory of a process that has done nothing.
LEMMA FreshSound == Sound(Fresh) /\ Waits(Fresh) /\ Numbered(Fresh, <<>>, 0)
<1>1. Fresh \in Memory
  BY BoundsAssumption DEF Fresh, Memory
<1>2. /\ Fresh.pc = "idle" /\ Fresh.retain = <<>> /\ Fresh.mons = <<>> /\ Fresh.nref = 0
      /\ Fresh.handles = {} /\ Fresh.got = {} /\ Fresh.bad = {} /\ Fresh.seen = {} /\ Fresh.off = {}
  BY DEF Fresh
<1>3. KidsAgree(Fresh) /\ RefsOnce(Fresh) /\ Ordered(Fresh)
  BY <1>2 DEF KidsAgree, RefsOnce, Ordered, Frames
<1>4. Numbered(Fresh, <<>>, 0)
  BY <1>2 DEF Numbered, Kept_n, Frames
<1> QED
  BY <1>1, <1>2, <1>3, <1>4 DEF Sound, Waits

\* The monitors that a list of monitors keeps, or fires, when those in X go.
LEMMA MonsDropped ==
  ASSUME NEW mons \in Seq(Monitor), NEW X
  PROVE  /\ Dropped(mons, X) \in Seq(Monitor)
         /\ \E g \in [DOMAIN Dropped(mons, X) -> DOMAIN mons] :
              /\ \A j \in DOMAIN Dropped(mons, X) :
                    mons[g[j]] \notin X /\ Dropped(mons, X)[j] = mons[g[j]]
              /\ \A j, k \in DOMAIN Dropped(mons, X) : g[j] = g[k] => j = k
              /\ \A k \in DOMAIN mons : mons[k] \notin X => \E j \in DOMAIN Dropped(mons, X) : g[j] = k
<1> DEFINE r == Dropped(mons, X)
<1>1. r \in Seq(Monitor) /\ \E g : Embeds(g, r, mons, X)
  BY DroppedEmbeds
<1> HIDE DEF r
<1>2. PICK g : Embeds(g, r, mons, X)
  BY <1>1
<1>3. DOMAIN r = 1 .. Len(r) /\ Len(r) \in Nat /\ DOMAIN mons = 1 .. Len(mons)
  BY <1>1
<1>4. ASSUME NEW j \in DOMAIN r, NEW k \in DOMAIN r, g[j] = g[k] PROVE j = k
  <2>1. g[j] \in Nat /\ g[k] \in Nat
    BY <1>2, <1>3, <1>4 DEF Embeds
  <2>2. ~ (j < k) /\ ~ (k < j)
    BY <1>2, <1>3, <1>4, <2>1 DEF Embeds
  <2> QED
    BY <1>3, <1>4, <2>2
<1>5. /\ g \in [DOMAIN r -> DOMAIN mons]
      /\ \A j \in DOMAIN r : mons[g[j]] \notin X /\ r[j] = mons[g[j]]
      /\ \A k \in DOMAIN mons : mons[k] \notin X => \E j \in DOMAIN r : g[j] = k
  BY <1>2, <1>3 DEF Embeds
<1> QED
  BY <1>1, <1>4, <1>5 DEF r

\* The memory after actor_reap_children and actor_collect_downs.
Gathered(me, S) ==
    [me EXCEPT !.kids = Reaped(@, S), !.retain = Collected(me), !.mons = Kept(@)]

\* A down made from a monitor of a process that hung up is a down, and true.
LEMMA DownMade ==
  ASSUME NEW me \in Memory, NEW m \in Monitor, HungUp(m.to), status[m.to] \in Reasons,
         m.own => Owns(me, m.to), NEW fallback \in {"down", "noproc"}
  PROVE  /\ DownOf(me.kids, m, fallback) \in Down /\ DownTrue(DownOf(me.kids, m, fallback))
         /\ IsDown(DownOf(me.kids, m, fallback)) /\ DownOf(me.kids, m, fallback).ref = m.ref
<1> DEFINE d == DownOf(me.kids, m, fallback)
<1>1. d.tag = "down" /\ d.ref = m.ref /\ d.to = m.to /\ d.own = m.own
  BY DEF DownOf
<1>2. d.reason = MonitorReason(me.kids, m, fallback)
  BY DEF DownOf
<1>3. m.ref \in Nat /\ m.to \in Proc /\ m.own \in BOOLEAN
  BY DEF Monitor
<1>4. CASE m.own
  <2>1. d.reason = status[m.to]
    BY <1>2, <1>4 DEF MonitorReason, Owns
  <2>2. d \in Down
    BY <1>3, <2>1 DEF DownOf, Down
  <2> QED
    BY <1>1, <1>4, <2>1, <2>2 DEF DownTrue, IsDown
<1>5. CASE ~m.own
  <2>1. d.reason = fallback
    BY <1>2, <1>5 DEF MonitorReason
  <2>2. d \in Down
    BY <1>3, <2>1 DEF DownOf, Down
  <2>3. fallback # status[m.to]
    BY DEF Reasons
  <2> QED
    BY <1>1, <1>5, <2>1, <2>2, <2>3 DEF DownTrue, IsDown
<1> QED
  BY <1>4, <1>5

\* Reaping changes no child's record but for the mark.
LEMMA ReapedKids ==
  ASSUME NEW me \in Memory, NEW S
  PROVE  /\ Reaped(me.kids, S) \in Seq(Kid)
         /\ Len(Reaped(me.kids, S)) = Len(me.kids)
         /\ \A i \in DOMAIN me.kids : /\ Reaped(me.kids, S)[i].pid = me.kids[i].pid
                                      /\ Reaped(me.kids, S)[i].bound = me.kids[i].bound
<1> DEFINE k == me.kids
           r == Reaped(k, S)
<1>1. k \in Seq(Kid)
  BY Fields
<1> HIDE DEF k
<1>0. \A x \in Kid : [x EXCEPT !.reaped = TRUE] \in Kid
  BY DEF Kid
<1>2. \A i \in DOMAIN k : k[i] \in Kid /\ [k[i] EXCEPT !.reaped = TRUE] \in Kid
  BY <1>0, <1>1
<1>3. \A i \in DOMAIN k : /\ r[i] \in Kid /\ r[i].pid = k[i].pid /\ r[i].bound = k[i].bound
  BY <1>2 DEF Reaped, Kid
<1>4. r = [i \in 1 .. Len(k) |-> r[i]] /\ Len(k) \in Nat /\ DOMAIN k = 1 .. Len(k)
  BY <1>1 DEF Reaped
<1> HIDE DEF r
<1>5. r \in Seq(Kid) /\ Len(r) = Len(k)
  BY <1>3, <1>4, Listed
<1> QED
  BY <1>3, <1>5 DEF k, r

\* Gathering keeps a memory sound: every monitor that fires becomes one down at
\* the end of the retain queue, and nothing else of the memory changes.
LEMMA GatheredSound ==
  ASSUME NEW me, Sound(me), NEW S, \A p \in Proc : HungUp(p) => status[p] \in Reasons
  PROVE  LET now == Gathered(me, S)
         IN  /\ Sound(now)
             /\ now.pc = me.pc /\ now.tag = me.tag /\ now.got = me.got /\ now.bad = me.bad
             /\ Kept_n(now) = Kept_n(me)
             /\ \A i \in Frames(me) : i \in Frames(now) /\ now.retain[i] = me.retain[i]
             /\ \A i \in DOMAIN now.retain :
                  \/ i \in DOMAIN me.retain /\ now.retain[i] = me.retain[i]
                  \/ IsDown(now.retain[i]) /\ DownTrue(now.retain[i])
<1> DEFINE now   == Gathered(me, S)
           mons  == me.mons
           stay  == Kept(me.mons)
           hung  == Dropped(me.mons, {m \in ToSet(me.mons) : ~HungUp(m.to)})
           fired == [i \in DOMAIN hung |-> DownOf(me.kids, hung[i], "down")]
<1>1. me \in Memory /\ KidsAgree(me) /\ RefsOnce(me) /\ Ordered(me)
      /\ \A i \in DOMAIN me.retain : Carried(me.retain[i])
  BY DEF Sound
<1>2. mons \in Seq(Monitor) /\ me.retain \in Seq(Message)
  BY <1>1, Fields
<1>3. \A k \in DOMAIN mons : mons[k] \in ToSet(mons) /\ mons[k] \in Monitor
  BY <1>2 DEF ToSet
<1>4. /\ stay \in Seq(Monitor)
      /\ \E g \in [DOMAIN stay -> DOMAIN mons] :
           /\ \A j \in DOMAIN stay : ~HungUp(mons[g[j]].to) /\ stay[j] = mons[g[j]]
           /\ \A j, k \in DOMAIN stay : g[j] = g[k] => j = k
           /\ \A k \in DOMAIN mons : ~HungUp(mons[k].to) => \E j \in DOMAIN stay : g[j] = k
  <2> DEFINE X == {m \in ToSet(mons) : HungUp(m.to)}
  <2>1. stay = Dropped(mons, X)
    BY DEF Kept
  <2>2. \A k \in DOMAIN mons : mons[k] \in X <=> HungUp(mons[k].to)
    BY <1>3
  <2> HIDE DEF X, stay, mons
  <2> QED
    BY <1>2, <2>1, <2>2, MonsDropped
<1>5. /\ hung \in Seq(Monitor)
      /\ \E g \in [DOMAIN hung -> DOMAIN mons] :
           /\ \A j \in DOMAIN hung : HungUp(mons[g[j]].to) /\ hung[j] = mons[g[j]]
           /\ \A j, k \in DOMAIN hung : g[j] = g[k] => j = k
           /\ \A k \in DOMAIN mons : HungUp(mons[k].to) => \E j \in DOMAIN hung : g[j] = k
  <2> DEFINE X == {m \in ToSet(mons) : ~HungUp(m.to)}
  <2>1. hung = Dropped(mons, X)
    OBVIOUS
  <2>2. \A k \in DOMAIN mons : mons[k] \in X <=> ~HungUp(mons[k].to)
    BY <1>3
  <2> HIDE DEF X, hung, mons
  <2> QED
    BY <1>2, <2>1, <2>2, MonsDropped
<1>6. PICK a \in [DOMAIN stay -> DOMAIN mons] :
           /\ \A j \in DOMAIN stay : ~HungUp(mons[a[j]].to) /\ stay[j] = mons[a[j]]
           /\ \A j, k \in DOMAIN stay : a[j] = a[k] => j = k
           /\ \A k \in DOMAIN mons : ~HungUp(mons[k].to) => \E j \in DOMAIN stay : a[j] = k
  BY <1>4
<1>7. PICK b \in [DOMAIN hung -> DOMAIN mons] :
           /\ \A j \in DOMAIN hung : HungUp(mons[b[j]].to) /\ hung[j] = mons[b[j]]
           /\ \A j, k \in DOMAIN hung : b[j] = b[k] => j = k
           /\ \A k \in DOMAIN mons : HungUp(mons[k].to) => \E j \in DOMAIN hung : b[j] = k
  BY <1>5
<1>8. /\ now = [me EXCEPT !.kids = Reaped(me.kids, S), !.retain = me.retain \o fired, !.mons = stay]
  BY DEF Gathered, Collected
<1> HIDE DEF stay, hung
<1>9. \A j \in DOMAIN hung :
        /\ fired[j] \in Down /\ DownTrue(fired[j]) /\ IsDown(fired[j]) /\ fired[j].ref = hung[j].ref
  <2> SUFFICES ASSUME NEW j \in DOMAIN hung
               PROVE  /\ DownOf(me.kids, hung[j], "down") \in Down
                      /\ DownTrue(DownOf(me.kids, hung[j], "down"))
                      /\ IsDown(DownOf(me.kids, hung[j], "down"))
                      /\ DownOf(me.kids, hung[j], "down").ref = hung[j].ref
    OBVIOUS
  <2>1. hung[j] \in Monitor /\ HungUp(hung[j].to) /\ (hung[j].own => Owns(me, hung[j].to))
    BY <1>1, <1>3, <1>7 DEF KidsAgree
  <2>2. status[hung[j].to] \in Reasons
    BY <2>1 DEF Monitor
  <2> QED
    BY <1>1, <2>1, <2>2, DownMade
<1>10. fired = [i \in 1 .. Len(hung) |-> fired[i]] /\ Len(hung) \in Nat /\ DOMAIN hung = 1 .. Len(hung)
  BY <1>5
<1> HIDE DEF fired
<1>11. fired \in Seq(Message) /\ Len(fired) = Len(hung)
  <2>1. \A i \in 1 .. Len(hung) : fired[i] \in Message
    BY <1>9, <1>10 DEF Message
  <2> QED
    BY <1>10, <2>1, Listed
<1> DEFINE n == Len(me.retain)
<1>12. /\ me.retain \o fired \in Seq(Message) /\ n \in Nat /\ DOMAIN me.retain = 1 .. n
       /\ DOMAIN (me.retain \o fired) = 1 .. n + Len(hung)
       /\ \A i \in 1 .. n : (me.retain \o fired)[i] = me.retain[i]
       /\ \A i \in 1 .. Len(hung) : (me.retain \o fired)[n + i] = fired[i]
  BY <1>2, <1>10, <1>11
<1>13. /\ now \in Memory /\ now.pc = me.pc /\ now.tag = me.tag /\ now.got = me.got /\ now.bad = me.bad
       /\ now.seen = me.seen /\ now.off = me.off /\ now.nref = me.nref /\ now.child = me.child
       /\ now.handles = me.handles /\ now.mons = stay /\ now.retain = me.retain \o fired
       /\ now.kids = Reaped(me.kids, S)
  <2>1. Reaped(me.kids, S) \in Seq(Kid) /\ stay \in Seq(Monitor)
    BY <1>1, <1>4, ReapedKids
  <2> QED
    BY <1>1, <1>8, <1>12, <2>1 DEF Memory, Message, Monitor, Kid
<1> HIDE DEF now
<1>21. /\ me.kids \in Seq(Kid) /\ now.kids \in Seq(Kid) /\ Len(now.kids) = Len(me.kids)
       /\ \A i \in DOMAIN me.kids : /\ now.kids[i].pid = me.kids[i].pid
                                    /\ now.kids[i].bound = me.kids[i].bound
  <2>1. me.kids \in Seq(Kid)
    BY <1>1, Fields
  <2>2. /\ Reaped(me.kids, S) \in Seq(Kid)
        /\ Len(Reaped(me.kids, S)) = Len(me.kids)
        /\ \A i \in DOMAIN me.kids : /\ Reaped(me.kids, S)[i].pid = me.kids[i].pid
                                     /\ Reaped(me.kids, S)[i].bound = me.kids[i].bound
    BY <1>1, ReapedKids
  <2> QED
    BY <1>13, <2>1, <2>2
<1>14. KidsAgree(now)
  <2>1. \A to : Owns(me, to) => Owns(now, to)
    <3>1. DOMAIN now.kids = DOMAIN me.kids
      BY <1>21
    <3> QED
      BY <1>21, <3>1 DEF Owns
  <2>2. \A h \in now.handles : h.own => Owns(now, h.to)
    BY <1>1, <1>13, <2>1 DEF KidsAgree
  <2>3. \A j \in DOMAIN now.mons : now.mons[j].own => Owns(now, now.mons[j].to)
    BY <1>1, <1>6, <1>13, <2>1 DEF KidsAgree
  <2>4. now.pc = "spawn" =>
          now.child \in Proc /\ now.kids # <<>> /\ now.kids[Len(now.kids)].pid = now.child
    <3> SUFFICES ASSUME now.pc = "spawn"
                 PROVE  now.child \in Proc /\ now.kids # <<>> /\ now.kids[Len(now.kids)].pid = now.child
      OBVIOUS
    <3>1. me.child \in Proc /\ me.kids # <<>> /\ me.kids[Len(me.kids)].pid = me.child
      BY <1>1, <1>13 DEF KidsAgree
    <3>2. Len(me.kids) \in DOMAIN me.kids /\ now.kids # <<>>
      BY <1>21, <3>1
    <3> QED
      BY <1>13, <1>21, <3>1, <3>2
  <2> QED
    BY <2>2, <2>3, <2>4 DEF KidsAgree
<1>15. /\ Frames(now) = Frames(me)
       /\ \A i \in Frames(me) : i \in 1 .. n /\ now.retain[i] = me.retain[i]
  <2>1. \A i \in DOMAIN now.retain : i \in 1 .. n \/ i - n \in 1 .. Len(hung)
    BY <1>10, <1>12, <1>13
  <2>2. \A i \in DOMAIN now.retain : i \notin 1 .. n => IsDown(now.retain[i])
    <3> SUFFICES ASSUME NEW i \in DOMAIN now.retain, i \notin 1 .. n PROVE IsDown(now.retain[i])
      OBVIOUS
    <3>1. i - n \in 1 .. Len(hung) /\ n + (i - n) = i
      BY <1>12, <1>13, <2>1
    <3> QED
      BY <1>9, <1>10, <1>12, <1>13, <3>1
  <2>3. \A i \in 1 .. n : i \in DOMAIN now.retain /\ now.retain[i] = me.retain[i]
    BY <1>10, <1>12, <1>13
  <2>4. \A i \in Frames(me) : i \in Frames(now) /\ i \in 1 .. n
    BY <1>12, <2>3 DEF Frames
  <2>5. \A i \in Frames(now) : i \in Frames(me)
    BY <1>12, <2>2, <2>3 DEF Frames
  <2> QED
    BY <2>3, <2>4, <2>5
<1>16. Ordered(now) /\ Kept_n(now) = Kept_n(me)
  BY <1>1, <1>15 DEF Ordered, Kept_n
<1>17. \A i \in DOMAIN now.retain :
         \/ i \in DOMAIN me.retain /\ now.retain[i] = me.retain[i]
         \/ /\ i - n \in 1 .. Len(hung) /\ now.retain[i] = fired[i - n]
            /\ IsDown(now.retain[i]) /\ DownTrue(now.retain[i])
  <2> SUFFICES ASSUME NEW i \in DOMAIN now.retain, i \notin 1 .. n
               PROVE  /\ i - n \in 1 .. Len(hung) /\ now.retain[i] = fired[i - n]
                      /\ IsDown(now.retain[i]) /\ DownTrue(now.retain[i])
    BY <1>12, <1>13
  <2>1. i - n \in 1 .. Len(hung) /\ n + (i - n) = i
    BY <1>10, <1>12, <1>13
  <2> QED
    BY <1>9, <1>10, <1>12, <1>13, <2>1
<1>18. \A i \in DOMAIN now.retain : Carried(now.retain[i])
  BY <1>1, <1>17 DEF Carried
<1>19. RefsOnce(now)
  <2>1. /\ \A i \in DOMAIN now.mons : now.mons[i].ref \in 1 .. now.nref
        /\ now.seen \subseteq 1 .. now.nref /\ now.off \subseteq 1 .. now.nref
    BY <1>1, <1>6, <1>13 DEF RefsOnce
  <2>2. \A i \in DOMAIN now.retain : IsDown(now.retain[i]) => now.retain[i].ref \in 1 .. now.nref
    <3>1. \A i \in DOMAIN me.retain : IsDown(me.retain[i]) => me.retain[i].ref \in 1 .. me.nref
      BY <1>1 DEF RefsOnce
    <3>2. \A j \in 1 .. Len(hung) : fired[j].ref \in 1 .. me.nref
      BY <1>1, <1>7, <1>9, <1>10 DEF RefsOnce
    <3> QED
      BY <1>13, <1>17, <3>1, <3>2
  <2>3. ASSUME NEW ref \in 1 .. now.nref PROVE Once(now, ref)
    <3>1. Once(me, ref)
      BY <1>1, <1>13, <2>3 DEF RefsOnce
    <3>2. \A j \in Armed(now, ref) :
             /\ j \in DOMAIN stay /\ a[j] \in Armed(me, ref) /\ ~HungUp(mons[a[j]].to)
      BY <1>6, <1>13 DEF Armed
    <3>3. \A i \in Queued(now, ref) :
             \/ i \in Queued(me, ref)
             \/ /\ i - n \in DOMAIN hung /\ b[i - n] \in Armed(me, ref) /\ HungUp(mons[b[i - n]].to)
                /\ i \in 1 .. n + Len(hung) /\ i \notin 1 .. n
      BY <1>7, <1>9, <1>10, <1>12, <1>13, <1>17 DEF Queued, Armed
    <3>4. \A i \in Queued(me, ref) : i \in Queued(now, ref) /\ i \in 1 .. n
      BY <1>10, <1>12, <1>13 DEF Queued
    <3>5. \A k \in Armed(me, ref) : ~HungUp(mons[k].to) => Armed(now, ref) # {}
      BY <1>6, <1>13 DEF Armed
    <3>6. \A k \in Armed(me, ref) : HungUp(mons[k].to) => Queued(now, ref) # {}
      <4> SUFFICES ASSUME NEW k \in Armed(me, ref), HungUp(mons[k].to) PROVE Queued(now, ref) # {}
        OBVIOUS
      <4>1. PICK j \in DOMAIN hung : b[j] = k
        BY <1>7 DEF Armed
      <4>2. n + j \in DOMAIN now.retain /\ now.retain[n + j] = fired[j]
        BY <1>10, <1>12, <1>13, <4>1
      <4>3. IsDown(fired[j]) /\ fired[j].ref = ref
        BY <1>7, <1>9, <4>1 DEF Armed
      <4> QED
        BY <4>2, <4>3 DEF Queued
    <3>7. CASE Armed(me, ref) = {}
      <4>1. Armed(now, ref) = {}
        BY <3>2, <3>7
      <4>2. Queued(now, ref) = Queued(me, ref)
        BY <3>3, <3>4, <3>7
      <4> QED
        BY <1>13, <3>1, <3>7, <4>1, <4>2 DEF Once
    <3>8. CASE Armed(me, ref) # {}
      <4>1. PICK k \in Armed(me, ref) : TRUE
        BY <3>8
      <4>2. /\ \A j \in Armed(me, ref) : j = k
            /\ Queued(me, ref) = {} /\ ref \notin me.seen /\ ref \notin me.off
        BY <3>1, <4>1 DEF Once
      <4>3. \A i, j \in Armed(now, ref) : i = j
        BY <1>6, <3>2, <4>2
      <4>4. \A i, j \in Queued(now, ref) : i = j
        <5> SUFFICES ASSUME NEW i \in Queued(now, ref), NEW j \in Queued(now, ref) PROVE i = j
          OBVIOUS
        <5>1. i - n \in DOMAIN hung /\ j - n \in DOMAIN hung /\ b[i - n] = k /\ b[j - n] = k
          BY <3>3, <4>2
        <5>2. i - n = j - n
          BY <1>7, <5>1
        <5>3. i \in Nat /\ j \in Nat
          BY <1>10, <1>12, <1>13 DEF Queued
        <5> QED
          BY <1>12, <5>2, <5>3
      <4>5. CASE HungUp(mons[k].to)
        <5>1. Armed(now, ref) = {}
          BY <3>2, <4>2, <4>5
        <5>2. Queued(now, ref) # {}
          BY <3>6, <4>1, <4>5
        <5> QED
          BY <1>13, <4>2, <4>3, <4>4, <5>1, <5>2 DEF Once
      <4>6. CASE ~HungUp(mons[k].to)
        <5>1. Queued(now, ref) = {}
          BY <3>3, <4>2, <4>6
        <5>2. Armed(now, ref) # {}
          BY <3>5, <4>1, <4>6
        <5> QED
          BY <1>13, <4>2, <4>3, <4>4, <5>1, <5>2 DEF Once
      <4> QED
        BY <4>5, <4>6
    <3> QED
      BY <3>7, <3>8
  <2> QED
    BY <2>1, <2>2, <2>3 DEF RefsOnce
<1>20. Sound(now)
  BY <1>13, <1>14, <1>16, <1>18, <1>19 DEF Sound
<1> QED
  BY <1>13, <1>15, <1>16, <1>17, <1>20 DEF now

\* Which message a receive takes from the retain queue: the first that matches.
LEMMA FirstHit ==
  ASSUME NEW me \in Memory, HasRetained(me)
  PROVE  \E i \in DOMAIN me.retain :
           /\ Matches(me.retain[i], me.tag)
           /\ \A k \in DOMAIN me.retain : Matches(me.retain[k], me.tag) => i <= k
           /\ RetainTake(me) = Delivered([me EXCEPT !.retain = RemoveAt(@, i)], me.retain[i])
<1> DEFINE hits == {i \in DOMAIN me.retain : Matches(me.retain[i], me.tag)}
           i    == CHOOSE j \in hits : \A k \in hits : j <= k
<1>1. hits \in SUBSET Nat /\ hits # {}
  <2>1. me.retain \in Seq(Message)
    BY Fields
  <2>2. DOMAIN me.retain \subseteq Nat
    BY <2>1
  <2> QED
    BY <2>2 DEF HasRetained
<1>2. \E j \in hits : \A k \in hits : j <= k
  BY <1>1, LeastElement
<1>3. i \in hits /\ \A k \in hits : i <= k
  BY <1>2
<1>4. RetainTake(me) = Delivered([me EXCEPT !.retain = RemoveAt(@, i)], me.retain[i])
  BY DEF RetainTake
<1> QED
  BY <1>3, <1>4

\* The message taken goes to the program, and the rest of the memory stays
\* sound; a frame that is taken is the oldest that matches.
LEMMA TakenSound ==
  ASSUME NEW me, Sound(me), HasRetained(me)
  PROVE  LET took == RetainTake(me)
         IN  /\ Sound(took) /\ took.pc = "idle"
             /\ \A j \in DOMAIN took.retain : \E k \in DOMAIN me.retain : took.retain[j] = me.retain[k]
             /\ took.got \union Kept_n(took) = me.got \union Kept_n(me) /\ took.bad = me.bad
             /\ me.got \intersect Kept_n(me) = {} => took.got \intersect Kept_n(took) = {}
             /\ \A n \in took.got \ me.got : \A k \in Frames(me) :
                  Matches(me.retain[k], me.tag) => n <= me.retain[k].n
<1> DEFINE took == RetainTake(me)
<1>1. me \in Memory /\ KidsAgree(me) /\ RefsOnce(me) /\ Ordered(me)
      /\ \A i \in DOMAIN me.retain : Carried(me.retain[i])
  BY DEF Sound
<1>2. PICK i \in DOMAIN me.retain :
           /\ Matches(me.retain[i], me.tag)
           /\ \A k \in DOMAIN me.retain : Matches(me.retain[k], me.tag) => i <= k
           /\ took = Delivered([me EXCEPT !.retain = RemoveAt(@, i)], me.retain[i])
  BY <1>1, FirstHit
<1> HIDE DEF took
<1> DEFINE m == me.retain[i]
           s == me.retain
           r == RemoveAt(s, i)
<1>3. s \in Seq(Message) /\ m \in Message
  BY <1>1, <1>2, Fields
<1>4. r \in Seq(Message) /\ \E g : Skips(g, r, s, i)
  <2>1. i \in DOMAIN s
    BY <1>2
  <2> HIDE DEF s, m
  <2> QED
    BY <1>3, <2>1, RemovedEmbeds
<1>0. PICK g : Skips(g, r, s, i)
  BY <1>4
<1>5. /\ g \in [DOMAIN r -> DOMAIN s]
      /\ \A j \in DOMAIN r : g[j] # i /\ r[j] = s[g[j]]
      /\ \A j, k \in DOMAIN r : j < k => g[j] < g[k]
      /\ \A k \in DOMAIN s : k # i => \E j \in DOMAIN r : g[j] = k
  BY <1>0 DEF Skips
<1>6. /\ DOMAIN r \subseteq Nat /\ DOMAIN s \subseteq Nat
      /\ \A j, k \in DOMAIN r : g[j] = g[k] => j = k
  <2>1. DOMAIN r \subseteq Nat /\ DOMAIN s \subseteq Nat
    BY <1>3, <1>4
  <2>2. ASSUME NEW j \in DOMAIN r, NEW k \in DOMAIN r, g[j] = g[k] PROVE j = k
    <3>1. ~ (j < k) /\ ~ (k < j) /\ g[j] \in Nat /\ g[k] \in Nat
      BY <1>5, <2>1, <2>2
    <3> QED
      BY <2>1, <2>2, <3>1
  <2> QED
    BY <2>1, <2>2
<1>7. /\ took.pc = "idle" /\ took.retain = r /\ took.mons = me.mons /\ took.kids = me.kids
      /\ took.nref = me.nref /\ took.off = me.off
      /\ took.bad = me.bad
      /\ IsDown(m) => took.seen = me.seen \union {m.ref} /\ took.got = me.got /\ took.handles = me.handles
      /\ ~IsDown(m) => /\ took.seen = me.seen /\ took.got = me.got \union {m.n}
                       /\ took.handles = me.handles \union ({m.carry} \ {None})
  <2>1. CASE IsDown(m)
    BY <1>1, <1>2, <2>1 DEF Delivered, IsDown, Memory
  <2>2. CASE ~IsDown(m)
    BY <1>1, <1>2, <2>2 DEF Delivered, IsDown, Memory, Adopt
  <2> QED
    BY <2>1, <2>2
<1>8. took \in Memory
  <2>1. CASE IsDown(m)
    <3>1. m.ref \in Nat
      BY <1>3, <2>1, MessageKinds DEF Down
    <3> QED
      BY <1>1, <1>2, <1>4, <2>1, <3>1 DEF Delivered, IsDown, Memory, Message
  <2>2. CASE ~IsDown(m)
    <3>1. m.n \in Nat /\ m.carry \in Handle \union {None}
      BY <1>3, <2>2, MessageKinds DEF Frame
    <3> QED
      BY <1>1, <1>2, <1>4, <2>2, <3>1 DEF Delivered, IsDown, Memory, Message, Adopt
  <2> QED
    BY <2>1, <2>2
<1> HIDE DEF r, s, m
<1>9. KidsAgree(took)
  <2>1. \A to : Owns(me, to) => Owns(took, to)
    BY <1>7 DEF Owns
  <2>2. \A h \in took.handles : h.own => Owns(took, h.to)
    BY <1>1, <1>2, <1>7, <2>1 DEF KidsAgree, Carried, m
  <2> QED
    BY <1>1, <1>7, <2>1, <2>2 DEF KidsAgree
<1>10. /\ \A j \in Frames(took) : g[j] \in Frames(me) /\ took.retain[j].n = me.retain[g[j]].n
       /\ \A k \in Frames(me) : k # i => \E j \in Frames(took) : g[j] = k
  BY <1>5, <1>7 DEF Frames, s
<1>11. Ordered(took)
  BY <1>1, <1>5, <1>7, <1>10 DEF Ordered, Frames
<1>12. \A j \in DOMAIN took.retain : Carried(took.retain[j])
  BY <1>1, <1>5, <1>7 DEF s
<1>13. RefsOnce(took)
  <2>1. /\ \A j \in DOMAIN took.mons : took.mons[j].ref \in 1 .. took.nref
        /\ \A j \in DOMAIN took.retain : IsDown(took.retain[j]) => took.retain[j].ref \in 1 .. took.nref
        /\ took.seen \subseteq 1 .. took.nref /\ took.off \subseteq 1 .. took.nref
    BY <1>1, <1>2, <1>5, <1>7 DEF RefsOnce, s, m
  <2>2. ASSUME NEW ref \in 1 .. took.nref PROVE Once(took, ref)
    <3>1. Once(me, ref) /\ Armed(took, ref) = Armed(me, ref)
      BY <1>1, <1>7, <2>2 DEF RefsOnce, Armed
    <3>2. \A j \in Queued(took, ref) : j \in DOMAIN r /\ g[j] \in Queued(me, ref) /\ g[j] # i
      BY <1>5, <1>7 DEF Queued, s
    <3>3. \A k \in Queued(me, ref) : k # i => Queued(took, ref) # {}
      BY <1>5, <1>7 DEF Queued, s
    <3>4. \A j, k \in Queued(took, ref) : j = k
      BY <1>6, <3>1, <3>2 DEF Once
    <3>5. CASE i \in Queued(me, ref)
      <4>1. Queued(took, ref) = {} /\ IsDown(m) /\ m.ref = ref
        BY <3>1, <3>2, <3>5 DEF Once, Queued, m
      <4>2. Armed(me, ref) = {} /\ ref \notin me.seen /\ ref \notin me.off
        BY <3>1, <3>5 DEF Once
      <4> QED
        BY <1>7, <3>1, <4>1, <4>2 DEF Once
    <3>6. CASE i \notin Queued(me, ref)
      <4>1. Queued(took, ref) # {} <=> Queued(me, ref) # {}
        BY <3>2, <3>3, <3>6
      <4>2. ref \in took.seen <=> ref \in me.seen
        BY <1>2, <1>7, <3>6 DEF Queued, m
      <4>3. took.off = me.off
        BY <1>7
      <4> QED
        BY <3>1, <3>4, <4>1, <4>2, <4>3 DEF Once
    <3> QED
      BY <3>5, <3>6
  <2> QED
    BY <2>1, <2>2 DEF RefsOnce
<1>14. Sound(took)
  BY <1>8, <1>9, <1>11, <1>12, <1>13 DEF Sound
<1>15. took.got \union Kept_n(took) = me.got \union Kept_n(me)
  <2>1. CASE IsDown(m)
    <3>1. i \notin Frames(me)
      BY <2>1 DEF Frames, m
    <3>2. Kept_n(took) = Kept_n(me)
      BY <1>10, <3>1 DEF Kept_n
    <3> QED
      BY <1>7, <2>1, <3>2
  <2>2. CASE ~IsDown(m)
    <3>1. i \in Frames(me) /\ me.retain[i].n = m.n
      BY <1>2, <2>2 DEF Frames, m
    <3>2. Kept_n(took) \subseteq Kept_n(me) /\ Kept_n(me) \subseteq Kept_n(took) \union {m.n}
          /\ m.n \in Kept_n(me)
      BY <1>10, <3>1 DEF Kept_n
    <3> QED
      BY <1>7, <2>2, <3>2
  <2> QED
    BY <2>1, <2>2
<1>16. ASSUME me.got \intersect Kept_n(me) = {} PROVE took.got \intersect Kept_n(took) = {}
  <2>1. Kept_n(took) \subseteq Kept_n(me)
    BY <1>10 DEF Kept_n
  <2>2. CASE IsDown(m)
    BY <1>7, <1>16, <2>1, <2>2
  <2>3. CASE ~IsDown(m)
    <3>1. i \in Frames(me) /\ me.retain[i].n = m.n
      BY <1>2, <2>3 DEF Frames, m
    <3>2. ASSUME NEW j \in Frames(took) PROVE took.retain[j].n # m.n
      <4>1. g[j] \in Frames(me) /\ g[j] # i /\ took.retain[j].n = me.retain[g[j]].n
        BY <1>5, <1>7, <1>10, <3>2 DEF Frames
      <4>2. g[j] \in Nat /\ i \in Nat
        BY <1>2, <1>6, <4>1 DEF Frames, s
      <4>3. me.retain[g[j]].n \in Nat /\ m.n \in Nat
        BY <1>1, <1>3, <2>3, <4>1, MessageKinds, Fields DEF Frames, Frame
      <4>4. CASE g[j] < i
        BY <1>1, <3>1, <4>1, <4>3, <4>4 DEF Ordered
      <4>5. CASE i < g[j]
        BY <1>1, <3>1, <4>1, <4>3, <4>5 DEF Ordered
      <4> QED
        BY <4>1, <4>2, <4>4, <4>5
    <3> QED
      BY <1>7, <1>16, <2>1, <2>3, <3>2 DEF Kept_n
  <2> QED
    BY <2>2, <2>3
<1>17. ASSUME NEW n \in took.got \ me.got, NEW k \in Frames(me), Matches(me.retain[k], me.tag)
       PROVE  n <= me.retain[k].n
  <2>1. ~IsDown(m) /\ n = m.n
    BY <1>7, <1>17
  <2>2. i \in Frames(me) /\ me.retain[i].n = m.n /\ i <= k /\ k \in DOMAIN me.retain
    BY <1>2, <1>17, <2>1 DEF Frames, m
  <2>3. me.retain[k].n \in Nat /\ m.n \in Nat /\ i \in Nat /\ k \in Nat
    BY <1>1, <1>3, <1>6, <1>17, <2>1, <2>2, MessageKinds, Fields DEF Frames, Frame, s
  <2>4. i = k \/ i < k
    BY <2>2, <2>3
  <2> QED
    BY <1>1, <1>17, <2>1, <2>2, <2>3, <2>4 DEF Ordered
<1>18. \A j \in DOMAIN took.retain : \E k \in DOMAIN me.retain : took.retain[j] = me.retain[k]
  BY <1>5, <1>7 DEF s
<1> QED
  BY <1>7, <1>14, <1>15, <1>16, <1>17, <1>18 DEF took

---------------------------------------------------------------------------
(* What a step has to keep.                                                *)

\* TypeOK but for the memories.
Kernel ==
    /\ stage \in [Proc -> Stages]
    /\ status \in [Proc -> Reasons \union {"none"}]
    /\ parent \in [Proc -> Proc \union {None}]
    /\ group \in [Proc -> Proc \union {None}]
    /\ ready \in [Proc -> BOOLEAN]
    /\ box \in [Proc -> Seq(Frame)]
    /\ arrived \in [Proc -> Nat]
    /\ sends \in 0 .. MaxSends /\ kills \in 0 .. MaxKills

\* A process that hung up stays so, and how it ended does not change.
Settles == \A q \in Proc : HungUp(q) => HungUp(q)' /\ status'[q] = status[q]

\* What becomes of the memory of q.
MemoryKept(q) ==
    \/ interp'[q] = interp[q]
    \/ /\ Sound(interp'[q]) /\ Waits(interp'[q])
       /\ \A i \in DOMAIN interp'[q].retain :
            \/ \E k \in DOMAIN interp[q].retain : interp'[q].retain[i] = interp[q].retain[k]
            \/ ~IsDown(interp'[q].retain[i])
            \/ DownTrue(interp'[q].retain[i])

\* The parts of the invariant, by process.
LEMMA Parts ==
  ASSUME IInv, NEW q \in Proc
  PROVE  /\ Sound(interp[q]) /\ Waits(interp[q]) /\ interp[q] \in Memory
         /\ interp[q].retain \in Seq(Message) /\ box[q] \in Seq(Frame) /\ arrived[q] \in Nat
         /\ HungUp(q) => status[q] \in Reasons
         /\ \A i \in DOMAIN box[q] : Carried(box[q][i])
         /\ ~HungUp(q) => Numbered(interp[q], box[q], arrived[q])
         /\ \A i \in DOMAIN interp[q].retain : DownTrue(interp[q].retain[i])
<1>1. interp[q] \in Memory
  BY DEF IInv, Sound
<1>2. interp[q].retain \in Seq(Message)
  BY <1>1, Fields
<1>3. box[q] \in Seq(Frame) /\ arrived[q] \in Nat
  BY DEF IInv, TypeOK
<1> QED
  BY <1>1, <1>2, <1>3 DEF IInv

\* A true down stays true.
LEMMA TruthStays ==
  ASSUME NEW m \in Message, DownTrue(m), Settles
  PROVE  DownTrue(m)'
<1> SUFFICES ASSUME IsDown(m) PROVE DownTrue(m)'
  BY DEF DownTrue, IsDown
<1>1. m.to \in Proc
  BY MessageKinds DEF Down
<1>2. HungUp(m.to) /\ (m.reason = status[m.to] <=> m.own) /\ (~m.own => m.reason \in {"down", "noproc"})
  BY DEF DownTrue
<1>3. HungUp(m.to)' /\ status'[m.to] = status[m.to]
  BY <1>1, <1>2 DEF Settles
<1> QED
  BY <1>2, <1>3 DEF DownTrue

\* A step that keeps the parts keeps the invariant.
LEMMA Steady ==
  ASSUME IInv, Kernel', interp' = [q \in Proc |-> interp'[q]], Settles,
         \A q \in Proc : HungUp(q)' => status'[q] \in Reasons,
         \A q \in Proc : MemoryKept(q),
         \A q \in Proc : box'[q] = box[q] \/ \A i \in DOMAIN box'[q] : Carried(box'[q][i]),
         \A q \in Proc : ~HungUp(q)' => Numbered(interp'[q], box'[q], arrived'[q])
  PROVE  IInv'
<1>1. \A q \in Proc : Sound(interp'[q]) /\ Waits(interp'[q])
  BY Parts DEF MemoryKept
<1>2. interp' \in [Proc -> Memory]
  <2>1. \A q \in Proc : interp'[q] \in Memory
    BY <1>1 DEF Sound
  <2> QED
    BY <2>1
<1>3. TypeOK'
  BY <1>2 DEF TypeOK, Kernel
<1>4. \A q \in Proc : \A i \in DOMAIN box'[q] : Carried(box'[q][i])
  BY Parts
<1>5. ASSUME NEW q \in Proc, NEW i \in DOMAIN interp'[q].retain
      PROVE  DownTrue(interp[q].retain[i])'
  <2>1. interp'[q].retain[i] \in Message
    <3>1. interp'[q] \in Memory
      BY <1>1, <1>5 DEF Sound
    <3>2. interp'[q].retain \in Seq(Message)
      BY <3>1, Fields
    <3> QED
      BY <1>5, <3>2
  <2>2. DownTrue(interp'[q].retain[i]) \/ ~IsDown(interp'[q].retain[i])
    BY <1>5, Parts DEF MemoryKept
  <2>3. DownTrue(interp'[q].retain[i])
    BY <2>2 DEF DownTrue
  <2>4. PICK x \in Message : x = interp'[q].retain[i]
    BY <2>1
  <2>5. DownTrue(x)'
    BY <2>3, <2>4, TruthStays
  <2> QED
    BY <2>4, <2>5 DEF DownTrue, HungUp
<1> QED
  BY <1>1, <1>3, <1>4, <1>5 DEF IInv

\* A memory whose lists are those of a sound one.
LEMMA SameLists ==
  ASSUME NEW me, Sound(me), NEW you \in Memory, KidsAgree(you),
         you.retain = me.retain, you.mons = me.mons, you.nref = me.nref,
         you.seen = me.seen, you.off = me.off
  PROVE  Sound(you)
<1>1. RefsOnce(you)
  BY DEF Sound, RefsOnce, Once, Armed, Queued
<1> QED
  BY <1>1 DEF Sound, Ordered, Frames

\* What is numbered depends on what was got and retained.
LEMMA SameNumbers ==
  ASSUME NEW me, NEW you, you.retain = me.retain, you.got = me.got, you.bad = me.bad, NEW b, NEW a,
         Numbered(me, b, a)
  PROVE  Numbered(you, b, a)
  BY DEF Numbered, Kept_n, Frames

---------------------------------------------------------------------------
(* The actions, one by one.                                                *)

\* What the invariant says of the kernel's part of the state.
LEMMA KernelNow ==
  ASSUME IInv
  PROVE  Kernel /\ interp = [q \in Proc |-> interp[q]]
  BY DEF IInv, TypeOK, Kernel

\* Zombie keeps the invariant.
LEMMA ZombieStep ==
  ASSUME IInv, NEW p \in Proc, Zombie(p)
  PROVE  IInv'
<1>1. Kernel /\ interp = [q \in Proc |-> interp[q]]
  BY KernelNow
<1>2. /\ stage[p] = "exiting" /\ stage' = [stage EXCEPT ![p] = "zombie"]
      /\ status' = status /\ parent' = parent /\ group' = group /\ ready' = ready /\ box' = box
      /\ arrived' = arrived /\ interp' = interp /\ sends' = sends /\ kills' = kills
  BY DEF Zombie
<1>3. Kernel'
  BY <1>1, <1>2 DEF Kernel, Stages
<1>4. \A q \in Proc : HungUp(q)' <=> HungUp(q)
  BY <1>1, <1>2 DEF HungUp, Kernel
<1>5. Settles /\ \A q \in Proc : HungUp(q)' => status'[q] \in Reasons
  BY <1>2, <1>4, Parts DEF Settles
<1>6. \A q \in Proc : MemoryKept(q)
  BY <1>2 DEF MemoryKept
<1>7. \A q \in Proc : ~HungUp(q)' => Numbered(interp'[q], box'[q], arrived'[q])
  BY <1>2, <1>4, Parts
<1> QED
  BY <1>1, <1>2, <1>3, <1>5, <1>6, <1>7, Steady

\* One process ends.
LEMMA EndStep ==
  ASSUME IInv, NEW p \in Proc, Alive(p), NEW how \in Reasons, Ends({p}, how),
         interp' = Forgotten({p}, interp), kills' \in 0 .. MaxKills,
         UNCHANGED <<parent, group, ready, arrived, sends>>
  PROVE  IInv'
<1>1. Kernel /\ interp = [q \in Proc |-> interp[q]]
  BY KernelNow
<1>2. /\ stage' = [q \in Proc |-> IF q = p THEN "exiting" ELSE stage[q]]
      /\ status' = [q \in Proc |-> IF q = p THEN how ELSE status[q]]
      /\ box' = [q \in Proc |-> IF q = p THEN <<>> ELSE box[q]]
      /\ interp' = [q \in Proc |-> IF q = p THEN Fresh ELSE interp[q]]
  BY DEF Ends, Forgotten
<1>3. Kernel'
  <2>1. <<>> \in Seq(Frame)
    OBVIOUS
  <2>2. box' \in [Proc -> Seq(Frame)]
    BY <1>1, <1>2, <2>1 DEF Kernel
  <2>3. stage' \in [Proc -> Stages] /\ status' \in [Proc -> Reasons \union {"none"}]
    BY <1>1, <1>2 DEF Kernel, Stages
  <2> QED
    BY <1>1, <2>2, <2>3 DEF Kernel
<1>4. \A q \in Proc : HungUp(q)' <=> q = p \/ HungUp(q)
  BY <1>2 DEF HungUp
<1>5. ~HungUp(p)
  BY DEF HungUp, Alive
<1>6. Settles /\ \A q \in Proc : HungUp(q)' => status'[q] \in Reasons
  BY <1>2, <1>4, <1>5, Parts DEF Settles
<1>7. \A q \in Proc : MemoryKept(q)
  <2> SUFFICES ASSUME NEW q \in Proc PROVE MemoryKept(q)
    OBVIOUS
  <2>1. CASE q = p
    <3>1. interp'[q] = Fresh /\ Fresh.retain = <<>>
      BY <1>2, <2>1 DEF Fresh
    <3>2. DOMAIN interp'[q].retain = {}
      BY <3>1
    <3> QED
      BY <3>1, <3>2, FreshSound DEF MemoryKept
  <2>2. CASE q # p
    BY <1>2, <2>2 DEF MemoryKept
  <2> QED
    BY <2>1, <2>2
<1>8. \A q \in Proc : box'[q] = box[q] \/ \A i \in DOMAIN box'[q] : Carried(box'[q][i])
  BY <1>2
<1>9. \A q \in Proc : ~HungUp(q)' => Numbered(interp'[q], box'[q], arrived'[q])
  <2> SUFFICES ASSUME NEW q \in Proc, ~HungUp(q)' PROVE Numbered(interp'[q], box'[q], arrived'[q])
    OBVIOUS
  <2>1. q # p /\ ~HungUp(q)
    BY <1>4
  <2>2. interp'[q] = interp[q] /\ box'[q] = box[q] /\ arrived'[q] = arrived[q]
    BY <1>2, <2>1
  <2> QED
    BY <2>1, <2>2, Parts
<1>10. interp' = [q \in Proc |-> interp'[q]]
  BY <1>2
<1> QED
  BY <1>3, <1>6, <1>7, <1>8, <1>9, <1>10, Steady

\* Kill keeps the invariant.
LEMMA KillStep ==
  ASSUME IInv, NEW p \in Proc, Kill(p)
  PROVE  IInv'
<1>1. kills' \in 0 .. MaxKills
  BY BoundsAssumption DEF Kill, IInv, TypeOK
<1> QED
  BY <1>1, EndStep DEF Kill, Reasons

\* ParentDied keeps the invariant.
LEMMA ParentDiedStep ==
  ASSUME IInv, NEW p \in Proc, ParentDied(p)
  PROVE  IInv'
<1>1. kills' \in 0 .. MaxKills
  BY DEF ParentDied, IInv, TypeOK
<1> QED
  BY <1>1, EndStep DEF ParentDied, Reasons

\* BootFailed keeps the invariant.
LEMMA BootFailedStep ==
  ASSUME IInv, NEW p \in Proc, BootFailed(p)
  PROVE  IInv'
<1>1. kills' \in 0 .. MaxKills /\ Alive(p)
  BY DEF BootFailed, IInv, TypeOK, Alive
<1> QED
  BY <1>1, EndStep DEF BootFailed, Reasons

\* Boot keeps the invariant.
LEMMA BootStep ==
  ASSUME IInv, NEW p \in Proc, Boot(p)
  PROVE  IInv'
<1>1. Kernel /\ interp = [q \in Proc |-> interp[q]]
  BY KernelNow
<1>2. /\ stage[p] = "booting" /\ stage' = [stage EXCEPT ![p] = "running"]
      /\ ready' = [ready EXCEPT ![p] = TRUE]
      /\ status' = status /\ parent' = parent /\ group' = group /\ box' = box
      /\ arrived' = arrived /\ interp' = interp /\ sends' = sends /\ kills' = kills
  BY DEF Boot
<1>3. Kernel'
  BY <1>1, <1>2 DEF Kernel, Stages
<1>4. \A q \in Proc : HungUp(q)' <=> HungUp(q)
  BY <1>1, <1>2 DEF HungUp, Kernel
<1>5. Settles /\ \A q \in Proc : HungUp(q)' => status'[q] \in Reasons
  BY <1>2, <1>4, Parts DEF Settles
<1>6. \A q \in Proc : MemoryKept(q)
  BY <1>2 DEF MemoryKept
<1>7. \A q \in Proc : ~HungUp(q)' => Numbered(interp'[q], box'[q], arrived'[q])
  BY <1>2, <1>4, Parts
<1> QED
  BY <1>1, <1>2, <1>3, <1>5, <1>6, <1>7, Steady

\* No more happens to the stages than that zombies are reaped.
Reaps ==
    /\ stage' \in [Proc -> Stages]
    /\ \A q \in Proc : stage'[q] = stage[q] \/ (stage[q] = "zombie" /\ stage'[q] = "reaped")

\* A step of p alone that changes its memory to a sound one with the messages
\* it had, or true downs, and reaps no more than zombies.
LEMMA OwnStep ==
  ASSUME IInv, NEW p \in Proc, NEW me, interp' = [interp EXCEPT ![p] = me],
         Sound(me), Waits(me),
         \A i \in DOMAIN me.retain :
            \/ \E k \in DOMAIN interp[p].retain : me.retain[i] = interp[p].retain[k]
            \/ ~IsDown(me.retain[i])
            \/ DownTrue(me.retain[i]),
         Reaps,
         UNCHANGED <<status, parent, group, ready, sends, kills>>,
         box' \in [Proc -> Seq(Frame)], arrived' \in [Proc -> Nat],
         \A q \in Proc \ {p} : box'[q] = box[q] /\ arrived'[q] = arrived[q],
         \A i \in DOMAIN box'[p] : Carried(box'[p][i]),
         ~HungUp(p) => Numbered(me, box'[p], arrived'[p])
  PROVE  IInv'
<1>1. Kernel /\ interp = [q \in Proc |-> interp[q]]
  BY KernelNow
<1>2. interp' = [q \in Proc |-> IF q = p THEN me ELSE interp[q]]
  BY <1>1
<1>3. Kernel'
  BY <1>1 DEF Kernel, Reaps
<1>4. \A q \in Proc : HungUp(q)' <=> HungUp(q)
  BY DEF HungUp, Reaps
<1>5. Settles /\ \A q \in Proc : HungUp(q)' => status'[q] \in Reasons
  BY <1>4, Parts DEF Settles
<1>6. \A q \in Proc : MemoryKept(q)
  BY <1>2 DEF MemoryKept
<1>7. \A q \in Proc : box'[q] = box[q] \/ \A i \in DOMAIN box'[q] : Carried(box'[q][i])
  OBVIOUS
<1>8. \A q \in Proc : ~HungUp(q)' => Numbered(interp'[q], box'[q], arrived'[q])
  <2> SUFFICES ASSUME NEW q \in Proc, ~HungUp(q) PROVE Numbered(interp'[q], box'[q], arrived'[q])
    BY <1>4
  <2>1. CASE q = p
    BY <1>2, <2>1
  <2>2. CASE q # p
    BY <1>2, <2>2, Parts
  <2> QED
    BY <2>1, <2>2
<1>9. interp' = [q \in Proc |-> interp'[q]]
  BY <1>2
<1> QED
  BY <1>3, <1>5, <1>6, <1>7, <1>8, <1>9, Steady

\* A step of p alone that leaves the mailboxes and the kernel as they are.
LEMMA QuietStep ==
  ASSUME IInv, NEW p \in Proc, NEW me \in Memory, interp' = [interp EXCEPT ![p] = me],
         KidsAgree(me), me.pc # "wait", me.retain = interp[p].retain, me.mons = interp[p].mons,
         me.nref = interp[p].nref, me.seen = interp[p].seen, me.off = interp[p].off,
         me.got = interp[p].got /\ me.bad = interp[p].bad,
         UNCHANGED <<stage, status, parent, group, ready, box, arrived, sends, kills>>
  PROVE  IInv'
<1>1. Sound(me) /\ Waits(me)
  BY Parts, SameLists DEF Waits
<1>2. ~HungUp(p) => Numbered(me, box'[p], arrived'[p])
  BY Parts, SameNumbers
<1>3. Reaps
  <2>1. stage \in [Proc -> Stages]
    BY DEF IInv, TypeOK
  <2>2. stage' = stage
    OBVIOUS
  <2> QED
    BY <2>1, <2>2 DEF Reaps
<1>4. \A i \in DOMAIN box'[p] : Carried(box'[p][i])
  BY Parts
<1>5. box' \in [Proc -> Seq(Frame)] /\ arrived' \in [Proc -> Nat]
  BY DEF IInv, TypeOK
<1>6. \A i \in DOMAIN me.retain :
        \/ \E k \in DOMAIN interp[p].retain : me.retain[i] = interp[p].retain[k]
        \/ ~IsDown(me.retain[i])
        \/ DownTrue(me.retain[i])
  OBVIOUS
<1>7. /\ \A q \in Proc \ {p} : box'[q] = box[q] /\ arrived'[q] = arrived[q]
      /\ UNCHANGED <<status, parent, group, ready, sends, kills>>
  OBVIOUS
<1> QED
  BY <1>1, <1>2, <1>3, <1>4, <1>5, <1>6, <1>7, OwnStep

\* Timeout keeps the invariant.
LEMMA TimeoutStep ==
  ASSUME IInv, NEW p \in Proc, Timeout(p)
  PROVE  IInv'
<1> DEFINE me == [interp[p] EXCEPT !.pc = "idle", !.tag = None]
<1>0. interp[p] \in Memory /\ KidsAgree(interp[p])
  BY Parts DEF Sound
<1>1. interp' = [interp EXCEPT ![p] = me]
      /\ UNCHANGED <<stage, status, parent, group, ready, box, arrived, sends, kills>>
  BY DEF Timeout, IInv, TypeOK
<1>2. me \in Memory
  BY <1>0 DEF Memory
<1>3. /\ me.pc = "idle" /\ me.retain = interp[p].retain /\ me.mons = interp[p].mons
      /\ me.nref = interp[p].nref /\ me.seen = interp[p].seen /\ me.off = interp[p].off
      /\ me.got = interp[p].got /\ me.bad = interp[p].bad /\ me.kids = interp[p].kids /\ me.handles = interp[p].handles
  BY <1>0 DEF Memory
<1> HIDE DEF me
<1>4. KidsAgree(me)
  BY <1>0, <1>3 DEF KidsAgree, Owns
<1> QED
  BY <1>1, <1>2, <1>3, <1>4, QuietStep

\* SpawnReturns keeps the invariant.
LEMMA SpawnReturnsStep ==
  ASSUME IInv, NEW p \in Proc, SpawnReturns(p)
  PROVE  IInv'
<1> DEFINE old  == interp[p]
           c    == old.child
           me1  == [old EXCEPT !.pc = "idle", !.child = None, !.kids = BoundKids(@),
                               !.handles = @ \union {[to |-> c, own |-> TRUE]}]
           me2  == [old EXCEPT !.pc = "idle", !.child = None]
<1>0. old \in Memory /\ KidsAgree(old) /\ old.pc = "spawn"
  BY Parts DEF Sound, SpawnReturns
<1>1. /\ interp' = [interp EXCEPT ![p] = me1] \/ interp' = [interp EXCEPT ![p] = me2]
      /\ UNCHANGED <<stage, status, parent, group, ready, box, arrived, sends, kills>>
  BY DEF SpawnReturns, IInv, TypeOK
<1>2. CASE interp' = [interp EXCEPT ![p] = me1]
  <2> DEFINE kids == BoundKids(old.kids)
  <2>1. c \in Proc /\ old.kids \in Seq(Kid) /\ old.kids # <<>> /\ old.kids[Len(old.kids)].pid = c
    BY <1>0, Fields DEF KidsAgree
  <2>2. /\ kids \in Seq(Kid) /\ Len(kids) = Len(old.kids) /\ DOMAIN kids = DOMAIN old.kids
        /\ \A i \in DOMAIN old.kids : /\ kids[i].pid = old.kids[i].pid
                                      /\ old.kids[i].bound => kids[i].bound
        /\ Len(kids) \in DOMAIN kids /\ kids[Len(kids)].bound /\ kids[Len(kids)].pid = c
    <3> DEFINE ks == old.kids
               n  == Len(ks)
    <3>1. n \in DOMAIN ks /\ ks[n] \in Kid /\ n \in Nat
      BY <2>1
    <3>2. [ks[n] EXCEPT !.bound = TRUE] \in Kid
      BY <3>1 DEF Kid
    <3>3. kids = [ks EXCEPT ![n] = [ks[n] EXCEPT !.bound = TRUE]]
      BY <3>1 DEF BoundKids
    <3>4. [ks[n] EXCEPT !.bound = TRUE].bound /\ [ks[n] EXCEPT !.bound = TRUE].pid = c
      BY <2>1, <3>1 DEF Kid
    <3> DEFINE y == [ks[n] EXCEPT !.bound = TRUE]
    <3> HIDE DEF y, kids
    <3>5. kids = [ks EXCEPT ![n] = y] /\ y \in Kid /\ y.bound /\ y.pid = c /\ ks \in Seq(Kid) /\ ks[n].pid = c
      BY <2>1, <3>2, <3>3, <3>4 DEF y
    <3> HIDE DEF ks
    <3>6. /\ kids \in Seq(Kid) /\ Len(kids) = Len(ks) /\ DOMAIN kids = DOMAIN ks
          /\ \A i \in DOMAIN ks : kids[i] = IF i = n THEN y ELSE ks[i]
      BY <3>1, <3>5
    <3> QED
      BY <3>1, <3>5, <3>6 DEF ks
  <2>3. /\ me1.pc = "idle" /\ me1.retain = old.retain /\ me1.mons = old.mons
        /\ me1.nref = old.nref /\ me1.seen = old.seen /\ me1.off = old.off
        /\ me1.got = old.got /\ me1.bad = old.bad /\ me1.kids = kids
        /\ me1.handles = old.handles \union {[to |-> c, own |-> TRUE]}
    BY <1>0 DEF Memory
  <2>4. me1 \in Memory
    <3>1. [to |-> c, own |-> TRUE] \in Handle
      BY <2>1 DEF Handle
    <3> QED
      BY <1>0, <2>2, <3>1 DEF Memory, Kid
  <2> HIDE DEF me1, kids
  <2>5. KidsAgree(me1)
    <3>1. \A to : Owns(old, to) => Owns(me1, to)
      BY <2>2, <2>3 DEF Owns
    <3>2. Owns(me1, c)
      BY <2>2, <2>3 DEF Owns
    <3> QED
      BY <1>0, <2>3, <3>1, <3>2 DEF KidsAgree
  <2> QED
    BY <1>1, <1>2, <2>3, <2>4, <2>5, QuietStep
<1>3. CASE interp' = [interp EXCEPT ![p] = me2]
  <2>2. me2 \in Memory
    BY <1>0 DEF Memory
  <2>3. /\ me2.pc = "idle" /\ me2.retain = old.retain /\ me2.mons = old.mons
        /\ me2.nref = old.nref /\ me2.seen = old.seen /\ me2.off = old.off
        /\ me2.got = old.got /\ me2.bad = old.bad /\ me2.kids = old.kids /\ me2.handles = old.handles
    BY <1>0 DEF Memory
  <2> HIDE DEF me2
  <2>4. KidsAgree(me2)
    BY <1>0, <2>3 DEF KidsAgree, Owns
  <2> QED
    BY <1>1, <1>3, <2>2, <2>3, <2>4, QuietStep
<1> QED
  BY <1>1, <1>2, <1>3

\* A send keeps the invariant.
LEMMA SendStep ==
  ASSUME IInv, NEW p \in Proc,
         NEW h \in interp[p].handles \union {[to |-> p, own |-> FALSE]}, NEW tag \in Tags,
         NEW carry \in interp[p].handles \union {None}, Send(p, h, tag, carry)
  PROVE  IInv'
<1> DEFINE t == h.to
           f == [tag |-> tag, n |-> arrived[t] + 1,
                 carry |-> IF carry = None THEN None ELSE [to |-> carry.to, own |-> FALSE]]
<1>1. Kernel /\ interp = [q \in Proc |-> interp[q]]
  BY KernelNow
<1>2. interp[p].handles \subseteq Handle
  <2>1. interp[p] \in Memory
    BY Parts
  <2> QED
    BY <2>1, Fields
<1>3. t \in Proc
  BY <1>2 DEF Handle
<1>4. f \in Frame /\ Carried(f) /\ f.n = arrived[t] + 1
  <2>1. carry = None \/ carry.to \in Proc
    BY <1>2 DEF Handle
  <2>2. (IF carry = None THEN None ELSE [to |-> carry.to, own |-> FALSE]) \in Handle \union {None}
    BY <2>1 DEF Handle
  <2>3. arrived[t] + 1 \in Nat
    BY <1>1, <1>3 DEF Kernel
  <2>4. f \in Frame
    BY <2>2, <2>3 DEF Frame
  <2>5. Carried(f)
    BY DEF Carried
  <2> QED
    BY <2>4, <2>5
<1> HIDE DEF f
<1>5. /\ arrived' = [arrived EXCEPT ![t] = arrived[t] + 1] /\ box' = [box EXCEPT ![t] = Append(box[t], f)]
      /\ sends' = sends + 1 /\ sends < MaxSends
      /\ stage' = stage /\ status' = status /\ parent' = parent /\ group' = group /\ ready' = ready
      /\ interp' = interp /\ kills' = kills
  BY DEF Send, f
<1> HIDE DEF t
<1>6. box[t] \in Seq(Frame) /\ Append(box[t], f) \in Seq(Frame) /\ arrived[t] \in Nat
  BY <1>1, <1>3, <1>4 DEF Kernel
<1>7. Kernel'
  <2>1. box' \in [Proc -> Seq(Frame)] /\ arrived' \in [Proc -> Nat]
    BY <1>1, <1>3, <1>5, <1>6 DEF Kernel
  <2>2. sends' \in 0 .. MaxSends
    BY <1>1, <1>5, BoundsAssumption DEF Kernel
  <2> QED
    BY <1>1, <1>5, <2>1, <2>2 DEF Kernel
<1>8. \A q \in Proc : HungUp(q)' <=> HungUp(q)
  BY <1>5 DEF HungUp
<1>9. Settles /\ \A q \in Proc : HungUp(q)' => status'[q] \in Reasons
  BY <1>5, <1>8, Parts DEF Settles
<1>10. \A q \in Proc : MemoryKept(q)
  BY <1>5 DEF MemoryKept
<1>11. /\ \A q \in Proc \ {t} : box'[q] = box[q] /\ arrived'[q] = arrived[q]
       /\ box'[t] = Append(box[t], f) /\ arrived'[t] = arrived[t] + 1
  BY <1>1, <1>3, <1>5 DEF Kernel
<1>12. /\ Len(box'[t]) = Len(box[t]) + 1 /\ Len(box[t]) \in Nat
       /\ DOMAIN box'[t] = 1 .. Len(box[t]) + 1 /\ DOMAIN box[t] = 1 .. Len(box[t])
       /\ \A i \in DOMAIN box'[t] : box'[t][i] = IF i = Len(box[t]) + 1 THEN f ELSE box[t][i]
  BY <1>4, <1>6, <1>11
<1>13. \A q \in Proc : box'[q] = box[q] \/ \A i \in DOMAIN box'[q] : Carried(box'[q][i])
  <2>1. \A i \in DOMAIN box'[t] : Carried(box'[t][i])
    BY <1>3, <1>4, <1>12, Parts
  <2> QED
    BY <1>11, <2>1
<1>14. \A q \in Proc : ~HungUp(q)' => Numbered(interp'[q], box'[q], arrived'[q])
  <2> SUFFICES ASSUME NEW q \in Proc, ~HungUp(q) PROVE Numbered(interp[q], box'[q], arrived'[q])
    BY <1>5, <1>8
  <2>1. CASE q = t
    <3>1. Numbered(interp[t], box[t], arrived[t])
      BY <2>1, Parts
    <3>2. /\ Len(box[t]) <= arrived[t]
          /\ \A i \in DOMAIN box[t] : box[t][i].n = arrived[t] - Len(box[t]) + i
          /\ interp[t].got \union interp[t].bad \union Kept_n(interp[t]) = 1 .. arrived[t] - Len(box[t])
          /\ interp[t].got \intersect Kept_n(interp[t]) = {}
          /\ interp[t].bad \intersect (interp[t].got \union Kept_n(interp[t])) = {}
      BY <3>1 DEF Numbered
    <3>3. arrived'[t] - Len(box'[t]) = arrived[t] - Len(box[t])
      BY <1>6, <1>11, <1>12
    <3>4. \A i \in DOMAIN box'[t] : box'[t][i].n = arrived'[t] - Len(box'[t]) + i
      <4> SUFFICES ASSUME NEW i \in DOMAIN box'[t] PROVE box'[t][i].n = arrived'[t] - Len(box'[t]) + i
        OBVIOUS
      <4>1. CASE i = Len(box[t]) + 1
        BY <1>4, <1>6, <1>11, <1>12, <3>3, <4>1
      <4>2. CASE i # Len(box[t]) + 1
        BY <1>12, <3>2, <3>3, <4>2
      <4> QED
        BY <4>1, <4>2
    <3>5. Len(box'[t]) <= arrived'[t]
      BY <1>6, <1>11, <1>12, <3>2
    <3> QED
      BY <2>1, <3>2, <3>3, <3>4, <3>5 DEF Numbered
  <2>2. CASE q # t
    BY <1>11, <2>2, Parts
  <2> QED
    BY <2>1, <2>2
<1> QED
  BY <1>1, <1>5, <1>7, <1>9, <1>10, <1>13, <1>14, Steady

\* A spawn keeps the invariant.
LEMMA SpawnStep ==
  ASSUME IInv, NEW p \in Proc, NEW c \in Proc,
         NEW given \in SUBSET (interp[p].handles \union {[to |-> p, own |-> FALSE]}),
         Spawn(p, c, given)
  PROVE  IInv'
<1> DEFINE kid  == [pid |-> c, bound |-> FALSE, reaped |-> FALSE]
           hs   == {[to |-> h.to, own |-> FALSE] : h \in given}
           pg   == IF interp[p].pgid = None THEN c ELSE interp[p].pgid
           mp   == [interp[p] EXCEPT !.pc = "spawn", !.child = c, !.pgid = pg,
                                     !.kids = Append(@, kid)]
           mc   == [interp[c] EXCEPT !.handles = hs]
<1>1. Kernel /\ interp = [q \in Proc |-> interp[q]]
  BY KernelNow
<1>2. p # c /\ stage[c] = "unborn"
  BY DEF Spawn
<1>3. /\ interp[p] \in Memory /\ interp[c] \in Memory /\ Sound(interp[p]) /\ Sound(interp[c])
      /\ Waits(interp[c]) /\ KidsAgree(interp[p]) /\ KidsAgree(interp[c])
  BY Parts DEF Sound
<1>4. interp' = [interp EXCEPT ![p] = mp, ![c] = mc]
  BY <1>1, <1>2 DEF Spawn
<1>5. /\ stage' = [stage EXCEPT ![c] = "booting"] /\ parent' = [parent EXCEPT ![c] = p]
      /\ group' = [group EXCEPT ![c] = JoinedGroup(p, c)]
      /\ status' = status /\ ready' = ready /\ box' = box /\ arrived' = arrived
      /\ sends' = sends /\ kills' = kills
  BY DEF Spawn
<1>6. /\ kid \in Kid /\ interp[p].kids \in Seq(Kid)
      /\ hs \in SUBSET Handle /\ pg \in Proc \union {None} /\ \A h \in hs : ~h.own
  <2>1. interp[p].handles \subseteq Handle /\ interp[p].kids \in Seq(Kid)
        /\ interp[p].pgid \in Proc \union {None}
    BY <1>3, Fields
  <2>2. \A h \in given : h.to \in Proc
    BY <2>1 DEF Handle
  <2>3. hs \in SUBSET Handle /\ \A h \in hs : ~h.own
    <3>1. \A h \in given : [to |-> h.to, own |-> FALSE] \in Handle
      BY <2>2 DEF Handle
    <3> QED
      BY <3>1
  <2> QED
    BY <2>1, <2>3 DEF Kid
<1> DEFINE ks == interp[p].kids
<1>7. /\ Append(ks, kid) \in Seq(Kid) /\ Len(Append(ks, kid)) = Len(ks) + 1 /\ Len(ks) \in Nat
      /\ Append(ks, kid)[Len(ks) + 1] = kid /\ DOMAIN ks = 1 .. Len(ks)
      /\ \A i \in DOMAIN ks : i \in DOMAIN Append(ks, kid) /\ Append(ks, kid)[i] = ks[i]
  <2> HIDE DEF kid, ks
  <2>1. kid \in Kid /\ ks \in Seq(Kid)
    BY <1>6 DEF ks
  <2> QED
    BY <2>1
<1>8. /\ mp \in Memory /\ mp.pc = "spawn" /\ mp.child = c /\ mp.kids = Append(ks, kid)
      /\ mp.retain = interp[p].retain /\ mp.mons = interp[p].mons /\ mp.nref = interp[p].nref
      /\ mp.seen = interp[p].seen /\ mp.off = interp[p].off /\ mp.got = interp[p].got /\ mp.bad = interp[p].bad
      /\ mp.handles = interp[p].handles
  <2> HIDE DEF pg, kid
  <2> QED
    BY <1>3, <1>6, <1>7 DEF Memory, Kid
<1>9. /\ mc \in Memory /\ mc.pc = interp[c].pc /\ mc.tag = interp[c].tag
      /\ mc.child = interp[c].child /\ mc.kids = interp[c].kids
      /\ mc.retain = interp[c].retain /\ mc.mons = interp[c].mons /\ mc.nref = interp[c].nref
      /\ mc.seen = interp[c].seen /\ mc.off = interp[c].off /\ mc.got = interp[c].got /\ mc.bad = interp[c].bad
      /\ mc.handles = hs
  <2> HIDE DEF hs
  <2> QED
    BY <1>3, <1>6 DEF Memory
<1>10. kid.pid = c
  OBVIOUS
<1> HIDE DEF mp, mc, hs, kid, pg
<1>11. KidsAgree(mp)
  <2>1. \A to : Owns(interp[p], to) => Owns(mp, to)
    BY <1>7, <1>8 DEF Owns
  <2>2. mp.kids # <<>> /\ mp.kids[Len(mp.kids)].pid = mp.child
    BY <1>7, <1>8, <1>10
  <2> QED
    BY <1>3, <1>8, <2>1, <2>2 DEF KidsAgree
<1>12. KidsAgree(mc)
  BY <1>3, <1>6, <1>9 DEF KidsAgree, Owns
<1>13. Sound(mp) /\ Waits(mp)
  <2>1. Sound(mp)
    BY <1>3, <1>8, <1>11, SameLists
  <2> QED
    BY <1>8, <2>1 DEF Waits
<1>14. Sound(mc) /\ Waits(mc)
  <2>1. Sound(mc)
    BY <1>3, <1>9, <1>12, SameLists
  <2> QED
    BY <1>3, <1>9, <2>1 DEF Waits
<1>15. /\ interp' = [q \in Proc |-> interp'[q]]
       /\ interp'[p] = mp /\ interp'[c] = mc /\ \A q \in Proc \ {p, c} : interp'[q] = interp[q]
  BY <1>1, <1>2, <1>4
<1>16. Kernel'
  <2>1. JoinedGroup(p, c) \in Proc \union {None}
    <3>1. interp[p].pgid \in Proc \union {None}
      BY <1>3, Fields
    <3> QED
      BY <1>1, <3>1 DEF JoinedGroup, Kernel
  <2>2. group' \in [Proc -> Proc \union {None}] /\ parent' \in [Proc -> Proc \union {None}]
    BY <1>1, <1>5, <2>1 DEF Kernel
  <2>3. stage' \in [Proc -> Stages]
    BY <1>1, <1>5 DEF Kernel, Stages
  <2> QED
    BY <1>1, <1>5, <2>2, <2>3 DEF Kernel
<1>17. \A q \in Proc : HungUp(q)' <=> HungUp(q)
  BY <1>1, <1>2, <1>5 DEF HungUp, Kernel
<1>18. Settles /\ \A q \in Proc : HungUp(q)' => status'[q] \in Reasons
  BY <1>5, <1>17, Parts DEF Settles
<1>19. \A q \in Proc : MemoryKept(q)
  <2> SUFFICES ASSUME NEW q \in Proc PROVE MemoryKept(q)
    OBVIOUS
  <2>1. CASE q = p
    BY <1>8, <1>13, <1>15, <2>1 DEF MemoryKept
  <2>2. CASE q = c
    BY <1>9, <1>14, <1>15, <2>2 DEF MemoryKept
  <2>3. CASE q \notin {p, c}
    BY <1>15, <2>3 DEF MemoryKept
  <2> QED
    BY <2>1, <2>2, <2>3
<1>20. \A q \in Proc : ~HungUp(q)' => Numbered(interp'[q], box'[q], arrived'[q])
  <2> SUFFICES ASSUME NEW q \in Proc, ~HungUp(q) PROVE Numbered(interp'[q], box[q], arrived[q])
    BY <1>5, <1>17
  <2>1. Numbered(interp[q], box[q], arrived[q])
    BY Parts
  <2>2. interp'[q].retain = interp[q].retain /\ interp'[q].got = interp[q].got /\ interp'[q].bad = interp[q].bad
    BY <1>8, <1>9, <1>15
  <2> QED
    BY <2>1, <2>2, SameNumbers
<1>21. \A q \in Proc : box'[q] = box[q]
  BY <1>5
<1> QED
  BY <1>15, <1>16, <1>18, <1>19, <1>20, <1>21, Steady

\* Demonitor keeps the invariant.
LEMMA DemonitorStep ==
  ASSUME IInv, NEW p \in Proc, NEW ref \in 1 .. MaxRefs, Demonitor(p, ref)
  PROVE  IInv'
<1> DEFINE old  == interp[p]
           mons == old.mons
           X    == {m \in ToSet(mons) : m.ref = ref}
           left == Dropped(mons, X)
           me   == [old EXCEPT !.mons = left, !.off = @ \union {ref}]
<1>0. /\ Sound(old) /\ old \in Memory /\ KidsAgree(old) /\ RefsOnce(old) /\ Ordered(old)
      /\ \A i \in DOMAIN old.retain : Carried(old.retain[i])
  BY Parts DEF Sound
<1>1. mons \in Seq(Monitor) /\ ref \in Nat
  BY <1>0, Fields, BoundsAssumption
<1>2. /\ interp' = [interp EXCEPT ![p] = me] /\ old.pc = "idle"
      /\ \E i \in DOMAIN mons : mons[i].ref = ref
      /\ UNCHANGED <<stage, status, parent, group, ready, box, arrived, sends, kills>>
  BY DEF Demonitor, IInv, TypeOK
<1>3. left \in Seq(Monitor) /\ \E g \in [DOMAIN left -> DOMAIN mons] :
           /\ \A j \in DOMAIN left : mons[g[j]].ref # ref /\ left[j] = mons[g[j]]
           /\ \A j, k \in DOMAIN left : g[j] = g[k] => j = k
           /\ \A k \in DOMAIN mons : mons[k].ref # ref => \E j \in DOMAIN left : g[j] = k
  <2>1. left = Dropped(mons, X)
    OBVIOUS
  <2>2. \A k \in DOMAIN mons : mons[k] \in X <=> mons[k].ref = ref
    BY <1>1 DEF ToSet
  <2> HIDE DEF X, mons
  <2>3. left \in Seq(Monitor) /\ \E g \in [DOMAIN left -> DOMAIN mons] :
           /\ \A j \in DOMAIN left : mons[g[j]] \notin X /\ left[j] = mons[g[j]]
           /\ \A j, k \in DOMAIN left : g[j] = g[k] => j = k
           /\ \A k \in DOMAIN mons : mons[k] \notin X => \E j \in DOMAIN left : g[j] = k
    BY <1>1, MonsDropped
  <2> HIDE DEF left
  <2> QED
    BY <2>2, <2>3
<1>4. PICK g \in [DOMAIN left -> DOMAIN mons] :
           /\ \A j \in DOMAIN left : mons[g[j]].ref # ref /\ left[j] = mons[g[j]]
           /\ \A j, k \in DOMAIN left : g[j] = g[k] => j = k
           /\ \A k \in DOMAIN mons : mons[k].ref # ref => \E j \in DOMAIN left : g[j] = k
  BY <1>3
<1> HIDE DEF left
<1>5. /\ me \in Memory /\ me.pc = "idle" /\ me.retain = old.retain /\ me.mons = left
      /\ me.nref = old.nref /\ me.seen = old.seen /\ me.off = old.off \union {ref}
      /\ me.got = old.got /\ me.bad = old.bad /\ me.kids = old.kids /\ me.handles = old.handles
  BY <1>0, <1>1, <1>2, <1>3 DEF Memory, Monitor
<1> HIDE DEF me
<1>6. KidsAgree(me)
  <2>1. \A to : Owns(old, to) => Owns(me, to)
    BY <1>5 DEF Owns
  <2>2. \A i \in DOMAIN me.mons : me.mons[i].own => Owns(me, me.mons[i].to)
    BY <1>0, <1>4, <1>5, <2>1 DEF KidsAgree
  <2> QED
    BY <1>0, <1>5, <2>1, <2>2 DEF KidsAgree
<1>7. RefsOnce(me)
  <2>0. ref \in 1 .. old.nref
    BY <1>0, <1>2 DEF RefsOnce
  <2>1. \A i \in DOMAIN me.mons : me.mons[i].ref \in 1 .. me.nref
    BY <1>0, <1>4, <1>5 DEF RefsOnce
  <2>2. /\ \A i \in DOMAIN me.retain : IsDown(me.retain[i]) => me.retain[i].ref \in 1 .. me.nref
        /\ me.seen \subseteq 1 .. me.nref /\ me.off \subseteq 1 .. me.nref
    BY <1>0, <1>5, <2>0 DEF RefsOnce
  <2>3. ASSUME NEW r \in 1 .. me.nref PROVE Once(me, r)
    <3>1. Once(old, r) /\ Queued(me, r) = Queued(old, r)
      BY <1>0, <1>5, <2>3 DEF RefsOnce, Queued
    <3>2. \A j \in Armed(me, r) : j \in DOMAIN left /\ g[j] \in Armed(old, r) /\ r # ref
      BY <1>4, <1>5 DEF Armed
    <3>3. \A i, j \in Armed(me, r) : i = j
      BY <1>4, <3>1, <3>2 DEF Once
    <3>4. CASE r = ref
      <4>1. Armed(old, r) # {} /\ Armed(me, r) = {}
        BY <1>2, <3>2, <3>4 DEF Armed
      <4>2. Queued(old, r) = {} /\ r \notin old.seen
        BY <3>1, <4>1 DEF Once
      <4> QED
        BY <1>5, <3>1, <3>4, <4>1, <4>2 DEF Once
    <3>5. CASE r # ref
      <4>1. Armed(me, r) # {} <=> Armed(old, r) # {}
        BY <1>4, <1>5, <3>2, <3>5 DEF Armed
      <4> QED
        BY <1>5, <3>1, <3>3, <3>5, <4>1 DEF Once
    <3> QED
      BY <3>4, <3>5
  <2> QED
    BY <2>1, <2>2, <2>3 DEF RefsOnce
<1>8. Sound(me) /\ Waits(me)
  BY <1>0, <1>5, <1>6, <1>7 DEF Sound, Waits, Ordered, Frames
<1>9. ~HungUp(p) => Numbered(me, box'[p], arrived'[p])
  BY <1>2, <1>5, Parts, SameNumbers
<1>10. Reaps /\ box' \in [Proc -> Seq(Frame)] /\ arrived' \in [Proc -> Nat]
  BY <1>2 DEF Reaps, IInv, TypeOK
<1>11. \A i \in DOMAIN box'[p] : Carried(box'[p][i])
  BY <1>2, Parts
<1>12. \A i \in DOMAIN me.retain :
         \/ \E k \in DOMAIN interp[p].retain : me.retain[i] = interp[p].retain[k]
         \/ ~IsDown(me.retain[i])
         \/ DownTrue(me.retain[i])
  BY <1>5
<1>13. /\ \A q \in Proc \ {p} : box'[q] = box[q] /\ arrived'[q] = arrived[q]
       /\ UNCHANGED <<status, parent, group, ready, sends, kills>>
  BY <1>2
<1> QED
  BY <1>2, <1>8, <1>9, <1>10, <1>11, <1>12, <1>13, OwnStep

\* Reaping takes zombies, and no one else.
LEMMA ReapsZombies ==
  ASSUME IInv, NEW kids, stage' = ReapedStage(Reapable(kids))
  PROVE  Reaps
<1>1. \A q \in Reapable(kids) : stage[q] = "zombie"
  BY DEF Reapable
<1>2. stage \in [Proc -> Stages]
  BY DEF IInv, TypeOK
<1> QED
  BY <1>1, <1>2 DEF Reaps, ReapedStage, Stages

\* The reaped records bind what the records bound.
LEMMA ReapedOwns ==
  ASSUME NEW me \in Memory, NEW S, NEW you, you.kids = Reaped(me.kids, S), NEW to, Owns(me, to)
  PROVE  Owns(you, to)
<1>1. /\ Reaped(me.kids, S) \in Seq(Kid)
      /\ Len(Reaped(me.kids, S)) = Len(me.kids)
      /\ \A i \in DOMAIN me.kids : /\ Reaped(me.kids, S)[i].pid = me.kids[i].pid
                                   /\ Reaped(me.kids, S)[i].bound = me.kids[i].bound
  BY ReapedKids
<1>2. me.kids \in Seq(Kid)
  BY Fields
<1>3. DOMAIN you.kids = DOMAIN me.kids
  BY <1>1, <1>2
<1> QED
  BY <1>1, <1>3 DEF Owns

\* monitor on a target that is gone: its down goes to the retain queue.
LEMMA ToldSound ==
  ASSUME NEW me, Sound(me), me.nref < MaxRefs, NEW d \in Down, d.ref = me.nref + 1, NEW S,
         NEW you \in Memory, you.pc = me.pc, me.pc = "idle", you.mons = me.mons,
         you.nref = me.nref + 1, you.seen = me.seen, you.off = me.off, you.handles = me.handles,
         you.retain = Append(me.retain, d), you.kids = Reaped(me.kids, S)
  PROVE  Sound(you) /\ Kept_n(you) = Kept_n(me)
<1> DEFINE n == Len(me.retain)
<1>1. /\ me \in Memory /\ KidsAgree(me) /\ RefsOnce(me) /\ Ordered(me)
      /\ \A i \in DOMAIN me.retain : Carried(me.retain[i])
  BY DEF Sound
<1>2. me.retain \in Seq(Message) /\ me.nref \in Nat /\ d \in Message /\ IsDown(d)
  BY <1>1, Fields, BoundsAssumption DEF Message, IsDown, Down
<1>3. /\ n \in Nat /\ DOMAIN me.retain = 1 .. n /\ DOMAIN you.retain = 1 .. n + 1
      /\ \A i \in 1 .. n : you.retain[i] = me.retain[i] /\ i # n + 1
      /\ you.retain[n + 1] = d
  BY <1>2
<1>4. KidsAgree(you)
  <2>1. \A to : Owns(me, to) => Owns(you, to)
    BY <1>1, ReapedOwns
  <2> QED
    BY <1>1, <2>1 DEF KidsAgree
<1>5. Frames(you) = Frames(me) /\ \A i \in Frames(me) : you.retain[i] = me.retain[i]
  BY <1>2, <1>3 DEF Frames
<1>6. Ordered(you) /\ Kept_n(you) = Kept_n(me)
  BY <1>1, <1>5 DEF Ordered, Kept_n
<1>7. \A i \in DOMAIN you.retain : Carried(you.retain[i])
  BY <1>1, <1>2, <1>3 DEF Carried
<1>8. RefsOnce(you)
  <2>1. /\ \A i \in DOMAIN you.mons : you.mons[i].ref \in 1 .. you.nref
        /\ you.seen \subseteq 1 .. you.nref /\ you.off \subseteq 1 .. you.nref
    BY <1>1, <1>2 DEF RefsOnce
  <2>2. \A i \in DOMAIN you.retain : IsDown(you.retain[i]) => you.retain[i].ref \in 1 .. you.nref
    BY <1>1, <1>2, <1>3 DEF RefsOnce
  <2>3. ASSUME NEW ref \in 1 .. you.nref PROVE Once(you, ref)
    <3>1. Armed(you, ref) = Armed(me, ref)
      BY DEF Armed
    <3>2. CASE ref = me.nref + 1
      <4>1. ref \notin 1 .. me.nref
        BY <1>2, <3>2
      <4>2. Armed(you, ref) = {} /\ ref \notin you.seen /\ ref \notin you.off
        BY <1>1, <3>1, <4>1 DEF RefsOnce, Armed
      <4>3. Queued(you, ref) = {n + 1}
        BY <1>1, <1>2, <1>3, <3>2, <4>1 DEF RefsOnce, Queued
      <4> QED
        BY <4>2, <4>3 DEF Once
    <3>3. CASE ref # me.nref + 1
      <4>1. ref \in 1 .. me.nref
        BY <1>2, <2>3, <3>3
      <4>2. Queued(you, ref) = Queued(me, ref)
        BY <1>2, <1>3, <3>3 DEF Queued
      <4> QED
        BY <1>1, <3>1, <4>1, <4>2 DEF Once, RefsOnce
    <3> QED
      BY <3>2, <3>3
  <2> QED
    BY <2>1, <2>2, <2>3 DEF RefsOnce
<1> QED
  BY <1>4, <1>6, <1>7, <1>8 DEF Sound

\* monitor on a live target: at the head of the list.
LEMMA WatchSound ==
  ASSUME NEW me, Sound(me), me.nref < MaxRefs, NEW m \in Monitor, m.ref = me.nref + 1,
         m.own => Owns(me, m.to), NEW S,
         NEW you \in Memory, you.pc = me.pc, me.pc = "idle", you.mons = <<m>> \o me.mons,
         you.nref = me.nref + 1, you.seen = me.seen, you.off = me.off, you.handles = me.handles,
         you.retain = me.retain, you.kids = Reaped(me.kids, S)
  PROVE  Sound(you)
<1>1. /\ me \in Memory /\ KidsAgree(me) /\ RefsOnce(me) /\ Ordered(me)
      /\ \A i \in DOMAIN me.retain : Carried(me.retain[i])
  BY DEF Sound
<1>2. me.mons \in Seq(Monitor) /\ me.nref \in Nat
  BY <1>1, Fields, BoundsAssumption
<1>3. /\ you.mons[1] = m /\ 1 \in DOMAIN you.mons
      /\ \A i \in DOMAIN you.mons : i = 1 \/ (i - 1 \in DOMAIN me.mons /\ you.mons[i] = me.mons[i - 1])
      /\ \A i \in DOMAIN me.mons : i + 1 \in DOMAIN you.mons /\ you.mons[i + 1] = me.mons[i]
      /\ DOMAIN you.mons \subseteq Nat /\ DOMAIN me.mons \subseteq Nat
  <2> DEFINE s == me.mons
             l == <<m>> \o s
             n == Len(s)
  <2>1. /\ s \in Seq(Monitor) /\ n \in Nat /\ DOMAIN s = 1 .. n
    BY <1>2
  <2> HIDE DEF s
  <2>2. /\ DOMAIN l = 1 .. n + 1 /\ l[1] = m
        /\ \A i \in 1 .. n : l[i + 1] = s[i]
        /\ \A i \in 2 .. n + 1 : l[i] = s[i - 1]
    BY <2>1
  <2>3. you.mons = l
    BY DEF s
  <2> HIDE DEF l
  <2> QED
    BY <2>1, <2>2, <2>3 DEF s
<1>4. KidsAgree(you)
  <2>1. \A to : Owns(me, to) => Owns(you, to)
    BY <1>1, ReapedOwns
  <2>2. \A i \in DOMAIN you.mons : you.mons[i].own => Owns(you, you.mons[i].to)
    BY <1>1, <1>3, <2>1 DEF KidsAgree
  <2> QED
    BY <1>1, <2>1, <2>2 DEF KidsAgree
<1>5. RefsOnce(you)
  <2>1. \A i \in DOMAIN you.mons : you.mons[i].ref \in 1 .. you.nref
    BY <1>1, <1>2, <1>3 DEF RefsOnce
  <2>2. /\ \A i \in DOMAIN you.retain : IsDown(you.retain[i]) => you.retain[i].ref \in 1 .. you.nref
        /\ you.seen \subseteq 1 .. you.nref /\ you.off \subseteq 1 .. you.nref
    BY <1>1, <1>2 DEF RefsOnce
  <2>3. ASSUME NEW ref \in 1 .. you.nref PROVE Once(you, ref)
    <3>1. Queued(you, ref) = Queued(me, ref)
      BY DEF Queued
    <3>2. CASE ref = me.nref + 1
      <4>1. ref \notin 1 .. me.nref
        BY <1>2, <3>2
      <4>2. Queued(you, ref) = {} /\ ref \notin you.seen /\ ref \notin you.off
        BY <1>1, <3>1, <4>1 DEF RefsOnce, Queued
      <4>3. Armed(you, ref) = {1}
        BY <1>1, <1>3, <3>2, <4>1 DEF RefsOnce, Armed
      <4> QED
        BY <4>2, <4>3 DEF Once
    <3>3. CASE ref # me.nref + 1
      <4>1. ref \in 1 .. me.nref
        BY <1>2, <2>3, <3>3
      <4>2. Once(me, ref)
        BY <1>1, <4>1 DEF RefsOnce
      <4>3. \A i \in Armed(you, ref) : i \in Nat /\ i - 1 \in Armed(me, ref)
        BY <1>3, <3>3 DEF Armed
      <4>4. \A i \in Armed(me, ref) : i + 1 \in Armed(you, ref)
        BY <1>3 DEF Armed
      <4>5. \A i, j \in Armed(you, ref) : i = j
        <5> SUFFICES ASSUME NEW i \in Armed(you, ref), NEW j \in Armed(you, ref) PROVE i = j
          OBVIOUS
        <5>1. i - 1 = j - 1 /\ i \in Nat /\ j \in Nat
          BY <4>2, <4>3 DEF Once
        <5> QED
          BY <5>1
      <4>6. Armed(you, ref) # {} <=> Armed(me, ref) # {}
        BY <4>3, <4>4
      <4> QED
        BY <3>1, <4>2, <4>5, <4>6 DEF Once
    <3> QED
      BY <3>2, <3>3
  <2> QED
    BY <2>1, <2>2, <2>3 DEF RefsOnce
<1> QED
  BY <1>1, <1>4, <1>5 DEF Sound, Ordered, Frames

\* monitor() keeps the invariant.
LEMMA MonitorStep ==
  ASSUME IInv, NEW p \in Proc, NEW h \in interp[p].handles, MonitorCall(p, h)
  PROVE  IInv'
<1> DEFINE old  == interp[p]
           m    == [ref |-> old.nref + 1, to |-> h.to, own |-> h.own]
           dead == Reapable(old.kids)
           d    == DownOf(old.kids, m, "noproc")
           me   == [old EXCEPT !.nref = @ + 1, !.kids = Reaped(@, dead),
                       !.mons = IF HungUp(h.to) THEN @ ELSE <<m>> \o @,
                       !.retain = IF HungUp(h.to) THEN Append(@, d) ELSE @]
<1>0. Sound(old) /\ old \in Memory /\ KidsAgree(old)
  BY Parts DEF Sound
<1>1. /\ old.mons \in Seq(Monitor) /\ old.retain \in Seq(Message) /\ old.nref \in 0 .. MaxRefs
      /\ old.handles \in SUBSET Handle
  BY <1>0, Fields
<1>2. /\ interp' = [interp EXCEPT ![p] = me] /\ old.pc = "idle" /\ old.nref < MaxRefs
      /\ stage' = ReapedStage(dead)
      /\ UNCHANGED <<status, parent, group, ready, box, arrived, sends, kills>>
  BY DEF MonitorCall, IInv, TypeOK
<1>3. /\ m \in Monitor /\ m.ref = old.nref + 1 /\ m.to = h.to /\ m.to \in Proc
      /\ m.own => Owns(old, m.to)
  <2>1. h \in Handle /\ (h.own => Owns(old, h.to))
    BY <1>0, <1>1 DEF KidsAgree
  <2>2. h.to \in Proc /\ h.own \in BOOLEAN /\ old.nref + 1 \in Nat
    BY <1>1, <2>1, BoundsAssumption DEF Handle
  <2> QED
    BY <2>1, <2>2 DEF Monitor
<1>4. HungUp(h.to) => /\ d \in Down /\ DownTrue(d) /\ IsDown(d) /\ d.ref = old.nref + 1
  <2> SUFFICES ASSUME HungUp(h.to)
               PROVE  d \in Down /\ DownTrue(d) /\ IsDown(d) /\ d.ref = old.nref + 1
    OBVIOUS
  <2>1. status[m.to] \in Reasons /\ HungUp(m.to)
    BY <1>3, Parts
  <2> HIDE DEF m, old
  <2> QED
    BY <1>0, <1>3, <2>1, DownMade
<1>5. /\ \A i \in DOMAIN box'[p] : Carried(box'[p][i])
      /\ \A q \in Proc \ {p} : box'[q] = box[q] /\ arrived'[q] = arrived[q]
      /\ UNCHANGED <<status, parent, group, ready, sends, kills>>
      /\ box' \in [Proc -> Seq(Frame)] /\ arrived' \in [Proc -> Nat]
  BY <1>2, Parts DEF IInv, TypeOK
<1>6. Reaps
  BY <1>2, ReapsZombies
<1>7. Reaped(old.kids, dead) \in Seq(Kid)
  BY <1>0, ReapedKids
<1> HIDE DEF m, d, dead
<1>8. CASE HungUp(h.to)
  <2>1. Append(old.retain, d) \in Seq(Message)
    BY <1>1, <1>4, <1>8 DEF Message
  <2>2. /\ me \in Memory /\ me.pc = "idle" /\ me.retain = Append(old.retain, d) /\ me.mons = old.mons
        /\ me.nref = old.nref + 1 /\ me.seen = old.seen /\ me.off = old.off
        /\ me.got = old.got /\ me.bad = old.bad /\ me.kids = Reaped(old.kids, dead) /\ me.handles = old.handles
    <3> DEFINE n  == old.nref + 1
               ks == Reaped(old.kids, dead)
               ms == old.mons
               rs == Append(old.retain, d)
    <3>1. me = [old EXCEPT !.nref = n, !.kids = ks, !.mons = ms, !.retain = rs]
      BY <1>8
    <3>2. /\ n \in 0 .. MaxRefs /\ ks \in Seq(Kid) /\ ms \in Seq(Monitor) /\ rs \in Seq(Message)
          /\ old \in Memory
      BY <1>0, <1>1, <1>2, <1>7, <2>1, BoundsAssumption
    <3> HIDE DEF n, ks, ms, rs, old, me
    <3>3. /\ me \in Memory /\ me.pc = old.pc /\ me.retain = rs /\ me.mons = ms
          /\ me.nref = n /\ me.seen = old.seen /\ me.off = old.off
          /\ me.got = old.got /\ me.bad = old.bad /\ me.kids = ks /\ me.handles = old.handles
      BY <3>1, <3>2 DEF Memory, Message, Monitor, Kid
    <3> QED
      BY <1>2, <3>3 DEF n, ks, ms, rs
  <2> HIDE DEF me
  <2>3. Sound(me) /\ Kept_n(me) = Kept_n(old)
    BY <1>0, <1>2, <1>4, <1>8, <2>2, ToldSound
  <2>4. Waits(me)
    BY <2>2 DEF Waits
  <2>5. ~HungUp(p) => Numbered(me, box'[p], arrived'[p])
    BY <1>2, <2>2, <2>3, Parts DEF Numbered
  <2>6. \A i \in DOMAIN me.retain :
          \/ \E k \in DOMAIN interp[p].retain : me.retain[i] = interp[p].retain[k]
          \/ ~IsDown(me.retain[i])
          \/ DownTrue(me.retain[i])
    BY <1>1, <1>4, <1>8, <2>2
  <2> QED
    BY <1>2, <1>5, <1>6, <2>3, <2>4, <2>5, <2>6, OwnStep
<1>9. CASE ~HungUp(h.to)
  <2>1. <<m>> \o old.mons \in Seq(Monitor)
    BY <1>1, <1>3
  <2>2. /\ me \in Memory /\ me.pc = "idle" /\ me.retain = old.retain /\ me.mons = <<m>> \o old.mons
        /\ me.nref = old.nref + 1 /\ me.seen = old.seen /\ me.off = old.off
        /\ me.got = old.got /\ me.bad = old.bad /\ me.kids = Reaped(old.kids, dead) /\ me.handles = old.handles
    <3> DEFINE n  == old.nref + 1
               ks == Reaped(old.kids, dead)
               ms == <<m>> \o old.mons
               rs == old.retain
    <3>1. me = [old EXCEPT !.nref = n, !.kids = ks, !.mons = ms, !.retain = rs]
      BY <1>9
    <3>2. /\ n \in 0 .. MaxRefs /\ ks \in Seq(Kid) /\ ms \in Seq(Monitor) /\ rs \in Seq(Message)
          /\ old \in Memory
      BY <1>0, <1>1, <1>2, <1>7, <2>1, BoundsAssumption
    <3> HIDE DEF n, ks, ms, rs, old, me
    <3>3. /\ me \in Memory /\ me.pc = old.pc /\ me.retain = rs /\ me.mons = ms
          /\ me.nref = n /\ me.seen = old.seen /\ me.off = old.off
          /\ me.got = old.got /\ me.bad = old.bad /\ me.kids = ks /\ me.handles = old.handles
      BY <3>1, <3>2 DEF Memory, Message, Monitor, Kid
    <3> QED
      BY <1>2, <3>3 DEF n, ks, ms, rs
  <2> HIDE DEF me
  <2>3. Sound(me)
    BY <1>0, <1>2, <1>3, <2>2, WatchSound
  <2>4. Waits(me)
    BY <2>2 DEF Waits
  <2>5. ~HungUp(p) => Numbered(me, box'[p], arrived'[p])
    BY <1>2, <2>2, Parts, SameNumbers
  <2>6. \A i \in DOMAIN me.retain :
          \/ \E k \in DOMAIN interp[p].retain : me.retain[i] = interp[p].retain[k]
          \/ ~IsDown(me.retain[i])
          \/ DownTrue(me.retain[i])
    BY <2>2
  <2> QED
    BY <1>2, <1>5, <1>6, <2>3, <2>4, <2>5, <2>6, OwnStep
<1> QED
  BY <1>8, <1>9

\* Finish keeps the invariant.
LEMMA FinishStep ==
  ASSUME IInv, NEW p \in Proc, NEW how \in Outcomes, Finish(p, how)
  PROVE  IInv'
<1> DEFINE hit  == {q \in Proc : Alive(q) /\ interp[p].pgid # None /\ group[q] = interp[p].pgid}
           base == IF p \in hit THEN Fresh ELSE interp[p]
           me   == [base EXCEPT !.pc = "cleanup", !.exit = how]
<1>1. Kernel /\ interp = [q \in Proc |-> interp[q]]
  BY KernelNow
<1>2. Ends(hit, "killed") /\ UNCHANGED <<parent, group, ready, arrived, sends, kills>>
  BY DEF Finish
<1>3. \A q \in hit : Alive(q)
  OBVIOUS
<1>4. interp' = [Forgotten(hit, interp) EXCEPT ![p].pc = "cleanup", ![p].exit = how]
  BY DEF Finish
<1> HIDE DEF hit
<1>5. interp' = [q \in Proc |-> IF q = p THEN me ELSE IF q \in hit THEN Fresh ELSE interp[q]]
  BY <1>4 DEF Forgotten
<1>6. /\ stage' = [q \in Proc |-> IF q \in hit THEN "exiting" ELSE stage[q]]
      /\ status' = [q \in Proc |-> IF q \in hit THEN "killed" ELSE status[q]]
      /\ box' = [q \in Proc |-> IF q \in hit THEN <<>> ELSE box[q]]
  BY <1>2 DEF Ends
<1>7. Kernel'
  <2>1. <<>> \in Seq(Frame)
    OBVIOUS
  <2>2. box' \in [Proc -> Seq(Frame)]
    BY <1>1, <1>6, <2>1 DEF Kernel
  <2>3. stage' \in [Proc -> Stages] /\ status' \in [Proc -> Reasons \union {"none"}]
    BY <1>1, <1>6 DEF Kernel, Stages, Reasons
  <2> QED
    BY <1>1, <1>2, <2>2, <2>3 DEF Kernel
<1>8. \A q \in Proc : /\ HungUp(q)' <=> q \in hit \/ HungUp(q)
                      /\ q \in hit => ~HungUp(q)
  BY <1>3, <1>6 DEF HungUp, Alive
<1>9. Settles /\ \A q \in Proc : HungUp(q)' => status'[q] \in Reasons
  BY <1>6, <1>8, Parts DEF Settles, Reasons
<1>10. Sound(base) /\ base \in Memory /\ KidsAgree(base)
  BY FreshSound, Parts DEF Sound
<1>11. Fresh.retain = <<>> /\ DOMAIN Fresh.retain = {}
  <2>1. Fresh.retain = <<>>
    BY DEF Fresh
  <2> QED
    BY <2>1
<1> HIDE DEF base
<1>12. /\ me \in Memory /\ me.pc = "cleanup" /\ me.retain = base.retain /\ me.mons = base.mons
       /\ me.nref = base.nref /\ me.seen = base.seen /\ me.off = base.off
       /\ me.got = base.got /\ me.bad = base.bad /\ me.kids = base.kids /\ me.handles = base.handles
  BY <1>10, BoundsAssumption DEF Memory
<1> HIDE DEF me
<1>13. KidsAgree(me)
  BY <1>10, <1>12 DEF KidsAgree, Owns
<1>14. Sound(me) /\ Waits(me)
  <2>1. Sound(me)
    BY <1>10, <1>12, <1>13, SameLists
  <2> QED
    BY <1>12, <2>1 DEF Waits
<1>15. \A q \in Proc : MemoryKept(q)
  <2> SUFFICES ASSUME NEW q \in Proc PROVE MemoryKept(q)
    OBVIOUS
  <2>1. CASE q = p
    <3>1. \A i \in DOMAIN me.retain : \E k \in DOMAIN interp[p].retain : me.retain[i] = interp[p].retain[k]
      BY <1>11, <1>12 DEF base
    <3> QED
      BY <1>5, <1>14, <2>1, <3>1 DEF MemoryKept
  <2>2. CASE q # p /\ q \in hit
    <3>1. interp'[q] = Fresh
      BY <1>5, <2>2
    <3> QED
      BY <1>11, <3>1, FreshSound DEF MemoryKept
  <2>3. CASE q # p /\ q \notin hit
    BY <1>5, <2>3 DEF MemoryKept
  <2> QED
    BY <2>1, <2>2, <2>3
<1>16. \A q \in Proc : box'[q] = box[q] \/ \A i \in DOMAIN box'[q] : Carried(box'[q][i])
  BY <1>6
<1>17. \A q \in Proc : ~HungUp(q)' => Numbered(interp'[q], box'[q], arrived'[q])
  <2> SUFFICES ASSUME NEW q \in Proc, ~HungUp(q)' PROVE Numbered(interp'[q], box'[q], arrived'[q])
    OBVIOUS
  <2>1. q \notin hit /\ ~HungUp(q) /\ box'[q] = box[q] /\ arrived'[q] = arrived[q]
    BY <1>2, <1>6, <1>8
  <2>2. Numbered(interp[q], box[q], arrived[q])
    BY <2>1, Parts
  <2>3. interp'[q].retain = interp[q].retain /\ interp'[q].got = interp[q].got /\ interp'[q].bad = interp[q].bad
    BY <1>5, <1>12, <2>1 DEF base
  <2> QED
    BY <2>1, <2>2, <2>3, SameNumbers
<1>18. interp' = [q \in Proc |-> interp'[q]]
  BY <1>5
<1> QED
  BY <1>7, <1>9, <1>15, <1>16, <1>17, <1>18, Steady

\* Cleanup keeps the invariant.
LEMMA CleanupStep ==
  ASSUME IInv, NEW p \in Proc, CleanupDone(p)
  PROVE  IInv'
<1> DEFINE kids == interp[p].kids
           left == {kids[i].pid : i \in {j \in DOMAIN kids : ~kids[j].reaped}}
<1>1. Kernel /\ interp = [q \in Proc |-> interp[q]]
  BY KernelNow
<1>2. /\ stage[p] = "running" /\ \A c \in left : stage[c] = "zombie"
      /\ stage' = [ReapedStage(left) EXCEPT ![p] = "exiting"]
      /\ status' = [status EXCEPT ![p] = interp[p].exit]
      /\ box' = [box EXCEPT ![p] = <<>>] /\ interp' = Forgotten({p}, interp)
      /\ UNCHANGED <<parent, group, ready, arrived, sends, kills>>
  BY DEF CleanupDone
<1> HIDE DEF left
<1>3. /\ stage' = [q \in Proc |-> IF q = p THEN "exiting" ELSE IF q \in left THEN "reaped" ELSE stage[q]]
      /\ interp' = [q \in Proc |-> IF q = p THEN Fresh ELSE interp[q]]
  BY <1>2 DEF ReapedStage, Forgotten
<1>4. interp[p].exit \in Reasons
  <2>1. interp[p] \in Memory
    BY Parts
  <2> QED
    BY <2>1, Fields DEF Reasons
<1>5. Kernel'
  <2>1. <<>> \in Seq(Frame)
    OBVIOUS
  <2>2. box' \in [Proc -> Seq(Frame)]
    BY <1>1, <1>2, <2>1 DEF Kernel
  <2>3. stage' \in [Proc -> Stages]
    BY <1>1, <1>3 DEF Kernel, Stages
  <2>4. status' \in [Proc -> Reasons \union {"none"}]
    BY <1>1, <1>2, <1>4 DEF Kernel
  <2> QED
    BY <1>1, <1>2, <2>2, <2>3, <2>4 DEF Kernel
<1>6. \A q \in Proc : HungUp(q)' <=> q = p \/ HungUp(q)
  BY <1>2, <1>3 DEF HungUp
<1>7. ~HungUp(p)
  BY <1>2 DEF HungUp
<1>8. status'[p] = interp[p].exit /\ \A q \in Proc \ {p} : status'[q] = status[q] /\ box'[q] = box[q]
  BY <1>1, <1>2 DEF Kernel
<1>9. Settles /\ \A q \in Proc : HungUp(q)' => status'[q] \in Reasons
  BY <1>4, <1>6, <1>7, <1>8, Parts DEF Settles
<1>10. \A q \in Proc : MemoryKept(q)
  <2> SUFFICES ASSUME NEW q \in Proc PROVE MemoryKept(q)
    OBVIOUS
  <2>1. CASE q = p
    <3>1. interp'[q] = Fresh /\ Fresh.retain = <<>>
      BY <1>3, <2>1 DEF Fresh
    <3>2. DOMAIN interp'[q].retain = {}
      BY <3>1
    <3> QED
      BY <3>1, <3>2, FreshSound DEF MemoryKept
  <2>2. CASE q # p
    BY <1>3, <2>2 DEF MemoryKept
  <2> QED
    BY <2>1, <2>2
<1>11. \A q \in Proc : box'[q] = box[q] \/ \A i \in DOMAIN box'[q] : Carried(box'[q][i])
  <2>1. box'[p] = <<>>
    BY <1>1, <1>2 DEF Kernel
  <2> QED
    BY <1>8, <2>1
<1>12. \A q \in Proc : ~HungUp(q)' => Numbered(interp'[q], box'[q], arrived'[q])
  <2> SUFFICES ASSUME NEW q \in Proc, ~HungUp(q)' PROVE Numbered(interp'[q], box'[q], arrived'[q])
    OBVIOUS
  <2>1. q # p /\ ~HungUp(q)
    BY <1>6
  <2>2. interp'[q] = interp[q] /\ box'[q] = box[q] /\ arrived'[q] = arrived[q]
    BY <1>2, <1>3, <1>8, <2>1
  <2> QED
    BY <2>1, <2>2, Parts
<1>13. interp' = [q \in Proc |-> interp'[q]]
  BY <1>3
<1> QED
  BY <1>5, <1>9, <1>10, <1>11, <1>12, <1>13, Steady

---------------------------------------------------------------------------
(* receive.                                                                *)

\* What Collect makes of a sound memory: a sound one, whose messages it had
\* or are true downs; a frame it returns is the oldest that matches.
LEMMA CollectSound ==
  ASSUME IInv, NEW p \in Proc, NEW me, Sound(me), Collect(p, me)
  PROVE  \E you :
           /\ interp' = [interp EXCEPT ![p] = you] /\ Sound(you) /\ Waits(you)
           /\ \A i \in DOMAIN you.retain :
                \/ \E k \in DOMAIN me.retain : you.retain[i] = me.retain[k]
                \/ DownTrue(you.retain[i])
           /\ \A b, a : Numbered(me, b, a) => Numbered(you, b, a)
           /\ \A n \in you.got \ me.got : \A k \in Frames(me) :
                Matches(me.retain[k], me.tag) => n <= me.retain[k].n
<1> DEFINE now == Gathered(me, Reapable(me.kids))
           you == IF HasRetained(now) THEN RetainTake(now) ELSE [now EXCEPT !.pc = "wait"]
<1>1. interp' = [interp EXCEPT ![p] = you]
  BY DEF Collect, Gathered
<1>2. /\ Sound(now)
      /\ now.pc = me.pc /\ now.tag = me.tag /\ now.got = me.got /\ now.bad = me.bad
      /\ Kept_n(now) = Kept_n(me)
      /\ \A i \in Frames(me) : i \in Frames(now) /\ now.retain[i] = me.retain[i]
      /\ \A i \in DOMAIN now.retain :
           \/ i \in DOMAIN me.retain /\ now.retain[i] = me.retain[i]
           \/ IsDown(now.retain[i]) /\ DownTrue(now.retain[i])
  BY GatheredSound, Parts
<1> HIDE DEF now
<1>3. CASE HasRetained(now)
  <2>1. you = RetainTake(now)
    BY <1>3
  <2>2. /\ Sound(you) /\ you.pc = "idle"
        /\ \A j \in DOMAIN you.retain : \E k \in DOMAIN now.retain : you.retain[j] = now.retain[k]
        /\ you.got \union Kept_n(you) = now.got \union Kept_n(now) /\ you.bad = now.bad
        /\ now.got \intersect Kept_n(now) = {} => you.got \intersect Kept_n(you) = {}
        /\ \A n \in you.got \ now.got : \A k \in Frames(now) :
             Matches(now.retain[k], now.tag) => n <= now.retain[k].n
    BY <1>2, <1>3, <2>1, TakenSound
  <2> HIDE DEF you
  <2>3. Waits(you)
    BY <2>2 DEF Waits
  <2>4. \A i \in DOMAIN you.retain :
                \/ \E k \in DOMAIN me.retain : you.retain[i] = me.retain[k]
                \/ DownTrue(you.retain[i])
    BY <1>2, <2>2
  <2>5. ASSUME NEW b, NEW a, Numbered(me, b, a) PROVE Numbered(you, b, a)
    <3>1. /\ you.got \union you.bad \union Kept_n(you) = me.got \union me.bad \union Kept_n(me)
          /\ you.bad = me.bad
          /\ you.got \union Kept_n(you) = me.got \union Kept_n(me)
      BY <1>2, <2>2
    <3>2. you.got \intersect Kept_n(you) = {}
      BY <1>2, <2>2, <2>5 DEF Numbered
    <3> QED
      BY <2>5, <3>1, <3>2 DEF Numbered
  <2>6. \A n \in you.got \ me.got : \A k \in Frames(me) :
                Matches(me.retain[k], me.tag) => n <= me.retain[k].n
    BY <1>2, <2>2
  <2> QED
    BY <1>1, <2>2, <2>3, <2>4, <2>5, <2>6
<1>4. CASE ~HasRetained(now)
  <2>0. you = [now EXCEPT !.pc = "wait"]
    BY <1>4
  <2>1. now \in Memory /\ KidsAgree(now)
    BY <1>2 DEF Sound
  <2>2. /\ you \in Memory /\ you.pc = "wait" /\ you.retain = now.retain /\ you.mons = now.mons
        /\ you.nref = now.nref /\ you.seen = now.seen /\ you.off = now.off /\ you.tag = now.tag
        /\ you.got = now.got /\ you.bad = now.bad /\ you.kids = now.kids /\ you.handles = now.handles
    BY <2>0, <2>1 DEF Memory
  <2> HIDE DEF you
  <2>3. KidsAgree(you)
    BY <2>1, <2>2 DEF KidsAgree, Owns
  <2>4. Sound(you)
    BY <1>2, <2>2, <2>3, SameLists
  <2>5. Waits(you)
    BY <1>4, <2>2 DEF Waits, HasRetained
  <2>6. \A i \in DOMAIN you.retain :
                \/ \E k \in DOMAIN me.retain : you.retain[i] = me.retain[k]
                \/ DownTrue(you.retain[i])
    BY <1>2, <2>2
  <2>7. Kept_n(you) = Kept_n(me) /\ you.got = me.got /\ you.bad = me.bad
    BY <1>2, <2>2 DEF Kept_n, Frames
  <2>8. \A b, a : Numbered(me, b, a) => Numbered(you, b, a)
    BY <2>7 DEF Numbered
  <2> QED
    BY <1>1, <2>4, <2>5, <2>6, <2>7, <2>8
<1> QED
  BY <1>3, <1>4

\* The frame at the head of a mailbox is the next of the numbers.
LEMMA HeadFrame ==
  ASSUME NEW me \in Memory, NEW b \in Seq(Frame), b # <<>>, NEW a \in Nat, Numbered(me, b, a)
  PROVE  /\ Head(b) \in Frame /\ Tail(b) \in Seq(Frame) /\ Head(b) = b[1] /\ 1 \in DOMAIN b
         /\ Head(b).n \in Nat /\ Head(b).n = a - Len(b) + 1
         /\ a - Len(b) \in Nat /\ a - Len(Tail(b)) = Head(b).n
         /\ Len(Tail(b)) <= a /\ \A i \in DOMAIN Tail(b) : Tail(b)[i].n = a - Len(Tail(b)) + i
         /\ \A i \in DOMAIN Tail(b) : i + 1 \in DOMAIN b /\ Tail(b)[i] = b[i + 1]
         /\ me.got \union me.bad \union Kept_n(me) = 1 .. Head(b).n - 1
         /\ 1 .. Head(b).n = (1 .. Head(b).n - 1) \union {Head(b).n}
<1>1. /\ Head(b) = b[1] /\ 1 \in DOMAIN b /\ Len(b) \in Nat /\ Len(b) >= 1 /\ Head(b) \in Frame
      /\ Tail(b) \in Seq(Frame) /\ Len(Tail(b)) = Len(b) - 1 /\ DOMAIN b = 1 .. Len(b)
      /\ DOMAIN Tail(b) = 1 .. Len(b) - 1
      /\ \A i \in 1 .. Len(b) - 1 : Tail(b)[i] = b[i + 1]
  OBVIOUS
<1>2. /\ Len(b) <= a /\ \A i \in DOMAIN b : b[i].n = a - Len(b) + i
      /\ me.got \union me.bad \union Kept_n(me) = 1 .. a - Len(b)
  BY DEF Numbered
<1>3. a - Len(b) \in Nat /\ Head(b).n = a - Len(b) + 1 /\ Head(b).n \in Nat
  BY <1>1, <1>2
<1>4. a - Len(Tail(b)) = Head(b).n /\ Len(Tail(b)) <= a
  BY <1>1, <1>2, <1>3
<1>5. \A i \in DOMAIN Tail(b) : i + 1 \in DOMAIN b /\ Tail(b)[i] = b[i + 1]
  BY <1>1
<1>6. \A i \in DOMAIN Tail(b) : Tail(b)[i].n = a - Len(Tail(b)) + i
  BY <1>1, <1>2, <1>3, <1>4, <1>5
<1>7. 1 .. Head(b).n = (1 .. Head(b).n - 1) \union {Head(b).n} /\ Head(b).n - 1 = a - Len(b)
  BY <1>3
<1> QED
  BY <1>1, <1>2, <1>3, <1>4, <1>5, <1>6, <1>7

\* The frame goes to the program.
LEMMA GotSound ==
  ASSUME NEW me, Sound(me), NEW b \in Seq(Frame), b # <<>>, NEW a \in Nat, Numbered(me, b, a),
         Carried(Head(b))
  PROVE  LET you == Delivered(me, Head(b))
         IN  /\ Sound(you) /\ Waits(you) /\ you.retain = me.retain
             /\ you.got = me.got \union {Head(b).n} /\ you.bad = me.bad /\ Numbered(you, Tail(b), a)
<1> DEFINE m   == Head(b)
           you == Delivered(me, m)
<1>1. me \in Memory /\ KidsAgree(me)
  BY DEF Sound
<1>2. m \in Frame /\ ~IsDown(m) /\ m.n \in Nat /\ m.carry \in Handle \union {None}
      /\ (m.carry = None \/ ~m.carry.own)
  <2>1. m \in Frame
    BY <1>1, HeadFrame
  <2> QED
    BY <2>1, TagsAssumption DEF Frame, IsDown, Carried
<1> HIDE DEF m
<1>3. /\ you \in Memory /\ you.pc = "idle" /\ you.retain = me.retain /\ you.mons = me.mons
      /\ you.nref = me.nref /\ you.seen = me.seen /\ you.off = me.off
      /\ you.got = me.got \union {m.n} /\ you.bad = me.bad /\ you.kids = me.kids
      /\ you.handles = me.handles \union ({m.carry} \ {None})
  BY <1>1, <1>2 DEF Delivered, IsDown, Memory, Adopt
<1> HIDE DEF you
<1>4. KidsAgree(you)
  <2>1. \A to : Owns(me, to) => Owns(you, to)
    BY <1>3 DEF Owns
  <2> QED
    BY <1>1, <1>2, <1>3, <2>1 DEF KidsAgree
<1>5. Sound(you) /\ Waits(you)
  <2>1. Sound(you)
    BY <1>3, <1>4, SameLists
  <2> QED
    BY <1>3, <2>1 DEF Waits
<1>6. Numbered(you, Tail(b), a)
  <2>1. /\ a - Len(Tail(b)) = m.n /\ Len(Tail(b)) <= a
        /\ \A i \in DOMAIN Tail(b) : Tail(b)[i].n = a - Len(Tail(b)) + i
        /\ me.got \union me.bad \union Kept_n(me) = 1 .. m.n - 1
        /\ 1 .. m.n = (1 .. m.n - 1) \union {m.n}
    BY <1>1, HeadFrame DEF m
  <2>2. Kept_n(you) = Kept_n(me)
    BY <1>3 DEF Kept_n, Frames
  <2>3. you.got \union you.bad \union Kept_n(you) = 1 .. a - Len(Tail(b))
    BY <1>3, <2>1, <2>2
  <2>4. m.n \notin Kept_n(me) /\ m.n \notin me.bad
    BY <1>2, <2>1
  <2>5. /\ me.got \intersect Kept_n(me) = {}
        /\ me.bad \intersect (me.got \union Kept_n(me)) = {}
    BY DEF Numbered
  <2>6. /\ you.got \intersect Kept_n(you) = {}
        /\ you.bad \intersect (you.got \union Kept_n(you)) = {}
    BY <1>3, <2>2, <2>4, <2>5
  <2> QED
    BY <2>1, <2>3, <2>6 DEF Numbered
<1> QED
  BY <1>3, <1>5, <1>6 DEF you, m

\* The frame is held.
LEMMA HeldSound ==
  ASSUME NEW me, Sound(me), NEW b \in Seq(Frame), b # <<>>, NEW a \in Nat, Numbered(me, b, a),
         Carried(Head(b))
  PROVE  LET you == Held(me, Head(b))
         IN  /\ Sound(you) /\ Numbered(you, Tail(b), a) /\ you.got = me.got /\ you.bad = me.bad /\ you.tag = me.tag
             /\ \A i \in DOMAIN you.retain :
                  \/ \E k \in DOMAIN me.retain : you.retain[i] = me.retain[k]
                  \/ ~IsDown(you.retain[i])
             /\ \A i \in Frames(me) : i \in Frames(you) /\ you.retain[i] = me.retain[i]
<1> DEFINE m   == Head(b)
           n   == Len(me.retain)
           you == Held(me, m)
<1>1. /\ me \in Memory /\ KidsAgree(me) /\ RefsOnce(me) /\ Ordered(me)
      /\ \A i \in DOMAIN me.retain : Carried(me.retain[i])
  BY DEF Sound
<1>2. m \in Frame /\ m \in Message /\ ~IsDown(m) /\ m.n \in Nat
  <2>1. m \in Frame
    BY <1>1, HeadFrame
  <2> QED
    BY <2>1, TagsAssumption DEF Frame, IsDown, Message
<1>3. /\ a - Len(Tail(b)) = m.n /\ Len(Tail(b)) <= a
      /\ \A i \in DOMAIN Tail(b) : Tail(b)[i].n = a - Len(Tail(b)) + i
      /\ me.got \union me.bad \union Kept_n(me) = 1 .. m.n - 1
      /\ 1 .. m.n = (1 .. m.n - 1) \union {m.n}
  BY <1>1, HeadFrame
<1>4. Carried(m)
  OBVIOUS
<1> HIDE DEF m
<1>5. me.retain \in Seq(Message)
  BY <1>1, Fields
<1>6. /\ Append(me.retain, m) \in Seq(Message) /\ n \in Nat /\ DOMAIN me.retain = 1 .. n
      /\ DOMAIN Append(me.retain, m) = 1 .. n + 1 /\ Append(me.retain, m)[n + 1] = m
      /\ \A i \in 1 .. n : i # n + 1 /\ Append(me.retain, m)[i] = me.retain[i]
  BY <1>2, <1>5
<1>7. /\ you \in Memory /\ you.pc = me.pc /\ you.retain = Append(me.retain, m) /\ you.mons = me.mons
      /\ you.nref = me.nref /\ you.seen = me.seen /\ you.off = me.off /\ you.tag = me.tag
      /\ you.got = me.got /\ you.bad = me.bad /\ you.kids = me.kids /\ you.handles = me.handles /\ you.child = me.child
  BY <1>1, <1>6 DEF Held, Memory, Message
<1> HIDE DEF you
<1>8. KidsAgree(you)
  BY <1>1, <1>7 DEF KidsAgree, Owns
<1>9. RefsOnce(you)
  <2>1. \A ref : Armed(you, ref) = Armed(me, ref) /\ Queued(you, ref) = Queued(me, ref)
    BY <1>2, <1>6, <1>7 DEF Armed, Queued
  <2>2. \A i \in DOMAIN you.retain : IsDown(you.retain[i]) => you.retain[i].ref \in 1 .. you.nref
    BY <1>1, <1>2, <1>6, <1>7 DEF RefsOnce
  <2> QED
    BY <1>1, <1>7, <2>1, <2>2 DEF RefsOnce, Once
<1>10. /\ Frames(you) = Frames(me) \union {n + 1} /\ you.retain[n + 1] = m
       /\ \A i \in Frames(me) : i \in 1 .. n /\ i # n + 1 /\ you.retain[i] = me.retain[i]
  BY <1>2, <1>6, <1>7 DEF Frames
<1>11. Kept_n(you) = Kept_n(me) \union {m.n}
  BY <1>10 DEF Kept_n
<1>12. Ordered(you)
  <2> SUFFICES ASSUME NEW i \in Frames(you), NEW j \in Frames(you), i < j
               PROVE  you.retain[i].n < you.retain[j].n
    BY DEF Ordered
  <2>1. i \in 1 .. n /\ i \in Frames(me)
    BY <1>6, <1>10
  <2>2. CASE j = n + 1
    <3>1. me.retain[i].n \in 1 .. m.n - 1
      BY <1>3, <2>1 DEF Kept_n
    <3> QED
      BY <1>2, <1>10, <2>1, <2>2, <3>1
  <2>3. CASE j # n + 1
    BY <1>1, <1>10, <2>1, <2>3 DEF Ordered
  <2> QED
    BY <2>2, <2>3
<1>13. \A i \in DOMAIN you.retain : Carried(you.retain[i])
  BY <1>1, <1>4, <1>6, <1>7
<1>14. Sound(you)
  BY <1>7, <1>8, <1>9, <1>12, <1>13 DEF Sound
<1>15. Numbered(you, Tail(b), a)
  <2>1. you.got \union you.bad \union Kept_n(you) = 1 .. a - Len(Tail(b))
    BY <1>3, <1>7, <1>11
  <2>2. m.n \notin me.got /\ m.n \notin me.bad
    BY <1>2, <1>3
  <2>3. /\ me.got \intersect Kept_n(me) = {}
        /\ me.bad \intersect (me.got \union Kept_n(me)) = {}
    BY DEF Numbered
  <2>4. /\ you.got \intersect Kept_n(you) = {}
        /\ you.bad \intersect (you.got \union Kept_n(you)) = {}
    BY <1>7, <1>11, <2>2, <2>3
  <2> QED
    BY <1>3, <2>1, <2>4 DEF Numbered
<1>16. \A i \in DOMAIN you.retain :
         \/ \E k \in DOMAIN me.retain : you.retain[i] = me.retain[k]
         \/ ~IsDown(you.retain[i])
  BY <1>2, <1>6, <1>7
<1> QED
  BY <1>7, <1>10, <1>14, <1>15, <1>16 DEF you, m

\* Collecting the deaths that were noticed keeps the invariant.
LEMMA CollectStep ==
  ASSUME IInv, NEW p \in Proc, NEW me, Sound(me), Collect(p, me),
         \A i \in DOMAIN me.retain :
            \/ \E k \in DOMAIN interp[p].retain : me.retain[i] = interp[p].retain[k]
            \/ ~IsDown(me.retain[i]),
         UNCHANGED <<status, parent, group, ready, sends, kills>>,
         box' \in [Proc -> Seq(Frame)], arrived' \in [Proc -> Nat],
         \A q \in Proc \ {p} : box'[q] = box[q] /\ arrived'[q] = arrived[q],
         \A i \in DOMAIN box'[p] : Carried(box'[p][i]),
         ~HungUp(p) => Numbered(me, box'[p], arrived'[p])
  PROVE  IInv'
<1>1. PICK you :
        /\ interp' = [interp EXCEPT ![p] = you] /\ Sound(you) /\ Waits(you)
        /\ \A i \in DOMAIN you.retain :
             \/ \E k \in DOMAIN me.retain : you.retain[i] = me.retain[k]
             \/ DownTrue(you.retain[i])
        /\ \A b, a : Numbered(me, b, a) => Numbered(you, b, a)
  BY CollectSound
<1>2. Reaps
  BY ReapsZombies DEF Collect
<1>3. ~HungUp(p) => Numbered(you, box'[p], arrived'[p])
  BY <1>1
<1>4. \A i \in DOMAIN you.retain :
        \/ \E k \in DOMAIN interp[p].retain : you.retain[i] = interp[p].retain[k]
        \/ ~IsDown(you.retain[i])
        \/ DownTrue(you.retain[i])
  BY <1>1
<1> QED
  BY <1>1, <1>2, <1>3, <1>4, OwnStep

\* The memory a receive starts from.
LEMMA AskedSound ==
  ASSUME IInv, NEW p \in Proc, NEW tag \in Tags \union {"down", None}
  PROVE  LET me == [interp[p] EXCEPT !.tag = tag]
         IN  /\ interp[p].pc # "wait" => Sound(me)
             /\ me.tag = tag /\ me.retain = interp[p].retain /\ me.got = interp[p].got /\ me.bad = interp[p].bad
             /\ ~HungUp(p) => Numbered(me, box[p], arrived[p])
<1> DEFINE old == interp[p]
           me  == [old EXCEPT !.tag = tag]
<1>1. Sound(old) /\ old \in Memory /\ KidsAgree(old)
  BY Parts DEF Sound
<1>2. /\ me \in Memory /\ me.pc = old.pc /\ me.retain = old.retain /\ me.mons = old.mons
      /\ me.nref = old.nref /\ me.seen = old.seen /\ me.off = old.off /\ me.tag = tag
      /\ me.got = old.got /\ me.bad = old.bad /\ me.kids = old.kids /\ me.handles = old.handles /\ me.child = old.child
  <2> HIDE DEF old
  <2> QED
    BY <1>1 DEF Memory
<1> HIDE DEF me
<1>3. KidsAgree(me)
  BY <1>1, <1>2 DEF KidsAgree, Owns
<1>4. Sound(me)
  BY <1>1, <1>2, <1>3, SameLists
<1>5. ~HungUp(p) => Numbered(me, box[p], arrived[p])
  BY <1>2, Parts, SameNumbers
<1> QED
  BY <1>2, <1>4, <1>5 DEF me

\* Receive keeps the invariant.
LEMMA ReceiveStep ==
  ASSUME IInv, NEW p \in Proc, NEW tag \in Tags \union {"down", None}, Receive(p, tag)
  PROVE  IInv'
<1> DEFINE me == [interp[p] EXCEPT !.tag = tag]
<1>1. /\ interp[p].pc = "idle" /\ Collect(p, me)
      /\ UNCHANGED <<status, parent, group, ready, box, arrived, sends, kills>>
  BY DEF Receive
<1>2. /\ Sound(me) /\ me.retain = interp[p].retain
      /\ ~HungUp(p) => Numbered(me, box[p], arrived[p])
  BY <1>1, AskedSound
<1> HIDE DEF me
<1>3. /\ box' \in [Proc -> Seq(Frame)] /\ arrived' \in [Proc -> Nat]
      /\ \A q \in Proc \ {p} : box'[q] = box[q] /\ arrived'[q] = arrived[q]
      /\ \A i \in DOMAIN box'[p] : Carried(box'[p][i])
      /\ ~HungUp(p) => Numbered(me, box'[p], arrived'[p])
      /\ UNCHANGED <<status, parent, group, ready, sends, kills>>
  BY <1>1, <1>2, Parts DEF IInv, TypeOK
<1>4. \A i \in DOMAIN me.retain :
        \/ \E k \in DOMAIN interp[p].retain : me.retain[i] = interp[p].retain[k]
        \/ ~IsDown(me.retain[i])
  BY <1>2
<1> QED
  BY <1>1, <1>2, <1>3, <1>4, CollectStep

\* WakeDown keeps the invariant.
LEMMA WakeDownStep ==
  ASSUME IInv, NEW p \in Proc, WakeDown(p)
  PROVE  IInv'
<1> DEFINE me == interp[p]
<1>1. /\ Collect(p, me)
      /\ UNCHANGED <<status, parent, group, ready, box, arrived, sends, kills>>
  BY DEF WakeDown
<1>2. Sound(me) /\ (~HungUp(p) => Numbered(me, box[p], arrived[p]))
  BY Parts
<1>3. /\ box' \in [Proc -> Seq(Frame)] /\ arrived' \in [Proc -> Nat]
      /\ \A q \in Proc \ {p} : box'[q] = box[q] /\ arrived'[q] = arrived[q]
      /\ \A i \in DOMAIN box'[p] : Carried(box'[p][i])
      /\ ~HungUp(p) => Numbered(me, box'[p], arrived'[p])
      /\ UNCHANGED <<status, parent, group, ready, sends, kills>>
  BY <1>1, <1>2, Parts DEF IInv, TypeOK
<1>4. \A i \in DOMAIN me.retain :
        \/ \E k \in DOMAIN interp[p].retain : me.retain[i] = interp[p].retain[k]
        \/ ~IsDown(me.retain[i])
  OBVIOUS
<1> HIDE DEF me
<1> QED
  BY <1>1, <1>2, <1>3, <1>4, CollectStep

\* TakeFrame keeps the invariant.
LEMMA TakeFrameStep ==
  ASSUME IInv, NEW p \in Proc, TakeFrame(p)
  PROVE  IInv'
<1> DEFINE old == interp[p]
           b   == box[p]
           a   == arrived[p]
           m   == Head(b)
<1>1. /\ stage[p] = "running" /\ b # <<>> /\ box' = [box EXCEPT ![p] = Tail(b)]
      /\ UNCHANGED <<status, parent, group, ready, arrived, sends, kills>>
      /\ \/ interp' = [interp EXCEPT ![p] = Delivered(old, m)] /\ stage' = stage
         \/ Collect(p, Held(old, m))
  BY DEF TakeFrame
<1>2. ~HungUp(p)
  BY <1>1 DEF HungUp
<1>3. /\ Sound(old) /\ old \in Memory /\ b \in Seq(Frame) /\ a \in Nat /\ Numbered(old, b, a)
      /\ \A i \in DOMAIN b : Carried(b[i])
  BY <1>2, Parts DEF Sound
<1>4. /\ Tail(b) \in Seq(Frame) /\ m = b[1] /\ 1 \in DOMAIN b
      /\ \A i \in DOMAIN Tail(b) : i + 1 \in DOMAIN b /\ Tail(b)[i] = b[i + 1]
  BY <1>1, <1>3, HeadFrame
<1>5. Carried(m) /\ \A i \in DOMAIN Tail(b) : Carried(Tail(b)[i])
  BY <1>3, <1>4
<1>6. /\ box \in [Proc -> Seq(Frame)] /\ arrived \in [Proc -> Nat] /\ stage \in [Proc -> Stages]
  BY DEF IInv, TypeOK
<1>7. /\ box' \in [Proc -> Seq(Frame)] /\ arrived' \in [Proc -> Nat]
      /\ box'[p] = Tail(b) /\ arrived'[p] = a
      /\ \A q \in Proc \ {p} : box'[q] = box[q] /\ arrived'[q] = arrived[q]
      /\ UNCHANGED <<status, parent, group, ready, sends, kills>>
  BY <1>1, <1>4, <1>6
<1>8. \A i \in DOMAIN box'[p] : Carried(box'[p][i])
  BY <1>5, <1>7
<1>9. CASE interp' = [interp EXCEPT ![p] = Delivered(old, m)] /\ stage' = stage
  <2> DEFINE me == Delivered(old, m)
  <2>1. Sound(me) /\ Waits(me) /\ me.retain = old.retain /\ Numbered(me, Tail(b), a)
    BY <1>1, <1>3, <1>5, GotSound
  <2> HIDE DEF me
  <2>2. Numbered(me, box'[p], arrived'[p])
    BY <1>7, <2>1
  <2>3. Reaps
    BY <1>6, <1>9 DEF Reaps
  <2>4. \A i \in DOMAIN me.retain :
          \/ \E k \in DOMAIN interp[p].retain : me.retain[i] = interp[p].retain[k]
          \/ ~IsDown(me.retain[i])
          \/ DownTrue(me.retain[i])
    BY <2>1
  <2>5. interp' = [interp EXCEPT ![p] = me]
    BY <1>9 DEF me
  <2> QED
    BY <1>7, <1>8, <2>1, <2>2, <2>3, <2>4, <2>5, OwnStep
<1>10. CASE Collect(p, Held(old, m))
  <2> DEFINE me == Held(old, m)
  <2>1. /\ Sound(me) /\ Numbered(me, Tail(b), a)
        /\ \A i \in DOMAIN me.retain :
             \/ \E k \in DOMAIN old.retain : me.retain[i] = old.retain[k]
             \/ ~IsDown(me.retain[i])
    BY <1>1, <1>3, <1>5, HeldSound
  <2>2. Collect(p, me)
    BY <1>10
  <2> HIDE DEF me
  <2>3. Numbered(me, box'[p], arrived'[p])
    BY <1>7, <2>1
  <2> QED
    BY <1>7, <1>8, <2>1, <2>2, <2>3, CollectStep
<1> QED
  BY <1>1, <1>9, <1>10

\* The frame is gone: the receive that read it raises.
LEMMA BadSound ==
  ASSUME NEW me, Sound(me), NEW b \in Seq(Frame), b # <<>>, NEW a \in Nat, Numbered(me, b, a)
  PROVE  LET you == [me EXCEPT !.pc = "idle", !.tag = None, !.bad = @ \union {Head(b).n}]
         IN  /\ Sound(you) /\ Waits(you) /\ you.retain = me.retain
             /\ Numbered(you, Tail(b), a)
<1> DEFINE m   == Head(b)
           you == [me EXCEPT !.pc = "idle", !.tag = None, !.bad = @ \union {m.n}]
<1>1. me \in Memory /\ KidsAgree(me)
  BY DEF Sound
<1>2. /\ a - Len(Tail(b)) = m.n /\ Len(Tail(b)) <= a /\ m.n \in Nat
      /\ \A i \in DOMAIN Tail(b) : Tail(b)[i].n = a - Len(Tail(b)) + i
      /\ me.got \union me.bad \union Kept_n(me) = 1 .. m.n - 1
      /\ 1 .. m.n = (1 .. m.n - 1) \union {m.n}
  BY <1>1, HeadFrame
<1> HIDE DEF m
<1>3. /\ you \in Memory /\ you.pc = "idle" /\ you.retain = me.retain /\ you.mons = me.mons
      /\ you.nref = me.nref /\ you.seen = me.seen /\ you.off = me.off
      /\ you.got = me.got /\ you.bad = me.bad \union {m.n} /\ you.kids = me.kids
      /\ you.handles = me.handles
  BY <1>1, <1>2 DEF Memory
<1> HIDE DEF you
<1>4. KidsAgree(you)
  BY <1>1, <1>3 DEF KidsAgree, Owns
<1>5. Sound(you) /\ Waits(you)
  <2>1. Sound(you)
    BY <1>3, <1>4, SameLists
  <2> QED
    BY <1>3, <2>1 DEF Waits
<1>6. Numbered(you, Tail(b), a)
  <2>1. Kept_n(you) = Kept_n(me)
    BY <1>3 DEF Kept_n, Frames
  <2>2. you.got \union you.bad \union Kept_n(you) = 1 .. a - Len(Tail(b))
    BY <1>2, <1>3, <2>1
  <2>3. m.n \notin me.got /\ m.n \notin Kept_n(me)
    BY <1>2
  <2>4. /\ me.got \intersect Kept_n(me) = {}
        /\ me.bad \intersect (me.got \union Kept_n(me)) = {}
    BY DEF Numbered
  <2>5. /\ you.got \intersect Kept_n(you) = {}
        /\ you.bad \intersect (you.got \union Kept_n(you)) = {}
    BY <1>3, <2>1, <2>3, <2>4
  <2> QED
    BY <1>2, <2>2, <2>5 DEF Numbered
<1> QED
  BY <1>3, <1>5, <1>6 DEF you, m

\* A receive that raises keeps the invariant, whether it took a frame or not.
LEMMA ReceiveFailsStep ==
  ASSUME IInv, NEW p \in Proc, ReceiveFails(p)
  PROVE  IInv'
<1> DEFINE old == interp[p]
           b   == box[p]
           a   == arrived[p]
<1>1. /\ stage[p] = "running"
      /\ UNCHANGED <<stage, status, parent, group, ready, arrived, sends, kills>>
  BY DEF ReceiveFails
<1>2. ~HungUp(p)
  BY <1>1 DEF HungUp
<1>3. /\ Sound(old) /\ old \in Memory /\ KidsAgree(old)
      /\ b \in Seq(Frame) /\ a \in Nat /\ Numbered(old, b, a)
      /\ \A i \in DOMAIN b : Carried(b[i])
  BY <1>2, Parts DEF Sound
<1>4. /\ box \in [Proc -> Seq(Frame)] /\ arrived \in [Proc -> Nat] /\ stage \in [Proc -> Stages]
  BY DEF IInv, TypeOK
<1>5. CASE interp' = [interp EXCEPT ![p].pc = "idle", ![p].tag = None] /\ UNCHANGED box
  <2> DEFINE me == [old EXCEPT !.pc = "idle", !.tag = None]
  <2>1. interp' = [interp EXCEPT ![p] = me]
    BY <1>5 DEF IInv, TypeOK
  <2>2. me \in Memory
    BY <1>3 DEF Memory
  <2>3. /\ me.pc = "idle" /\ me.retain = interp[p].retain /\ me.mons = interp[p].mons
        /\ me.nref = interp[p].nref /\ me.seen = interp[p].seen /\ me.off = interp[p].off
        /\ me.got = interp[p].got /\ me.bad = interp[p].bad /\ me.kids = interp[p].kids
        /\ me.handles = interp[p].handles
    BY <1>3 DEF Memory
  <2> HIDE DEF me
  <2>4. KidsAgree(me)
    BY <1>3, <2>3 DEF KidsAgree, Owns
  <2> QED
    BY <1>1, <1>5, <2>1, <2>2, <2>3, <2>4, QuietStep
<1>6. CASE /\ b # <<>> /\ box' = [box EXCEPT ![p] = Tail(b)]
           /\ interp' = [interp EXCEPT ![p].pc = "idle", ![p].tag = None,
                                       ![p].bad = old.bad \union {Head(b).n}]
  <2> DEFINE me == [old EXCEPT !.pc = "idle", !.tag = None, !.bad = @ \union {Head(b).n}]
  <2>1. Sound(me) /\ Waits(me) /\ me.retain = old.retain /\ Numbered(me, Tail(b), a)
    BY <1>3, <1>6, BadSound
  <2>2. interp' = [interp EXCEPT ![p] = me]
    BY <1>6 DEF IInv, TypeOK
  <2> HIDE DEF me
  <2>3. /\ Tail(b) \in Seq(Frame)
        /\ \A i \in DOMAIN Tail(b) : i + 1 \in DOMAIN b /\ Tail(b)[i] = b[i + 1]
    BY <1>3, <1>6, HeadFrame
  <2>4. /\ box' \in [Proc -> Seq(Frame)] /\ arrived' \in [Proc -> Nat]
        /\ box'[p] = Tail(b) /\ arrived'[p] = a
        /\ \A q \in Proc \ {p} : box'[q] = box[q] /\ arrived'[q] = arrived[q]
        /\ UNCHANGED <<status, parent, group, ready, sends, kills>>
    BY <1>1, <1>4, <1>6, <2>3
  <2>5. \A i \in DOMAIN box'[p] : Carried(box'[p][i])
    BY <1>3, <2>3, <2>4
  <2>6. Numbered(me, box'[p], arrived'[p])
    BY <2>1, <2>4
  <2>7. Reaps
    BY <1>1, <1>4 DEF Reaps
  <2>8. \A i \in DOMAIN me.retain :
          \/ \E k \in DOMAIN interp[p].retain : me.retain[i] = interp[p].retain[k]
          \/ ~IsDown(me.retain[i])
          \/ DownTrue(me.retain[i])
    BY <2>1
  <2> QED
    BY <2>1, <2>2, <2>4, <2>5, <2>6, <2>7, <2>8, OwnStep
<1> QED
  BY <1>5, <1>6 DEF ReceiveFails

---------------------------------------------------------------------------
(* The theorems.                                                           *)

\* The invariant holds of every behaviour of the actors.
LEMMA Invariance == Spec => []IInv
<1>1. Init => IInv
  <2> SUFFICES ASSUME Init PROVE IInv
    OBVIOUS
  <2>1. \A p \in Proc : interp[p] = Fresh /\ box[p] = <<>> /\ arrived[p] = 0 /\ ~HungUp(p)
    BY DEF Init, HungUp
  <2>2. Fresh \in Memory /\ Fresh.retain = <<>>
    BY FreshSound DEF Sound, Fresh
  <2>3. DOMAIN Fresh.retain = {}
    BY <2>2
  <2>4. TypeOK
    <3>1. interp \in [Proc -> Memory]
      BY <2>2 DEF Init
    <3>2. <<>> \in Seq(Frame)
      OBVIOUS
    <3>3. box \in [Proc -> Seq(Frame)]
      BY <3>2 DEF Init
    <3>4. /\ stage \in [Proc -> Stages] /\ status \in [Proc -> Reasons \union {"none"}]
          /\ parent \in [Proc -> Proc \union {None}] /\ group \in [Proc -> Proc \union {None}]
          /\ ready \in [Proc -> BOOLEAN] /\ arrived \in [Proc -> Nat]
      BY RootAssumption DEF Init, Stages
    <3>5. sends \in 0 .. MaxSends /\ kills \in 0 .. MaxKills
      BY BoundsAssumption DEF Init
    <3> QED
      BY <3>1, <3>3, <3>4, <3>5 DEF TypeOK
  <2> QED
    BY <2>1, <2>3, <2>4, FreshSound DEF IInv
<1>2. IInv /\ [Next]_vars => IInv'
  <2> SUFFICES ASSUME IInv, [Next]_vars PROVE IInv'
    OBVIOUS
  <2>1. CASE UNCHANGED vars
    <3>1. /\ stage' = stage /\ status' = status /\ parent' = parent /\ group' = group
          /\ ready' = ready /\ box' = box /\ arrived' = arrived /\ interp' = interp
          /\ sends' = sends /\ kills' = kills
      BY <2>1 DEF vars
    <3>2. Kernel' /\ interp' = [q \in Proc |-> interp'[q]]
      BY <3>1, KernelNow DEF Kernel
    <3>3. \A q \in Proc : MemoryKept(q) /\ (HungUp(q)' <=> HungUp(q))
      BY <3>1 DEF MemoryKept, HungUp
    <3>4. Settles /\ \A q \in Proc : HungUp(q)' => status'[q] \in Reasons
      BY <3>1, <3>3, Parts DEF Settles
    <3>5. \A q \in Proc : ~HungUp(q)' => Numbered(interp'[q], box'[q], arrived'[q])
      BY <3>1, <3>3, Parts
    <3>6. \A q \in Proc : box'[q] = box[q] \/ \A i \in DOMAIN box'[q] : Carried(box'[q][i])
      BY <3>1
    <3> QED
      BY <3>2, <3>3, <3>4, <3>5, <3>6, Steady
  <2>2. CASE Next
    <3>1. PICK p \in Proc : Program(p) \/ Progress(p) \/ Timeout(p) \/ ReceiveFails(p) \/ BootFailed(p) \/ Kill(p)
      BY <2>2 DEF Next
    <3>2. CASE Program(p)
      BY <3>2, SpawnStep, SendStep, MonitorStep, DemonitorStep, ReceiveStep, FinishStep DEF Program
    <3>3. CASE Progress(p)
      BY <3>3, BootStep, SpawnReturnsStep, TakeFrameStep, WakeDownStep, CleanupStep, ZombieStep,
         ParentDiedStep DEF Progress
    <3> QED
      BY <3>1, <3>2, <3>3, TimeoutStep, ReceiveFailsStep, BootFailedStep, KillStep
  <2> QED
    BY <2>1, <2>2
<1> QED
  BY <1>1, <1>2, PTL DEF Spec

\* Every variable of the actors keeps its type: the whole of interp, the
\* mailboxes and the retain queues, whatever the processes do.
THEOREM TypeCorrect == Spec => []TypeOK
<1>1. IInv => TypeOK
  BY DEF IInv
<1> QED
  BY <1>1, Invariance, PTL

\* No frame is lost in silence and none is delivered twice by
\* actor_receive_impl, however the four forms of receive, the receives that
\* raise, deaths and retained mismatches interleave.
THEOREM FramesExactlyOnce == Spec => []ExactlyOnce
<1>1. IInv => ExactlyOnce
  <2> SUFFICES ASSUME IInv, NEW p \in Proc, stage[p] = "running"
               PROVE  /\ interp[p].got \union interp[p].bad \union Retained(p) \union Boxed(p)
                            = 1 .. arrived[p]
                      /\ interp[p].got \intersect interp[p].bad = {}
                      /\ (interp[p].got \union interp[p].bad) \intersect Retained(p) = {}
                      /\ (interp[p].got \union interp[p].bad \union Retained(p)) \intersect Boxed(p) = {}
                      /\ \A i, j \in DOMAIN box[p] : box[p][i].n = box[p][j].n => i = j
                      /\ \A i, j \in DOMAIN interp[p].retain :
                            interp[p].retain[i].tag # "down" /\ interp[p].retain[j].tag # "down"
                              /\ interp[p].retain[i].n = interp[p].retain[j].n => i = j
    BY DEF ExactlyOnce
  <2> DEFINE me == interp[p]
             b  == box[p]
             a  == arrived[p]
  <2>1. /\ Sound(me) /\ me \in Memory /\ me.retain \in Seq(Message)
        /\ b \in Seq(Frame) /\ a \in Nat /\ Numbered(me, b, a)
    BY Parts DEF HungUp
  <2>2. Ordered(me)
    BY <2>1 DEF Sound
  <2> HIDE DEF me, b, a
  <2>3. Retained(p) = Kept_n(me)
    BY <2>1 DEF Retained, Kept_n, Frames, IsDown, ToSet, me
  <2>4. /\ Len(b) <= a /\ Len(b) \in Nat /\ DOMAIN b = 1 .. Len(b)
        /\ \A i \in 1 .. Len(b) : b[i].n = a - Len(b) + i
        /\ me.got \union me.bad \union Kept_n(me) = 1 .. a - Len(b)
        /\ me.got \intersect Kept_n(me) = {}
        /\ me.bad \intersect (me.got \union Kept_n(me)) = {}
    BY <2>1 DEF Numbered
  <2>5. Boxed(p) = {b[i].n : i \in 1 .. Len(b)}
    BY <2>1, <2>4 DEF Boxed, ToSet, b
  <2>6. Boxed(p) = a - Len(b) + 1 .. a
    <3>1. \A x \in Boxed(p) : x \in a - Len(b) + 1 .. a
      BY <2>1, <2>4, <2>5
    <3>2. ASSUME NEW x \in a - Len(b) + 1 .. a PROVE x \in Boxed(p)
      <4>1. x - (a - Len(b)) \in 1 .. Len(b) /\ a - Len(b) + (x - (a - Len(b))) = x
        BY <2>1, <2>4, <3>2
      <4> QED
        BY <2>4, <2>5, <4>1
    <3> QED
      BY <3>1, <3>2
  <2>7. me.got \union me.bad \union Retained(p) \union Boxed(p) = 1 .. a
    <3>1. (1 .. a - Len(b)) \union (a - Len(b) + 1 .. a) = 1 .. a
      BY <2>1, <2>4
    <3> QED
      BY <2>3, <2>4, <2>6, <3>1
  <2>8. (me.got \union me.bad \union Retained(p)) \intersect Boxed(p) = {}
    <3>1. (1 .. a - Len(b)) \intersect (a - Len(b) + 1 .. a) = {}
      BY <2>1, <2>4
    <3> QED
      BY <2>3, <2>4, <2>6, <3>1
  <2>9. \A i, j \in DOMAIN b : b[i].n = b[j].n => i = j
    BY <2>1, <2>4
  <2>10. ASSUME NEW i \in Frames(me), NEW j \in Frames(me), me.retain[i].n = me.retain[j].n
         PROVE  i = j
    <3>1. i \in Nat /\ j \in Nat /\ me.retain[i] \in Message /\ me.retain[j] \in Message
      BY <2>1, <2>10 DEF Frames
    <3>2. me.retain[i].n \in Nat /\ me.retain[j].n \in Nat
      BY <2>10, <3>1, MessageKinds DEF Frames, Frame
    <3>3. ~ (i < j) /\ ~ (j < i)
      BY <2>2, <2>10, <3>2 DEF Ordered
    <3> QED
      BY <3>1, <3>3
  <2>11. \A i, j \in DOMAIN me.retain :
           me.retain[i].tag # "down" /\ me.retain[j].tag # "down"
             /\ me.retain[i].n = me.retain[j].n => i = j
    BY <2>10 DEF Frames, IsDown
  <2>12. me.got \intersect me.bad = {} /\ (me.got \union me.bad) \intersect Retained(p) = {}
    BY <2>3, <2>4
  <2> QED
    BY <2>7, <2>8, <2>9, <2>11, <2>12 DEF me, b, a
<1> QED
  BY <1>1, Invariance, PTL

\* A monitor is told of one death once: its reference is armed, queued, seen
\* or cancelled, and never two of these.
THEOREM ToldOnce == Spec => []OneDown
<1>1. IInv => OneDown
  <2> SUFFICES ASSUME IInv, NEW p \in Proc, stage[p] = "running", NEW ref \in 1 .. interp[p].nref
               PROVE  Once(interp[p], ref)
    BY DEF OneDown, Once, Armed, Queued, IsDown
  <2>1. RefsOnce(interp[p])
    BY Parts DEF Sound
  <2> QED
    BY <2>1 DEF RefsOnce
<1> QED
  BY <1>1, Invariance, PTL

\* A down message that is queued is about a death that happened, and its
\* reason is the wait status exactly where the handle is the spawner's own.
THEOREM ReasonsTrue == Spec => []ReasonTrue
<1>1. IInv => ReasonTrue
  <2> SUFFICES ASSUME IInv, NEW p \in Proc, NEW m \in ToSet(interp[p].retain), m.tag = "down"
               PROVE  /\ HungUp(m.to)
                      /\ m.reason = status[m.to] <=> m.own
                      /\ ~m.own => m.reason \in {"down", "noproc"}
    BY DEF ReasonTrue
  <2>1. DownTrue(m)
    <3>1. interp[p].retain \in Seq(Message)
      BY Parts
    <3>2. PICK i \in DOMAIN interp[p].retain : m = interp[p].retain[i]
      BY <3>1 DEF ToSet
    <3> QED
      BY <3>2, Parts
  <2> QED
    BY <2>1 DEF DownTrue, IsDown
<1> QED
  BY <1>1, Invariance, PTL

\* The numbers of the frames a receive may still return: those in the mailbox
\* are above all that left it.
LEMMA BoxAbove ==
  ASSUME NEW me, NEW b \in Seq(Frame), NEW a \in Nat, Numbered(me, b, a), NEW n \in me.got,
         NEW k \in ToSet(b)
  PROVE  n <= k.n
<1>1. n \in 1 .. a - Len(b) /\ Len(b) \in Nat
  BY DEF Numbered
<1>2. PICK i \in DOMAIN b : k = b[i]
  BY DEF ToSet
<1>3. k.n = a - Len(b) + i /\ i \in 1 .. Len(b)
  BY <1>2 DEF Numbered
<1> QED
  BY <1>1, <1>3

\* A frame that Collect returns is the oldest that the receive may return.
LEMMA CollectOldest ==
  ASSUME IInv, NEW p \in Proc, NEW me, Sound(me), Collect(p, me),
         NEW b \in Seq(Frame), NEW a \in Nat, Numbered(me, b, a),
         NEW n \in interp'[p].got \ me.got
  PROVE  /\ \A k \in Frames(me) : Matches(me.retain[k], me.tag) => n <= me.retain[k].n
         /\ \A k \in ToSet(b) : n <= k.n
         /\ n <= a - Len(b)
<1>1. PICK you :
        /\ interp' = [interp EXCEPT ![p] = you]
        /\ \A x, y : Numbered(me, x, y) => Numbered(you, x, y)
        /\ \A x \in you.got \ me.got : \A k \in Frames(me) :
             Matches(me.retain[k], me.tag) => x <= me.retain[k].n
  BY CollectSound
<1>2. interp'[p] = you
  BY <1>1 DEF IInv, TypeOK
<1>3. Numbered(you, b, a)
  BY <1>1
<1>4. n \in 1 .. a - Len(b)
  BY <1>2, <1>3 DEF Numbered
<1>5. Len(b) \in Nat
  OBVIOUS
<1> QED
  BY <1>1, <1>2, <1>3, <1>4, <1>5, BoxAbove

\* Only its own receive adds to what a waiting process has received.
LEMMA WhoTakes ==
  ASSUME IInv, Next, NEW p \in Proc, interp[p].pc = "wait"
  PROVE  TakeFrame(p) \/ WakeDown(p) \/ interp'[p].got \subseteq interp[p].got
<1>1. interp \in [Proc -> Memory]
  BY DEF IInv, TypeOK
<1>2. PICK q \in Proc : Program(q) \/ Progress(q) \/ Timeout(q) \/ ReceiveFails(q) \/ BootFailed(q) \/ Kill(q)
  BY DEF Next
<1>3. Fresh.got = {} /\ interp[p] \in Memory
  BY <1>1 DEF Fresh
<1>4. ASSUME NEW S, interp' = Forgotten(S, interp)
      PROVE  interp'[p].got \subseteq interp[p].got
  BY <1>3, <1>4 DEF Forgotten
<1>5. CASE Program(q)
  <2>1. ASSUME NEW c \in Proc, NEW given, Spawn(q, c, given)
        PROVE  interp'[p].got \subseteq interp[p].got
    <3>1. q # p /\ q # c
      BY <2>1 DEF Spawn
    <3>2. CASE c = p
      <4>1. interp'[p] = [interp[p] EXCEPT !.handles = {[to |-> h.to, own |-> FALSE] : h \in given}]
        BY <1>1, <2>1, <3>1, <3>2 DEF Spawn
      <4> QED
        BY <1>3, <4>1 DEF Memory
    <3>3. CASE c # p
      <4>1. interp'[p] = interp[p]
        BY <1>1, <2>1, <3>1, <3>3 DEF Spawn
      <4> QED
        BY <4>1
    <3> QED
      BY <3>2, <3>3
  <2>2. ASSUME NEW h, NEW tag, NEW carry, Send(q, h, tag, carry)
        PROVE  interp'[p].got \subseteq interp[p].got
    BY <2>2 DEF Send
  <2>3. ASSUME NEW h, MonitorCall(q, h)
        PROVE  interp'[p].got \subseteq interp[p].got
    <3>1. q # p
      BY <2>3 DEF MonitorCall
    <3> QED
      BY <1>1, <2>3, <3>1 DEF MonitorCall
  <2>4. ASSUME NEW ref, Demonitor(q, ref)
        PROVE  interp'[p].got \subseteq interp[p].got
    <3>1. q # p
      BY <2>4 DEF Demonitor
    <3> QED
      BY <1>1, <2>4, <3>1 DEF Demonitor
  <2>5. ASSUME NEW tag, Receive(q, tag)
        PROVE  interp'[p].got \subseteq interp[p].got
    <3>1. q # p
      BY <2>5 DEF Receive
    <3> QED
      BY <1>1, <2>5, <3>1 DEF Receive, Collect
  <2>6. ASSUME NEW how, Finish(q, how)
        PROVE  interp'[p].got \subseteq interp[p].got
    <3>1. q # p
      BY <2>6 DEF Finish
    <3>2. PICK S : interp' = [Forgotten(S, interp) EXCEPT ![q].pc = "cleanup", ![q].exit = how]
      BY <2>6 DEF Finish
    <3> QED
      BY <1>3, <3>1, <3>2 DEF Forgotten
  <2> QED
    BY <1>5, <2>1, <2>2, <2>3, <2>4, <2>5, <2>6 DEF Program
<1>6. CASE Progress(q)
  <2>1. CASE Boot(q) \/ Zombie(q)
    BY <2>1 DEF Boot, Zombie
  <2>2. CASE SpawnReturns(q)
    <3>1. q # p
      BY <2>2 DEF SpawnReturns
    <3> QED
      BY <1>1, <2>2, <3>1 DEF SpawnReturns
  <2>3. CASE q # p /\ TakeFrame(q)
    BY <1>1, <2>3 DEF TakeFrame, Collect
  <2>4. CASE q # p /\ WakeDown(q)
    BY <1>1, <2>4 DEF WakeDown, Collect
  <2>5. CASE CleanupDone(q) \/ ParentDied(q)
    BY <1>4, <2>5 DEF CleanupDone, ParentDied
  <2> QED
    BY <1>6, <2>1, <2>2, <2>3, <2>4, <2>5 DEF Progress
<1>7. CASE Timeout(q)
  <2>1. CASE q = p
    <3>1. interp'[p] = [interp[p] EXCEPT !.pc = "idle", !.tag = None]
      BY <1>1, <1>7, <2>1 DEF Timeout
    <3> QED
      BY <1>3, <3>1 DEF Memory
  <2>2. CASE q # p
    BY <1>1, <1>7, <2>2 DEF Timeout
  <2> QED
    BY <2>1, <2>2
<1>8. CASE BootFailed(q) \/ Kill(q)
  BY <1>4, <1>8 DEF BootFailed, Kill
<1>9. CASE ReceiveFails(q)
  <2>1. CASE q = p
    <3>1. \/ interp'[p] = [interp[p] EXCEPT !.pc = "idle", !.tag = None]
          \/ interp'[p] = [interp[p] EXCEPT !.pc = "idle", !.tag = None,
                                             !.bad = @ \union {Head(box[p]).n}]
      BY <1>1, <1>9, <2>1 DEF ReceiveFails
    <3> QED
      BY <1>3, <3>1 DEF Memory
  <2>2. CASE q # p
    BY <1>1, <1>9, <2>2 DEF ReceiveFails
  <2> QED
    BY <2>1, <2>2
<1> QED
  BY <1>2, <1>5, <1>6, <1>7, <1>8, <1>9

\* What a receive that waited returns is the oldest it may return.
LEMMA WaitOldest ==
  ASSUME IInv, Next, NEW p \in Proc, interp[p].pc = "wait",
         NEW n \in interp'[p].got \ interp[p].got,
         NEW k \in ToSet(interp[p].retain) \union ToSet(box[p]),
         k.tag # "down", Matches(k, interp[p].tag)
  PROVE  n <= k.n
<1> DEFINE old == interp[p]
           b   == box[p]
           a   == arrived[p]
<1>1. TakeFrame(p) \/ WakeDown(p)
  BY WhoTakes
<1>2. stage[p] = "running"
  BY <1>1 DEF TakeFrame, WakeDown
<1>3. /\ Sound(old) /\ Waits(old) /\ old \in Memory /\ b \in Seq(Frame) /\ a \in Nat
      /\ old.retain \in Seq(Message) /\ Numbered(old, b, a)
      /\ \A i \in DOMAIN b : Carried(b[i])
  BY <1>2, Parts DEF HungUp
<1>4. k \notin ToSet(old.retain)
  <2>1. k \in ToSet(old.retain) => \E i \in DOMAIN old.retain : k = old.retain[i]
    BY <1>3 DEF ToSet
  <2> QED
    BY <1>3, <2>1 DEF Waits
<1>5. k \in ToSet(b)
  BY <1>4
<1>6. CASE WakeDown(p)
  BY <1>5, <1>6 DEF WakeDown, ToSet
<1>7. CASE TakeFrame(p)
  <2> DEFINE m == Head(b)
  <2>1. b # <<>>
    BY <1>7 DEF TakeFrame
  <2>2. /\ m.n = a - Len(b) + 1 /\ m.n \in Nat /\ a - Len(b) \in Nat /\ m = b[1] /\ 1 \in DOMAIN b
        /\ Tail(b) \in Seq(Frame) /\ a - Len(Tail(b)) = m.n
    BY <1>3, <2>1, HeadFrame
  <2>3. m.n <= k.n /\ k.n \in Nat
    <3>1. PICK i \in DOMAIN b : k = b[i]
      BY <1>5 DEF ToSet
    <3>2. k.n = a - Len(b) + i /\ i \in 1 .. Len(b) /\ Len(b) \in Nat
      BY <1>3, <3>1 DEF Numbered
    <3> QED
      BY <2>2, <3>2
  <2>4. Carried(m)
    BY <1>3, <2>2
  <2>5. CASE interp' = [interp EXCEPT ![p] = Delivered(old, m)]
    <3>1. interp'[p] = Delivered(old, m)
      BY <2>5 DEF IInv, TypeOK
    <3>2. interp'[p].got = old.got \union {m.n}
      BY <1>3, <2>1, <2>4, <3>1, GotSound
    <3> QED
      BY <2>3, <3>2
  <2>6. CASE Collect(p, Held(old, m))
    <3> DEFINE me == Held(old, m)
    <3>1. Sound(me) /\ Numbered(me, Tail(b), a) /\ me.got = old.got /\ me.bad = old.bad
      BY <1>3, <2>1, <2>4, HeldSound
    <3>2. Collect(p, me)
      BY <2>6
    <3> HIDE DEF me
    <3>3. n \in interp'[p].got \ me.got
      BY <3>1
    <3>4. n <= m.n /\ n \in Nat
      <4>1. n <= a - Len(Tail(b))
        BY <1>3, <2>2, <3>1, <3>2, <3>3, CollectOldest
      <4>2. interp'[p] \in Memory
        <5>1. IInv'
          BY <1>7, TakeFrameStep
        <5> QED
          BY <5>1 DEF IInv, TypeOK
      <4> QED
        BY <2>2, <4>1, <4>2, Fields
    <3> QED
      BY <2>2, <2>3, <3>4
  <2> QED
    BY <1>7, <2>5, <2>6 DEF TakeFrame
<1> QED
  BY <1>1, <1>6, <1>7

\* What a receive returns at once is the oldest it may return.
LEMMA AskOldest ==
  ASSUME IInv, NEW p \in Proc, NEW tag \in Tags \union {None}, Receive(p, tag),
         NEW n \in interp'[p].got \ interp[p].got,
         NEW k \in ToSet(interp[p].retain) \union ToSet(box[p]),
         k.tag # "down", Matches(k, tag)
  PROVE  n <= k.n
<1> DEFINE me == [interp[p] EXCEPT !.tag = tag]
<1>1. stage[p] = "running" /\ interp[p].pc = "idle" /\ Collect(p, me)
  BY DEF Receive
<1>2. /\ Sound(me) /\ me.retain = interp[p].retain /\ me.got = interp[p].got /\ me.bad = interp[p].bad /\ me.tag = tag
      /\ Numbered(me, box[p], arrived[p])
  BY <1>1, AskedSound DEF HungUp
<1>3. box[p] \in Seq(Frame) /\ arrived[p] \in Nat /\ interp[p].retain \in Seq(Message)
  BY Parts
<1> HIDE DEF me
<1>4. /\ \A j \in Frames(me) : Matches(me.retain[j], me.tag) => n <= me.retain[j].n
      /\ \A j \in ToSet(box[p]) : n <= j.n
  BY <1>1, <1>2, <1>3, CollectOldest
<1>5. CASE k \in ToSet(box[p])
  BY <1>4, <1>5
<1>6. CASE k \in ToSet(interp[p].retain)
  <2>1. PICK i \in DOMAIN interp[p].retain : k = interp[p].retain[i]
    BY <1>3, <1>6 DEF ToSet
  <2>2. i \in Frames(me)
    BY <1>2, <2>1 DEF Frames, IsDown
  <2> QED
    BY <1>2, <1>4, <2>1, <2>2
<1> QED
  BY <1>5, <1>6

\* receive returns the frame that arrived first among those it may return,
\* over the retain queue and the socket together.
THEOREM OldestIsFirst == Spec => OldestFirst
<1> DEFINE A == \A p \in Proc : \A n \in interp'[p].got \ interp[p].got : \A tag \in Tags \union {None} :
                  \/ interp[p].pc = "wait" /\ interp[p].tag = tag
                  \/ interp[p].pc = "idle" /\ Receive(p, tag)
                  => \A k \in {m \in ToSet(interp[p].retain) \union ToSet(box[p]) :
                                   m.tag # "down" /\ Matches(m, tag)} : n <= k.n
<1>1. IInv /\ [Next]_vars => [A]_vars
  <2> SUFFICES ASSUME IInv, Next PROVE A
    OBVIOUS
  <2> SUFFICES ASSUME NEW p \in Proc, NEW n \in interp'[p].got \ interp[p].got,
                      NEW tag \in Tags \union {None},
                      \/ interp[p].pc = "wait" /\ interp[p].tag = tag
                      \/ interp[p].pc = "idle" /\ Receive(p, tag),
                      NEW k \in ToSet(interp[p].retain) \union ToSet(box[p]),
                      k.tag # "down", Matches(k, tag)
               PROVE  n <= k.n
    OBVIOUS
  <2> QED
    BY WaitOldest, AskOldest
<1>2. Spec => [][A]_vars
  BY <1>1, Invariance, PTL DEF Spec
<1> QED
  BY <1>2 DEF OldestFirst
=============================================================================
