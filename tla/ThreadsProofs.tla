---------------------------- MODULE ThreadsProofs ----------------------------
(***************************************************************************)
(* Theorems about the threads of a device, for any number of connections   *)
(* and whatever the callbacks may call.                                    *)
(***************************************************************************)
EXTENDS ThreadsInvariant, TLAPS

-----------------------------------------------------------------------------
(* Stacks: the innermost frame goes, is replaced, or calls another. *)

Popped(s, r) == Len(r) = Len(s) - 1 /\ \A i \in 1..Len(r) : r[i] = s[i + 1]

Swapped(s, r, f) == Len(r) = Len(s) /\ r[1] = f /\ \A i \in 2..Len(s) : r[i] = s[i]

Pushed(s, r, f, g) ==
    /\ Len(r) = Len(s) + 1
    /\ r[1] = f /\ r[2] = g
    /\ \A i \in 3..Len(r) : r[i] = s[i - 1]

(* Lemma: what is left when the innermost frame returns.                     *)
LEMMA PoppedIs ==
    ASSUME NEW S, NEW s \in Seq(S), s # <<>>
    PROVE  <<>> \o Tail(s) \in Seq(S) /\ Popped(s, <<>> \o Tail(s))
<1>1. PICK r : r = Tail(s)
  OBVIOUS
<1>2. r \in Seq(S) /\ Len(r) = Len(s) - 1 /\ \A i \in 1..Len(r) : r[i] = s[i + 1]
  BY <1>1
<1>3. <<>> \o r = r
  BY <1>2
<1> QED
  BY <1>1, <1>2, <1>3 DEF Popped

LEMMA SwappedIs ==
    ASSUME NEW S, NEW s \in Seq(S), s # <<>>, NEW f \in S
    PROVE  <<f>> \o Tail(s) \in Seq(S) /\ Swapped(s, <<f>> \o Tail(s), f)
<1>1. PICK r : r = Tail(s)
  OBVIOUS
<1>2. r \in Seq(S) /\ Len(r) = Len(s) - 1 /\ \A i \in 1..Len(r) : r[i] = s[i + 1]
  BY <1>1
<1>3. PICK q : q = <<f>> \o r
  OBVIOUS
<1>4. q \in Seq(S) /\ Len(q) = Len(r) + 1 /\ q[1] = f
      /\ \A i \in 2..Len(q) : q[i] = r[i - 1]
  BY <1>2, <1>3
<1> QED
  BY <1>1, <1>2, <1>3, <1>4 DEF Swapped

LEMMA PushedIs ==
    ASSUME NEW S, NEW s \in Seq(S), s # <<>>, NEW f \in S, NEW g \in S
    PROVE  <<f, g>> \o Tail(s) \in Seq(S) /\ Pushed(s, <<f, g>> \o Tail(s), f, g)
<1>1. PICK r : r = Tail(s)
  OBVIOUS
<1>2. r \in Seq(S) /\ Len(r) = Len(s) - 1 /\ \A i \in 1..Len(r) : r[i] = s[i + 1]
  BY <1>1
<1>3. PICK q : q = <<f, g>> \o r
  OBVIOUS
<1>4. q \in Seq(S) /\ Len(q) = Len(r) + 2 /\ q[1] = f /\ q[2] = g
      /\ \A i \in 3..Len(q) : q[i] = r[i - 2]
  BY <1>2, <1>3
<1> QED
  BY <1>1, <1>2, <1>3, <1>4 DEF Pushed

-----------------------------------------------------------------------------
(* Good stacks stay good. *)

LEMMA PoppedGood ==
    ASSUME NEW t, NEW s \in Seq(Frame), NEW r \in Seq(Frame), s # <<>>,
           GoodStack(t, s), Popped(s, r)
    PROVE  GoodStack(t, r)
<1>1. \A i \in 1..Len(r) : FrameInv(r[i])
  BY DEF GoodStack, Popped
<1>2. \A i \in 1..(Len(r) - 1) : StandsOn(r[i], r[i + 1])
  BY DEF GoodStack, Popped
<1>3. r # <<>> => Bottom(t, r[Len(r)])
  BY DEF GoodStack, Popped
<1> QED
  BY <1>1, <1>2, <1>3 DEF GoodStack

LEMMA SwappedGood ==
    ASSUME NEW t, NEW s \in Seq(Frame), NEW r \in Seq(Frame), s # <<>>, NEW f,
           GoodStack(t, s), Swapped(s, r, f), FrameInv(f),
           Len(s) > 1 => StandsOn(f, s[2]), Len(s) = 1 => Bottom(t, f)
    PROVE  GoodStack(t, r)
<1>1. \A i \in 1..Len(r) : FrameInv(r[i])
  BY DEF GoodStack, Swapped
<1>2. \A i \in 1..(Len(r) - 1) : StandsOn(r[i], r[i + 1])
  BY DEF GoodStack, Swapped
<1>3. r # <<>> => Bottom(t, r[Len(r)])
  BY DEF GoodStack, Swapped
<1> QED
  BY <1>1, <1>2, <1>3 DEF GoodStack

LEMMA PushedGood ==
    ASSUME NEW t, NEW s \in Seq(Frame), NEW r \in Seq(Frame), s # <<>>, NEW f, NEW g,
           GoodStack(t, s), Pushed(s, r, f, g), FrameInv(f), FrameInv(g), StandsOn(f, g),
           Len(s) > 1 => StandsOn(g, s[2]), Len(s) = 1 => Bottom(t, g)
    PROVE  GoodStack(t, r)
<1>1. \A i \in 1..Len(r) : FrameInv(r[i])
  BY DEF GoodStack, Pushed
<1>2. \A i \in 1..(Len(r) - 1) : StandsOn(r[i], r[i + 1])
  <2> SUFFICES ASSUME NEW i \in 1..(Len(r) - 1) PROVE StandsOn(r[i], r[i + 1])
    OBVIOUS
  <2>1. CASE i = 1
    BY <2>1 DEF Pushed
  <2>2. CASE i = 2
    BY <2>2 DEF Pushed
  <2>3. CASE i > 2
    <3>1. r[i] = s[i - 1] /\ r[i + 1] = s[i] /\ i - 1 \in 1..(Len(s) - 1)
      BY <2>3 DEF Pushed
    <3>2. StandsOn(s[i - 1], s[(i - 1) + 1])
      BY <3>1 DEF GoodStack
    <3> QED
      BY <3>1, <3>2
  <2> QED
    BY <2>1, <2>2, <2>3
<1>3. r # <<>> => Bottom(t, r[Len(r)])
  <2>1. CASE Len(s) = 1
    BY <2>1 DEF Pushed
  <2>2. CASE Len(s) > 1
    <3>1. Len(s) \in Nat
      OBVIOUS
    <3>2. r[Len(s) + 1] = s[(Len(s) + 1) - 1] /\ Len(r) = Len(s) + 1
      BY <2>2, <3>1 DEF Pushed
    <3>3. r[Len(r)] = s[Len(s)]
      BY <3>1, <3>2
    <3> QED
      BY <3>3 DEF GoodStack
  <2>3. PICK n \in Nat : n = Len(s) /\ n >= 1
    OBVIOUS
  <2>4. n = 1 \/ n > 1
    BY <2>3
  <2> QED
    BY <2>1, <2>2, <2>3, <2>4
<1> QED
  BY <1>1, <1>2, <1>3 DEF GoodStack

-----------------------------------------------------------------------------
(* Steps of one thread *)

Changed(t) ==
    /\ stack' \in [Thread -> Seq(Frame)]
    /\ \A u \in Thread : u # t => stack'[u] = stack[u]

Returns(t)     == ~Idle(t) /\ Changed(t) /\ Popped(stack[t], stack'[t])
Becomes(t, f)  == ~Idle(t) /\ Changed(t) /\ Swapped(stack[t], stack'[t], f)
Calls(t, f, g) == ~Idle(t) /\ Changed(t) /\ Pushed(stack[t], stack'[t], f, g)
Begins(t, f)   == Idle(t) /\ Changed(t) /\ stack'[t] = <<f>>

Stacks == stack \in [Thread -> Seq(Frame)]

LEMMA ContinueDoes ==
    ASSUME Stacks, NEW t \in Thread, ~Idle(t)
    PROVE  /\ Return(t) => Returns(t)
           /\ \A f \in Frame : Continue(t, <<f>>) => Becomes(t, f)
           /\ \A f, g \in Frame : Continue(t, <<f, g>>) => Calls(t, f, g)
<1>1. stack[t] \in Seq(Frame) /\ stack[t] # <<>>
  BY DEF Stacks, Idle
<1>2. ASSUME Return(t)
      PROVE  Returns(t)
  <2>1. stack' = [stack EXCEPT ![t] = <<>> \o Tail(stack[t])]
    BY <1>2 DEF Return, Continue, Replaced
  <2>2. <<>> \o Tail(stack[t]) \in Seq(Frame) /\ Popped(stack[t], <<>> \o Tail(stack[t]))
    BY <1>1, PoppedIs
  <2> QED
    BY <2>1, <2>2 DEF Returns, Changed, Stacks
<1>3. ASSUME NEW f \in Frame, Continue(t, <<f>>)
      PROVE  Becomes(t, f)
  <2>1. stack' = [stack EXCEPT ![t] = <<f>> \o Tail(stack[t])]
    BY <1>3 DEF Continue, Replaced
  <2>2. <<f>> \o Tail(stack[t]) \in Seq(Frame) /\ Swapped(stack[t], <<f>> \o Tail(stack[t]), f)
    BY <1>1, SwappedIs
  <2> QED
    BY <2>1, <2>2 DEF Becomes, Changed, Stacks
<1>4. ASSUME NEW f \in Frame, NEW g \in Frame, Continue(t, <<f, g>>)
      PROVE  Calls(t, f, g)
  <2>1. stack' = [stack EXCEPT ![t] = <<f, g>> \o Tail(stack[t])]
    BY <1>4 DEF Continue, Replaced
  <2>2. <<f, g>> \o Tail(stack[t]) \in Seq(Frame)
        /\ Pushed(stack[t], <<f, g>> \o Tail(stack[t]), f, g)
    BY <1>1, PushedIs
  <2> QED
    BY <2>1, <2>2 DEF Calls, Changed, Stacks
<1> QED
  BY <1>2, <1>3, <1>4

LEMMA BeginDoes ==
    ASSUME Stacks, NEW t \in Thread, Idle(t), NEW f \in Frame,
           stack' = [stack EXCEPT ![t] = <<f>>]
    PROVE  Begins(t, f)
BY DEF Begins, Changed, Stacks

(* Lemma: the frames of a thread, by their places.                           *)
LEMMA FramesAre ==
    ASSUME Stacks, NEW t \in Thread
    PROVE  /\ stack[t] \in Seq(Frame)
           /\ \A f : f \in FramesOf(stack, t) <=> \E i \in 1..Len(stack[t]) : f = stack[t][i]
           /\ ~Idle(t) => Top(t) = stack[t][1] /\ Top(t) \in FramesOf(stack, t)
                          /\ Top(t) \in Frame /\ Len(stack[t]) > 0
           /\ Idle(t) => Len(stack[t]) = 0 /\ FramesOf(stack, t) = {}
BY DEF Stacks, FramesOf, Top, Idle

LEMMA HolderIs ==
    ASSUME NEW t, NEW s \in Seq(Frame), GoodStack(t, s)
    PROVE  \A m : (\E f \in {s[i] : i \in DOMAIN s} : m \in f.holds) <=>
                     m = "mutex" /\ \E i \in 1..Len(s) : Holder(s[i])
<1>1. \A i \in 1..Len(s) : s[i].holds = IF Holder(s[i]) THEN {"mutex"} ELSE {}
  BY DEF GoodStack, FrameInv
<1>2. DOMAIN s = 1..Len(s)
  OBVIOUS
<1> QED
  BY <1>1, <1>2

(* Lemma: who holds the mutex shows in the frames; nobody holds the other.   *)
LEMMA HoldsIs ==
    ASSUME Stacks, StacksInv, NEW t \in Thread
    PROVE  /\ Holds(t, "mutex") <=> \E i \in 1..Len(stack[t]) : Holder(stack[t][i])
           /\ Holds(t, "mutex") <=> \E f \in FramesOf(stack, t) : Holder(f)
           /\ ~Holds(t, "queueMutex")
<1>1. \A f \in FramesOf(stack, t) : f.holds = IF Holder(f) THEN {"mutex"} ELSE {}
  BY FramesAre DEF StacksInv, GoodStack, FrameInv
<1> QED
  BY <1>1, FramesAre DEF Holds

(* The thread is in its first frame. *)
Alone(t) == Len(stack[t]) = 1

LEMMA AloneIs ==
    ASSUME NEW t, stack[t] \in Seq(Frame), stack[t] # <<>>
    PROVE  (Alone(t) <=> Len(stack[t]) = 1) /\ (~Alone(t) <=> Len(stack[t]) > 1)
<1>1. PICK n \in Nat : n = Len(stack[t]) /\ n >= 1
  OBVIOUS
<1>2. \A k \in Nat : k >= 1 => (k # 1 <=> k > 1)
  OBVIOUS
<1> QED
  BY <1>1, <1>2 DEF Alone

(* Lemma: the innermost frame is as every frame; if it is the only one it is *)
(* the first.                                                                *)
LEMMA TopIs ==
    ASSUME Stacks, StacksInv, NEW t \in Thread, ~Idle(t)
    PROVE  /\ Top(t) \in Frame /\ FrameInv(Top(t)) /\ Top(t) = stack[t][1]
           /\ ~Alone(t) => /\ StandsOn(Top(t), stack[t][2])
                           /\ FrameInv(stack[t][2]) /\ stack[t][2] \in Frame
                           /\ Len(stack[t]) > 1
           /\ Alone(t) => Bottom(t, Top(t))
           /\ Holder(Top(t)) => Holds(t, "mutex")
<1>1. stack[t] \in Seq(Frame) /\ Top(t) = stack[t][1] /\ Top(t) \in Frame /\ Len(stack[t]) > 0
      /\ stack[t] # <<>>
  BY FramesAre DEF Idle
<1>2. GoodStack(t, stack[t])
  BY DEF StacksInv
<1>3. FrameInv(stack[t][1]) /\ (Len(stack[t]) > 1 => StandsOn(stack[t][1], stack[t][1 + 1])
                                                    /\ FrameInv(stack[t][2]))
  BY <1>1, <1>2 DEF GoodStack
<1>4. Alone(t) => Bottom(t, Top(t))
  BY <1>1, <1>2 DEF GoodStack, Alone
<1>5. Holder(Top(t)) => Holds(t, "mutex")
  BY <1>1, HoldsIs
<1> QED
  BY <1>1, <1>3, <1>4, <1>5, AloneIs

(* Lemma: only a thread that takes the mutex when it is free comes to hold   *)
(* it.                                                                       *)
LEMMA OneHolderStays ==
    ASSUME Stacks, StacksInv, OneHolder, NEW t \in Thread, Changed(t), StacksInv',
           Holds(t, "mutex")' => Free(t, "mutex") \/ Holds(t, "mutex")
    PROVE  OneHolder'
<1>1. \A u \in Thread : u # t => (Holds(u, "mutex")' <=> Holds(u, "mutex"))
  BY DEF Changed, Holds, FramesOf
<1>2. Free(t, "mutex") => \A u \in Thread : u # t => ~Holds(u, "mutex")
  BY DEF Free
<1>3. SUFFICES ASSUME NEW u \in Thread, NEW v \in Thread,
                      Holds(u, "mutex")', Holds(v, "mutex")'
               PROVE  u = v
  BY DEF OneHolder
<1>4. CASE u # t /\ v # t
  BY <1>1, <1>3, <1>4 DEF OneHolder
<1>5. CASE u = t /\ v # t
  BY <1>1, <1>2, <1>3, <1>5 DEF OneHolder
<1>6. CASE u # t /\ v = t
  BY <1>1, <1>2, <1>3, <1>6 DEF OneHolder
<1> QED
  BY <1>4, <1>5, <1>6

LEMMA ReturnsKeeps ==
    ASSUME Stacks, StacksInv, OneHolder, NEW t \in Thread, Returns(t)
    PROVE  StacksInv' /\ OneHolder'
<1>1. stack[t] \in Seq(Frame) /\ stack'[t] \in Seq(Frame) /\ stack[t] # <<>>
      /\ Changed(t) /\ Popped(stack[t], stack'[t]) /\ Stacks'
  BY DEF Stacks, Returns, Changed, Idle
<1>2. GoodStack(t, stack'[t])
  BY <1>1, PoppedGood DEF StacksInv
<1>3. StacksInv'
  BY <1>1, <1>2 DEF StacksInv, Changed
<1>4. Holds(t, "mutex")' => Holds(t, "mutex")
  <2>1. Holds(t, "mutex")' => \E i \in 1..Len(stack'[t]) : Holder(stack'[t][i])
    BY <1>1, <1>2, HolderIs DEF Holds, FramesOf
  <2> QED
    BY <1>1, <2>1, HoldsIs DEF Popped
<1> QED
  BY <1>1, <1>3, <1>4, OneHolderStays


LEMMA BecomesKeeps ==
    ASSUME Stacks, StacksInv, OneHolder, NEW t \in Thread, NEW f, Becomes(t, f),
           FrameInv(f), ~Alone(t) => StandsOn(f, stack[t][2]),
           Alone(t) => Bottom(t, f),
           Holder(f) => Free(t, "mutex") \/ Holder(Top(t))
    PROVE  StacksInv' /\ OneHolder'
<1>1. stack[t] \in Seq(Frame) /\ stack'[t] \in Seq(Frame) /\ stack[t] # <<>>
      /\ Changed(t) /\ Swapped(stack[t], stack'[t], f)
  BY DEF Stacks, Becomes, Changed, Idle
<1>2. GoodStack(t, stack'[t])
  BY <1>1, AloneIs, SwappedGood DEF StacksInv
<1>3. StacksInv'
  BY <1>1, <1>2 DEF StacksInv, Changed
<1>4. ASSUME Holds(t, "mutex")'
      PROVE  Free(t, "mutex") \/ Holds(t, "mutex")
  <2>1. PICK i \in 1..Len(stack'[t]) : Holder(stack'[t][i])
    BY <1>1, <1>2, <1>4, HolderIs DEF Holds, FramesOf
  <2>2. CASE i = 1
    BY <1>1, <2>1, <2>2, TopIs DEF Swapped, Becomes
  <2>3. CASE i # 1
    BY <1>1, <2>1, <2>3, HoldsIs DEF Swapped
  <2> QED
    BY <2>2, <2>3
<1> QED
  BY <1>1, <1>3, <1>4, OneHolderStays

LEMMA CallsKeeps ==
    ASSUME Stacks, StacksInv, OneHolder, NEW t \in Thread, NEW f, NEW g, Calls(t, f, g),
           FrameInv(f), FrameInv(g), StandsOn(f, g), ~Holder(f),
           ~Alone(t) => StandsOn(g, stack[t][2]),
           Alone(t) => Bottom(t, g),
           Holder(g) => Free(t, "mutex") \/ Holder(Top(t))
    PROVE  StacksInv' /\ OneHolder'
<1>1. stack[t] \in Seq(Frame) /\ stack'[t] \in Seq(Frame) /\ stack[t] # <<>>
      /\ Changed(t) /\ Pushed(stack[t], stack'[t], f, g)
  BY DEF Stacks, Calls, Changed, Idle
<1>2. GoodStack(t, stack'[t])
  BY <1>1, AloneIs, PushedGood DEF StacksInv
<1>3. StacksInv'
  BY <1>1, <1>2 DEF StacksInv, Changed
<1>4. ASSUME Holds(t, "mutex")'
      PROVE  Free(t, "mutex") \/ Holds(t, "mutex")
  <2>1. PICK i \in 1..Len(stack'[t]) : Holder(stack'[t][i])
    BY <1>1, <1>2, <1>4, HolderIs DEF Holds, FramesOf
  <2>2. i # 1
    BY <1>1, <2>1 DEF Pushed
  <2>3. CASE i = 2
    BY <1>1, <2>1, <2>3, TopIs DEF Pushed, Calls
  <2>4. CASE i # 2
    <3>1. stack'[t][i] = stack[t][i - 1] /\ i - 1 \in 1..Len(stack[t])
      BY <1>1, <2>2, <2>4 DEF Pushed
    <3> QED
      BY <2>1, <3>1, HoldsIs
  <2> QED
    BY <2>3, <2>4
<1> QED
  BY <1>1, <1>3, <1>4, OneHolderStays

LEMMA BeginsKeeps ==
    ASSUME Stacks, StacksInv, OneHolder, NEW t \in Thread, NEW f, Begins(t, f),
           FrameInv(f), Bottom(t, f), ~Holder(f)
    PROVE  StacksInv' /\ OneHolder'
<1>1. stack'[t] \in Seq(Frame) /\ Changed(t) /\ stack'[t] = <<f>>
  BY DEF Stacks, Begins, Changed
<1>2. Len(stack'[t]) = 1 /\ stack'[t][1] = f
  BY <1>1
<1>3. GoodStack(t, stack'[t])
  BY <1>1, <1>2 DEF GoodStack
<1>4. StacksInv'
  BY <1>1, <1>3 DEF StacksInv, Changed
<1>5. ~Holds(t, "mutex")'
  <2>1. Holds(t, "mutex")' => \E i \in 1..Len(stack'[t]) : Holder(stack'[t][i])
    BY <1>1, <1>3, HolderIs DEF Holds, FramesOf
  <2> QED
    BY <1>2, <2>1
<1> QED
  BY <1>1, <1>4, <1>5, OneHolderStays

-----------------------------------------------------------------------------
(* Frames *)

(* Lemma: what a frame is made of.                                           *)
LEMMA NewFrameIs ==
    ASSUME NEW op \in Op, NEW at \in Place, NEW id \in 0..MaxId
    PROVE  \A f : f = NewFrame(op, at, id) =>
               /\ f \in Frame /\ f.op = op /\ f.at = at /\ f.id = id
               /\ f.todo = {} /\ f.uses = {} /\ f.holds = {}
BY DEF NewFrame, Frame

LEMMA CallbackFrameIs ==
    ASSUME NEW op \in Callback, NEW id \in 0..MaxId, NEW stored \in SUBSET Object
    PROVE  \A f : f = CallbackFrame(op, id, stored) =>
               /\ f \in Frame /\ f.op = op /\ f.at = "running" /\ f.id = id
               /\ f.todo = {} /\ f.uses = stored /\ f.holds = {}
<1>1. op \in Op /\ "running" \in Place
  BY DEF Op, Place
<1>2. PICK f : f = NewFrame(op, "running", id)
  OBVIOUS
<1> QED
  BY <1>1, <1>2, NewFrameIs DEF CallbackFrame, Frame

LEMMA HoldingIs ==
    ASSUME NEW op \in Op, NEW at \in Place, NEW id \in 0..MaxId
    PROVE  \A f : f = Holding(op, id, at) =>
               /\ f \in Frame /\ f.op = op /\ f.at = at /\ f.id = id
               /\ f.todo = {} /\ f.uses = {} /\ f.holds = {"mutex"}
<1>1. PICK f : f = NewFrame(op, at, id)
  OBVIOUS
<1> QED
  BY <1>1, NewFrameIs DEF Holding, Frame, Mutex

LEMMA MovedFrameIs ==
    ASSUME NEW f \in Frame, NEW at \in Place
    PROVE  \A g : g = [f EXCEPT !.at = at] =>
               /\ g \in Frame /\ g.op = f.op /\ g.at = at /\ g.id = f.id
               /\ g.todo = f.todo /\ g.uses = f.uses /\ g.holds = f.holds
BY DEF Frame

(* Lemma: what a frame with other connections to visit has in common with it.*)
LEMMA OtherTodoIs ==
    ASSUME NEW f \in Frame, NEW todo \in SUBSET Id
    PROVE  \A g : g = [f EXCEPT !.todo = todo] =>
               /\ g \in Frame /\ g.op = f.op /\ g.at = f.at /\ g.id = f.id
               /\ g.todo = todo /\ g.uses = f.uses /\ g.holds = f.holds
BY DEF Frame

(* Lemma: frames that differ in nothing but what they have still to visit    *)
(* stand in the same places.                                                 *)
LEMMA SameButTodo ==
    ASSUME NEW f, NEW g, g.op = f.op, g.at = f.at, g.id = f.id, g.uses = f.uses,
           g.holds = f.holds
    PROVE  /\ FrameInv(f) => FrameInv(g)
           /\ Holder(f) <=> Holder(g)
           /\ \A t : Bottom(t, f) => Bottom(t, g)
           /\ \A h : StandsOn(f, h) => StandsOn(g, h)
           /\ \A h : StandsOn(h, f) => StandsOn(h, g)
<1>1. FrameInv(f) => FrameInv(g)
  BY DEF FrameInv, AtItsPlace, Holder, UsesInv
<1>2. Holder(f) <=> Holder(g)
  BY DEF Holder
<1>3. \A t : Bottom(t, f) => Bottom(t, g)
  BY DEF Bottom
<1>4. \A h : StandsOn(f, h) => StandsOn(g, h)
  BY DEF StandsOn, CalledBack, CalledFrom
<1>5. \A h : StandsOn(h, f) => StandsOn(h, g)
  BY DEF StandsOn, CalledBack, CalledFrom
<1> QED
  BY <1>1, <1>2, <1>3, <1>4, <1>5

-----------------------------------------------------------------------------
(* Steps that keep the stacks good *)

GoodBecomes(t, f) ==
    /\ Becomes(t, f) /\ f \in Frame /\ FrameInv(f)
    /\ ~Alone(t) => StandsOn(f, stack[t][2])
    /\ Alone(t) => Bottom(t, f)
    /\ Holder(f) => Free(t, "mutex") \/ Holder(Top(t))

GoodCalls(t, f, g) ==
    /\ Calls(t, f, g) /\ f \in Frame /\ g \in Frame
    /\ FrameInv(f) /\ FrameInv(g) /\ StandsOn(f, g) /\ ~Holder(f)
    /\ ~Alone(t) => StandsOn(g, stack[t][2])
    /\ Alone(t) => Bottom(t, g)
    /\ Holder(g) => Free(t, "mutex") \/ Holder(Top(t))

GoodBegins(t, f) ==
    Begins(t, f) /\ f \in Frame /\ FrameInv(f) /\ Bottom(t, f) /\ ~Holder(f)

(* Lemma: what waits for the mutex gets it when it is free.                  *)
LEMMA LockingIs ==
    ASSUME NEW t \in Thread, NEW op \in Op, op \notin NeedsQueueMutex, Locking(t, op)
    PROVE  ~Idle(t) /\ Top(t).op = op /\ Top(t).at = "lock" /\ Free(t, "mutex")
BY DEF Locking, At, Wanted, Idle


(* Lemma: where an innermost frame stands.                                   *)
LEMMA TopStands ==
    ASSUME Stacks, StacksInv, NEW t \in Thread, ~Idle(t)
    PROVE  /\ Top(t).op = "heartbeatLoop" => Alone(t) /\ t = "heartbeat"
           /\ Top(t).op \in Handlers \cup {"onMessageReceived"} =>
                 Alone(t) /\ t = "receive"
           /\ Top(t).op = "destructor" => Alone(t) /\ t = "application"
           /\ Top(t).op \in {"call", "setRetransmissionConfig", "disconnect"} =>
                 IF Alone(t) THEN t = "application"
                 ELSE stack[t][2].op \in Callback /\ stack[t][2].at = "called"
           /\ Top(t).op = "shutdown" =>
                 IF Alone(t) THEN t = "application"
                 ELSE \/ stack[t][2].op = "destructor" /\ stack[t][2].at = "tables"
                      \/ /\ stack[t][2].op \in Callback
                         /\ <<"shutdown", "device">> \in MayCall[stack[t][2].op]
<1>3. PICK f, g : f = Top(t) /\ g = stack[t][2]
  OBVIOUS
<1>4. (~Alone(t) => StandsOn(f, g)) /\ (Alone(t) => Bottom(t, f))
  BY <1>3, TopIs
<1>5. /\ f.op = "heartbeatLoop" => ~StandsOn(f, g)
      /\ f.op \in Handlers \cup {"onMessageReceived"} => ~StandsOn(f, g)
      /\ f.op = "destructor" => ~StandsOn(f, g)
      /\ f.op \in {"call", "setRetransmissionConfig", "disconnect"} /\ StandsOn(f, g) =>
            g.op \in Callback /\ g.at = "called"
      /\ f.op = "shutdown" /\ StandsOn(f, g) =>
            \/ g.op = "destructor" /\ g.at = "tables"
            \/ g.op \in Callback /\ <<"shutdown", "device">> \in MayCall[g.op]
  BY DEF StandsOn, CalledBack, CalledFrom, Handlers
<1>6. /\ f.op = "heartbeatLoop" /\ Bottom(t, f) => t = "heartbeat"
      /\ f.op \in Handlers \cup {"onMessageReceived"} /\ Bottom(t, f) => t = "receive"
      /\ f.op \in {"call", "setRetransmissionConfig", "disconnect", "shutdown", "destructor"}
            /\ Bottom(t, f) => t = "application"
  BY DEF Bottom, Handlers
<1> QED
  BY <1>3, <1>4, <1>5, <1>6

-----------------------------------------------------------------------------
(* What the steps do to the stack *)

Ready == Stacks /\ StacksInv

LEMMA EnteredIs ==
    ASSUME NEW op \in Entry
    PROVE  \A f : f = Entered(op) =>
               /\ f \in Frame /\ f.op = op /\ f.at = (IF op = "shutdown" THEN "begin" ELSE "lock")
               /\ FrameInv(f) /\ ~Holder(f)
<1>1. op \in Op /\ "begin" \in Place /\ "lock" \in Place /\ 0 \in 0..MaxId
  BY ThreadsAssumption DEF Entry, Op, Place
<1>2. PICK at \in {"begin", "lock"} : at = (IF op = "shutdown" THEN "begin" ELSE "lock")
  OBVIOUS
<1>3. \A f : f = Entered(op) =>
          f \in Frame /\ f.op = op /\ f.at = at /\ f.uses = {} /\ f.holds = {}
  BY <1>1, <1>2, NewFrameIs DEF Entered
<1>4. ASSUME NEW f, f = Entered(op)
      PROVE  FrameInv(f) /\ ~Holder(f)
  BY <1>2, <1>3, <1>4
  DEF FrameInv, AtItsPlace, Holder, UsesInv, Entry, Callback, Removers, Handlers, Waiting
<1> QED
  BY <1>2, <1>3, <1>4

LEMMA CallbackCallsDoes ==
    ASSUME Ready, NEW t \in Thread, NEW op \in Entry, CallbackCalls(t, op)
    PROVE  \E f, g :
               /\ GoodCalls(t, f, g) /\ f.op = op /\ (op = "shutdown" => f.at = "begin")
               /\ Top(t).op \in Callback /\ g.op = Top(t).op
               /\ op = "shutdown" => <<op, "device">> \in MayCall[g.op]
<1>1. ~Idle(t) /\ Top(t).op \in Callback /\ Top(t) \in Frame /\ FrameInv(Top(t))
      /\ (op = "call" \/ <<op, "device">> \in MayCall[Top(t).op])
  BY TopIs DEF CallbackCalls, Ready
<1>2. PICK f, g : f = Entered(op) /\ g = [Top(t) EXCEPT !.at = "called"]
  OBVIOUS
<1>3. f \in Frame /\ f.op = op /\ (op = "shutdown" => f.at = "begin") /\ FrameInv(f)
      /\ ~Holder(f)
  BY <1>2, EnteredIs
<1>4. g \in Frame /\ g.op = Top(t).op /\ g.at = "called" /\ g.id = Top(t).id
      /\ g.uses = Top(t).uses /\ g.holds = Top(t).holds
  BY <1>1, <1>2, MovedFrameIs DEF Place
<1>5. Calls(t, f, g)
  BY <1>1, <1>2, <1>3, <1>4, ContinueDoes DEF CallbackCalls, Ready
<1>6. FrameInv(g) /\ (Holder(g) => Holder(Top(t)))
  BY <1>1, <1>4
  DEF FrameInv, AtItsPlace, Holder, UsesInv, Callback, Removers, Handlers, Waiting
<1>7. StandsOn(f, g)
  BY <1>1, <1>3, <1>4 DEF StandsOn, CalledFrom, Entry
<1>8. \A h : StandsOn(Top(t), h) => StandsOn(g, h)
  BY <1>1, <1>4 DEF StandsOn, CalledBack, CalledFrom, Callback
<1>9. Bottom(t, Top(t)) => Bottom(t, g)
  BY <1>4 DEF Bottom
<1>10. GoodCalls(t, f, g)
  BY <1>1, <1>3, <1>4, <1>5, <1>6, <1>7, <1>8, <1>9, TopIs DEF GoodCalls, Ready
<1> QED
  BY <1>1, <1>3, <1>4, <1>10


(* Lemma: the steps that do no more to the stack than return.                *)
LEMMA ReturningSteps ==
    ASSUME Ready, NEW t \in Thread
    PROVE  /\ CallbackReturns(t) => Returns(t) /\ Top(t).op \in Callback
           /\ CallInVain(t) =>
                 Returns(t) /\ Top(t).op \in {"call", "onMessageReceived"}
           /\ Connect(t) => Returns(t) /\ Top(t).op = "call"
           /\ SetRetransmissionConfig(t) =>
                 Returns(t) /\ Top(t).op = "setRetransmissionConfig"
           /\ \A op \in Removers : RemoveEnd(t, op) =>
                 Returns(t) /\ Top(t).op = op /\ Top(t).at = "told"
           /\ \A handler : \A op \in OfConnection, id \in Id : SetHandler(t, op, handler, id) =>
                 Returns(t) /\ Top(t).op = "call" /\ Free(t, "mutex")
           /\ ShutdownEnd(t) =>
                 Returns(t) /\ Top(t).op = "shutdown" /\ Top(t).at = "each"
<1>1. CallbackReturns(t) => Returns(t) /\ Top(t).op \in Callback
  BY ContinueDoes DEF Ready, CallbackReturns
<1>2. CallInVain(t) => Returns(t) /\ Top(t).op \in {"call", "onMessageReceived"}
  BY ContinueDoes DEF Ready, CallInVain, Locking, At, Idle
<1>3. SetRetransmissionConfig(t) => Returns(t) /\ Top(t).op = "setRetransmissionConfig"
  BY ContinueDoes DEF Ready, SetRetransmissionConfig, Locking, At, Idle
<1>4. \A op \in Removers : RemoveEnd(t, op) =>
          Returns(t) /\ Top(t).op = op /\ Top(t).at = "told"
  BY ContinueDoes DEF Ready, RemoveEnd, At, Idle
<1>5. \A handler : \A op \in OfConnection, id \in Id : SetHandler(t, op, handler, id) =>
          Returns(t) /\ Top(t).op = "call" /\ Free(t, "mutex")
  BY ContinueDoes, LockingIs DEF Ready, SetHandler, Op, NeedsQueueMutex
<1>6. ShutdownEnd(t) => Returns(t) /\ Top(t).op = "shutdown" /\ Top(t).at = "each"
  BY ContinueDoes DEF Ready, ShutdownEnd, At, Idle
<1>7. Connect(t) => Returns(t) /\ Top(t).op = "call"
  BY ContinueDoes DEF Ready, Connect, Locking, At, Idle
<1> QED
  BY <1>1, <1>2, <1>3, <1>4, <1>5, <1>6, <1>7

LEMMA RemoveBeginDoes ==
    ASSUME Ready, NEW t \in Thread, NEW op \in Removers, NEW id \in Id, RemoveBegin(t, op, id)
    PROVE  /\ \E f, g :
                 GoodCalls(t, f, g) /\ f.op = "onDisconnected" /\ g.op = op /\ g.id = id
           /\ Free(t, "mutex") /\ ~Idle(t)
           /\ Top(t).op = IF op = "disconnect" THEN "call" ELSE "onMessageReceived"
           /\ op = "disconnect" => Permitted(t, op, id)
<1>1. id \in 0..MaxId /\ id # 0 /\ op \in Op
  BY ThreadsAssumption DEF Id, Op, Removers
<1>2. ~Idle(t) /\ Free(t, "mutex")
      /\ Top(t).op = (IF op = "disconnect" THEN "call" ELSE "onMessageReceived")
      /\ (op = "disconnect" => Permitted(t, op, id))
  BY LockingIs DEF RemoveBegin, Op, NeedsQueueMutex, Removers
<1>3. PICK h : h = Holding(op, id, "told")
  OBVIOUS
<1>4. PICK f, g : f = CallbackFrame("onDisconnected", id, {<<"onDisconnected", id>>})
                  /\ g = [Holding(op, id, "told") EXCEPT !.uses = Found(id)]
  OBVIOUS
<1>5. f \in Frame /\ f.op = "onDisconnected" /\ f.at = "running" /\ f.id = id
      /\ f.uses = {<<"onDisconnected", id>>} /\ f.holds = {}
  <2>1. {<<"onDisconnected", id>>} \in SUBSET Object /\ "onDisconnected" \in Callback
    BY DEF Object, Callback
  <2> QED
    BY <1>1, <1>4, <2>1, CallbackFrameIs
<1>6. h \in Frame /\ h.op = op /\ h.at = "told" /\ h.id = id /\ h.holds = {"mutex"}
  BY <1>1, <1>3, HoldingIs DEF Place
<1>7. g \in Frame /\ g.op = op /\ g.at = "told" /\ g.id = id /\ g.holds = {"mutex"}
      /\ g.uses = Found(id)
  <2>1. Found(id) \in SUBSET Object
    BY DEF Found, PositionIn, Object, Position
  <2> QED
    BY <1>3, <1>4, <1>6, <2>1 DEF Frame
<1>8. Calls(t, f, g)
  BY <1>2, <1>4, <1>5, <1>7, ContinueDoes DEF RemoveBegin, Ready
<1>9. FrameInv(f) /\ ~Holder(f)
  BY <1>5 DEF FrameInv, AtItsPlace, Holder, UsesInv, Callback, Removers, Handlers, Waiting
<1>10. FrameInv(g)
  BY <1>7 DEF FrameInv, AtItsPlace, Holder, UsesInv, Callback, Removers, Handlers, Waiting
<1>11. StandsOn(f, g)
  BY <1>5, <1>7 DEF StandsOn, CalledBack
<1>12. ASSUME ~Alone(t)
       PROVE  StandsOn(g, stack[t][2])
  <2>1. op = "disconnect"
    BY <1>2, <1>12, TopStands DEF Ready, Removers
  <2>2. stack[t][2].op \in Callback /\ stack[t][2].at = "called"
    BY <1>2, <1>12, <2>1, TopStands DEF Ready
  <2>3. <<op, IF id = stack[t][2].id THEN "own" ELSE "other">> \in MayCall[stack[t][2].op]
    BY <1>1, <1>2, <1>12, <2>1, TopIs DEF Permitted, Ready
  <2> QED
    BY <1>7, <2>1, <2>2, <2>3 DEF StandsOn, CalledFrom
<1>13. ASSUME Alone(t)
       PROVE  Bottom(t, g)
  BY <1>2, <1>7, <1>13, TopStands DEF Ready, Bottom, Removers, Handlers
<1>14. GoodCalls(t, f, g)
  BY <1>2, <1>5, <1>7, <1>8, <1>9, <1>10, <1>11, <1>12, <1>13 DEF GoodCalls
<1> QED
  BY <1>2, <1>5, <1>7, <1>14


(* Lemma: a frame of the same operation stands in the same place.            *)
LEMMA SameOperation ==
    ASSUME NEW f, NEW g, g.op = f.op, g.id = f.id \/ f.op \notin Callback \cup {"disconnect"}
    PROVE  /\ \A h : StandsOn(f, h) => StandsOn(g, h)
           /\ \A t : Bottom(t, f) => Bottom(t, g)
<1>1. \A h : CalledBack(f, h) => CalledBack(g, h)
  BY DEF CalledBack, Callback
<1>2. \A h : CalledFrom(f, h) => CalledFrom(g, h)
  BY DEF CalledFrom
<1> QED
  BY <1>1, <1>2 DEF StandsOn, Bottom

(* Lemma: an operation goes on to its next place.                            *)
LEMMA GoesOn ==
    ASSUME Ready, NEW t \in Thread, ~Idle(t), NEW f \in Frame, Continue(t, <<f>>),
           f.op = Top(t).op, f.id = Top(t).id \/ f.op \notin Callback \cup {"disconnect"},
           FrameInv(f), Holder(f) => Free(t, "mutex") \/ Holder(Top(t))
    PROVE  GoodBecomes(t, f)
<1>1. Becomes(t, f)
  BY ContinueDoes DEF Ready
<1> QED
  BY <1>1, SameOperation, TopIs DEF GoodBecomes, Ready

(* Lemma: an operation calls back.                                           *)
LEMMA CallsBack ==
    ASSUME Ready, NEW t \in Thread, ~Idle(t), NEW f \in Frame, NEW g \in Frame,
           Continue(t, <<f, g>>), f.op \in Callback, FrameInv(f), FrameInv(g), CalledBack(f, g),
           g.op = Top(t).op, g.id = Top(t).id \/ g.op \notin Callback \cup {"disconnect"},
           Holder(g) => Free(t, "mutex") \/ Holder(Top(t))
    PROVE  GoodCalls(t, f, g)
<1>1. Calls(t, f, g)
  BY ContinueDoes DEF Ready
<1>2. ~Holder(f)
  BY DEF Holder, Callback, Removers, Handlers
<1>3. StandsOn(f, g)
  BY DEF StandsOn
<1> QED
  BY <1>1, <1>2, <1>3, SameOperation, TopIs DEF GoodCalls, Ready

(* Lemma: what frames of shutdown, of the heartbeat loop and of callbacks    *)
(* are.                                                                      *)
LEMMA FrameInvs ==
    ASSUME NEW f \in Frame
    PROVE  /\ /\ f.op = "shutdown" /\ f.at \in {"begin", "join", "lock", "each"} /\ f.uses = {}
              /\ f.holds = (IF f.at = "each" THEN {"mutex"} ELSE {})
              => FrameInv(f) /\ (Holder(f) <=> f.at = "each")
           /\ /\ f.op = "destructor"
              /\ f.at \in {"tables", "members", "joinReceive", "joinSession"}
              /\ f.uses = {} /\ f.holds = {}
              => FrameInv(f) /\ ~Holder(f)
           /\ /\ f.op = "heartbeatLoop" /\ f.at \in {"check", "lock", "failures", "beats"}
              /\ f.uses # {} => f.at = "beats"
              /\ f.holds = (IF f.at \in {"failures", "beats"} THEN {"mutex"} ELSE {})
              => FrameInv(f) /\ (Holder(f) <=> f.at \in {"failures", "beats"})
           /\ /\ f.op \in Callback /\ f.at = "running" /\ f.holds = {}
              /\ \/ f.uses = IF f.op \in {"onMessage", "onDisconnected"} THEN {<<f.op, f.id>>}
                             ELSE IF f.op = "onMissed" THEN BeatOf(f.id) ELSE {}
                 \/ f.op = "onConnected" /\ f.uses = {<<f.op, f.id>>}
              => FrameInv(f) /\ ~Holder(f)
           /\ /\ f.op \in Handlers \ Removers /\ f.holds = {"mutex"}
              /\ \/ /\ f.at = IF f.op = "handleHandshakeRequest" THEN "decided" ELSE "last"
                    /\ f.uses = {}
                 \/ /\ f.op = "handleHandshakeFinalConfirmation" /\ f.at = "established"
                    /\ f.uses = {<<"connection", f.id>>}
              /\ f.op = "handleHandshakeFinalConfirmation" => f.id \in Id
              => FrameInv(f) /\ Holder(f)
           /\ /\ f.op = "onMessageReceived" /\ f.at = "lock" /\ f.uses = {} /\ f.holds = {}
              => FrameInv(f) /\ ~Holder(f)
<1> USE DEF FrameInv, AtItsPlace, Holder, UsesInv, Callback, Removers, Handlers, Waiting
<1>1. /\ f.op = "shutdown" /\ f.at \in {"begin", "join", "lock", "each"} /\ f.uses = {}
      /\ f.holds = (IF f.at = "each" THEN {"mutex"} ELSE {})
      => FrameInv(f) /\ (Holder(f) <=> f.at = "each")
  OBVIOUS
<1>2. /\ f.op = "destructor" /\ f.at \in {"tables", "members", "joinReceive", "joinSession"}
      /\ f.uses = {} /\ f.holds = {}
      => FrameInv(f) /\ ~Holder(f)
  OBVIOUS
<1>3. /\ f.op = "heartbeatLoop" /\ f.at \in {"check", "lock", "failures", "beats"}
      /\ f.uses # {} => f.at = "beats"
      /\ f.holds = (IF f.at \in {"failures", "beats"} THEN {"mutex"} ELSE {})
      => FrameInv(f) /\ (Holder(f) <=> f.at \in {"failures", "beats"})
  OBVIOUS
<1>4. /\ f.op \in Callback /\ f.at = "running" /\ f.holds = {}
      /\ \/ f.uses = IF f.op \in {"onMessage", "onDisconnected"} THEN {<<f.op, f.id>>}
                     ELSE IF f.op = "onMissed" THEN BeatOf(f.id) ELSE {}
         \/ f.op = "onConnected" /\ f.uses = {<<f.op, f.id>>}
      => FrameInv(f) /\ ~Holder(f)
  OBVIOUS
<1>5. /\ f.op \in Handlers \ Removers /\ f.holds = {"mutex"}
      /\ \/ /\ f.at = IF f.op = "handleHandshakeRequest" THEN "decided" ELSE "last"
            /\ f.uses = {}
         \/ /\ f.op = "handleHandshakeFinalConfirmation" /\ f.at = "established"
            /\ f.uses = {<<"connection", f.id>>}
      /\ f.op = "handleHandshakeFinalConfirmation" => f.id \in Id
      => FrameInv(f) /\ Holder(f)
  OBVIOUS
<1>6. /\ f.op = "onMessageReceived" /\ f.at = "lock" /\ f.uses = {} /\ f.holds = {}
      => FrameInv(f) /\ ~Holder(f)
  OBVIOUS
<1> QED
  BY <1>1, <1>2, <1>3, <1>4, <1>5, <1>6


(* Lemma: what shutdown does to the stack.                                   *)
LEMMA ShutdownBeginDoes ==
    ASSUME Ready, NEW t \in Thread, ShutdownBegin(t)
    PROVE  /\ ~Idle(t) /\ Top(t).op = "shutdown" /\ Top(t).at = "begin"
           /\ UNCHANGED <<tables, members, dangling, told>>
           /\ \/ Returns(t) /\ shutdownRequested /\ UNCHANGED flags
              \/ /\ ~shutdownRequested /\ shutdownRequested' = TRUE /\ UNCHANGED initialized
                 /\ \E f : GoodBecomes(t, f) /\ f.op = "shutdown" /\ f.at = "join"
<1>1. ~Idle(t) /\ Top(t).op = "shutdown" /\ Top(t).at = "begin" /\ Top(t) \in Frame
      /\ FrameInv(Top(t)) /\ UNCHANGED <<tables, members, dangling, told>>
  BY TopIs DEF ShutdownBegin, At, Idle, Ready
<1>2. CASE shutdownRequested /\ Return(t) /\ UNCHANGED flags
  BY <1>1, <1>2, ContinueDoes DEF Ready
<1>3. CASE /\ ~shutdownRequested /\ shutdownRequested' = TRUE /\ UNCHANGED initialized
           /\ Continue(t, <<[Top(t) EXCEPT !.at = "join"]>>)
  <2>1. PICK f : f = [Top(t) EXCEPT !.at = "join"]
    OBVIOUS
  <2>2. f \in Frame /\ f.op = "shutdown" /\ f.at = "join" /\ f.id = Top(t).id
        /\ f.uses = {} /\ f.holds = {}
    <3>1. f \in Frame /\ f.op = "shutdown" /\ f.at = "join" /\ f.id = Top(t).id
          /\ f.uses = Top(t).uses /\ f.holds = Top(t).holds
      BY <1>1, <2>1, MovedFrameIs DEF Place
    <3>2. Top(t).uses = {} /\ Top(t).holds = {}
      BY <1>1 DEF FrameInv, UsesInv, Holder, Callback, Removers, Handlers
    <3> QED
      BY <3>1, <3>2
  <2>3. FrameInv(f) /\ ~Holder(f)
    BY <2>2, FrameInvs
  <2>4. GoodBecomes(t, f)
    BY <1>1, <1>3, <2>1, <2>2, <2>3, GoesOn
  <2> QED
    BY <1>1, <1>3, <2>2, <2>4
<1> QED
  BY <1>2, <1>3 DEF ShutdownBegin

LEMMA ShutdownJoinDoes ==
    ASSUME Ready, NEW t \in Thread, ShutdownJoin(t)
    PROVE  /\ ~Idle(t) /\ Top(t).op = "shutdown" /\ Top(t).at = "join"
           /\ \E f : GoodBecomes(t, f) /\ f.op = "shutdown" /\ f.at = "lock"
<1>1. ~Idle(t) /\ Top(t).op = "shutdown" /\ Top(t).at = "join" /\ Top(t) \in Frame
      /\ FrameInv(Top(t))
  BY TopIs DEF ShutdownJoin, At, Idle, Ready
<1>2. PICK f : f = [Top(t) EXCEPT !.at = "lock"]
  OBVIOUS
<1>3. f \in Frame /\ f.op = "shutdown" /\ f.at = "lock" /\ f.id = Top(t).id
      /\ f.uses = {} /\ f.holds = {}
  <2>1. f \in Frame /\ f.op = "shutdown" /\ f.at = "lock" /\ f.id = Top(t).id
        /\ f.uses = Top(t).uses /\ f.holds = Top(t).holds
    BY <1>1, <1>2, MovedFrameIs DEF Place
  <2>2. Top(t).uses = {} /\ Top(t).holds = {}
    BY <1>1 DEF FrameInv, UsesInv, Holder, Callback, Removers, Handlers
  <2> QED
    BY <2>1, <2>2
<1>4. FrameInv(f) /\ ~Holder(f)
  BY <1>3, FrameInvs
<1>5. GoodBecomes(t, f)
  BY <1>1, <1>2, <1>3, <1>4, GoesOn DEF ShutdownJoin
<1> QED
  BY <1>1, <1>3, <1>5

LEMMA ShutdownLockedDoes ==
    ASSUME Ready, NEW t \in Thread, ShutdownLocked(t)
    PROVE  /\ ~Idle(t) /\ Top(t).op = "shutdown" /\ Top(t).at = "lock" /\ Free(t, "mutex")
           /\ \E f : /\ GoodBecomes(t, f) /\ f.op = "shutdown" /\ f.at = "each"
                     /\ f.todo = ToDisconnect
<1>1. ~Idle(t) /\ Top(t).op = "shutdown" /\ Top(t).at = "lock" /\ Free(t, "mutex")
  BY LockingIs DEF ShutdownLocked, Op, NeedsQueueMutex
<1>2. PICK h : h = Holding("shutdown", 0, "each")
  OBVIOUS
<1>3. PICK f : f = [Holding("shutdown", 0, "each") EXCEPT !.todo = ToDisconnect]
  OBVIOUS
<1>4. h \in Frame /\ h.op = "shutdown" /\ h.at = "each" /\ h.uses = {} /\ h.holds = {"mutex"}
  BY <1>2, HoldingIs, ThreadsAssumption DEF Op, Place
<1>5. f \in Frame /\ f.op = "shutdown" /\ f.at = "each" /\ f.uses = {} /\ f.holds = {"mutex"}
      /\ f.todo = ToDisconnect
  <2>1. ToDisconnect \in SUBSET Id
    BY DEF ToDisconnect
  <2> QED
    BY <1>2, <1>3, <1>4, <2>1, OtherTodoIs
<1>6. FrameInv(f)
  BY <1>5, FrameInvs
<1>7. GoodBecomes(t, f)
  BY <1>1, <1>3, <1>5, <1>6, GoesOn DEF ShutdownLocked, Callback
<1> QED
  BY <1>1, <1>5, <1>7

LEMMA ShutdownEachDoes ==
    ASSUME Ready, NEW t \in Thread, NEW id \in Id, ShutdownEach(t, id)
    PROVE  /\ ~Idle(t) /\ Top(t).op = "shutdown" /\ Top(t).at = "each" /\ id \in Top(t).todo
           /\ \E g : /\ g.op = "shutdown" /\ g.at = "each" /\ g.todo = Top(t).todo \ {id}
                     /\ \/ ~Known(id) /\ UNCHANGED told /\ GoodBecomes(t, g)
                        \/ /\ Known(id) /\ told' = [told EXCEPT ![id] = @ + 1]
                           /\ \E f : GoodCalls(t, f, g) /\ f.op = "onDisconnected"
<1>1. ~Idle(t) /\ Top(t).op = "shutdown" /\ Top(t).at = "each" /\ id \in Top(t).todo
      /\ Top(t) \in Frame /\ FrameInv(Top(t))
  BY TopIs DEF ShutdownEach, At, Idle, Ready
<1>2. PICK f, g : f = CallbackFrame("onDisconnected", id, {<<"onDisconnected", id>>})
                  /\ g = [Top(t) EXCEPT !.todo = @ \ {id}]
  OBVIOUS
<1>3. g \in Frame /\ g.op = "shutdown" /\ g.at = "each" /\ g.id = Top(t).id
      /\ g.todo = Top(t).todo \ {id} /\ g.uses = {} /\ g.holds = {"mutex"}
  <2>1. Top(t).todo \ {id} \in SUBSET Id
    BY <1>1 DEF Frame
  <2>2. g \in Frame /\ g.op = "shutdown" /\ g.at = "each" /\ g.id = Top(t).id
        /\ g.todo = Top(t).todo \ {id} /\ g.uses = Top(t).uses /\ g.holds = Top(t).holds
    BY <1>1, <1>2, <2>1, OtherTodoIs
  <2>3. Top(t).uses = {} /\ Top(t).holds = {"mutex"}
    BY <1>1 DEF FrameInv, UsesInv, Holder, Callback, Removers, Handlers
  <2> QED
    BY <2>2, <2>3
<1>4. FrameInv(g) /\ Holder(Top(t))
  BY <1>1, <1>3, FrameInvs DEF Holder
<1>5. CASE ~Known(id) /\ Continue(t, <<g>>) /\ UNCHANGED told
  <2>1. GoodBecomes(t, g)
    BY <1>1, <1>3, <1>4, <1>5, GoesOn
  <2> QED
    BY <1>1, <1>3, <1>5, <2>1
<1>6. CASE Known(id) /\ told' = [told EXCEPT ![id] = @ + 1] /\ Continue(t, <<f, g>>)
  <2>1. f \in Frame /\ f.op = "onDisconnected" /\ f.at = "running" /\ f.id = id
        /\ f.uses = {<<"onDisconnected", id>>} /\ f.holds = {}
    <3>1. {<<"onDisconnected", id>>} \in SUBSET Object /\ "onDisconnected" \in Callback
          /\ id \in 0..MaxId
      BY ThreadsAssumption DEF Object, Callback, Id
    <3> QED
      BY <1>2, <3>1, CallbackFrameIs
  <2>2. FrameInv(f) /\ f.op \in Callback
    BY <2>1, FrameInvs DEF Callback
  <2>3. CalledBack(f, g)
    BY <1>3, <2>1 DEF CalledBack
  <2>4. GoodCalls(t, f, g)
    BY <1>1, <1>3, <1>4, <1>6, <2>1, <2>2, <2>3, CallsBack
  <2> QED
    BY <1>1, <1>3, <1>6, <2>1, <2>4
<1> QED
  BY <1>2, <1>5, <1>6 DEF ShutdownEach

(* Lemma: the destructor goes on; what it waits for has ended.               *)
LEMMA DestructorStepDoes ==
    ASSUME Ready, NEW at \in {"tables", "members", "joinReceive", "joinSession"},
           NEW next \in {"members", "joinReceive", "joinSession", "end"}, NEW done,
           DestructorStep(at, next, done)
    PROVE  /\ At("application", "destructor", at) /\ members' = done
           /\ UNCHANGED <<connections, opened, nextConnectionId, flags, dangling, told>>
           /\ IF next = "end" THEN Returns("application")
              ELSE \E f : GoodBecomes("application", f) /\ f.op = "destructor" /\ f.at = next
<1>1. ~Idle("application") /\ Top("application").op = "destructor" /\ "application" \in Thread
  BY DEF DestructorStep, At, Idle, Thread
<1>2. CASE next = "end"
  BY <1>1, <1>2, ContinueDoes DEF DestructorStep, Return, Ready
<1>3. CASE next # "end"
  <2>1. PICK f : f = NewFrame("destructor", next, 0)
    OBVIOUS
  <2>2. f \in Frame /\ f.op = "destructor" /\ f.at = next /\ f.uses = {} /\ f.holds = {}
    BY <1>3, <2>1, NewFrameIs, ThreadsAssumption DEF Op, Place
  <2>3. FrameInv(f) /\ ~Holder(f)
    BY <1>3, <2>2, FrameInvs
  <2>4. GoodBecomes("application", f)
    BY <1>1, <1>3, <2>1, <2>2, <2>3, GoesOn DEF DestructorStep, Callback
  <2> QED
    BY <1>3, <2>2, <2>4 DEF DestructorStep
<1> QED
  BY <1>2, <1>3


(* Lemma: what the application and the network begin.                        *)
LEMMA BeginningSteps ==
    ASSUME Ready, Started
    PROVE  /\ Initialize => \E f : GoodBegins("heartbeat", f) /\ f.op = "heartbeatLoop"
           /\ \A op \in Entry : ApplicationCalls(op) =>
                 \E f : GoodBegins("application", f) /\ f.op = op /\ (op = "shutdown" => f.at = "begin")
           /\ ReceiveBegin => \E f : GoodBegins("receive", f) /\ f.op = "onMessageReceived"
           /\ \A t \in {"receive", "session"} : Delivered(t) =>
                 \E f : GoodBegins(t, f) /\ f.op = "onDelivered"
<1>1. ASSUME Initialize
      PROVE  \E f : GoodBegins("heartbeat", f) /\ f.op = "heartbeatLoop"
  <2>1. PICK f : f = NewFrame("heartbeatLoop", "check", 0)
    OBVIOUS
  <2>2. f \in Frame /\ f.op = "heartbeatLoop" /\ f.at = "check" /\ f.uses = {} /\ f.holds = {}
    BY <2>1, NewFrameIs, ThreadsAssumption DEF Op, Place
  <2>3. FrameInv(f) /\ ~Holder(f)
    BY <2>2, FrameInvs
  <2>4. Begins("heartbeat", f)
    BY <1>1, <2>1, <2>2, BeginDoes DEF Initialize, Started, Ready, Thread
  <2> QED
    BY <2>2, <2>3, <2>4 DEF GoodBegins, Bottom
<1>2. ASSUME NEW op \in Entry, ApplicationCalls(op)
      PROVE  \E f : GoodBegins("application", f) /\ f.op = op /\ (op = "shutdown" => f.at = "begin")
  <2>1. PICK f : f = Entered(op)
    OBVIOUS
  <2>2. f \in Frame /\ f.op = op /\ (op = "shutdown" => f.at = "begin") /\ FrameInv(f) /\ ~Holder(f)
    BY <2>1, EnteredIs
  <2>3. Begins("application", f)
    BY <1>2, <2>1, <2>2, BeginDoes DEF ApplicationCalls, Ready, Thread
  <2> QED
    BY <2>2, <2>3 DEF GoodBegins, Bottom, Entry
<1>3. ASSUME ReceiveBegin
      PROVE  \E f : GoodBegins("receive", f) /\ f.op = "onMessageReceived"
  <2>1. PICK f : f = NewFrame("onMessageReceived", "lock", 0)
    OBVIOUS
  <2>2. f \in Frame /\ f.op = "onMessageReceived" /\ f.at = "lock" /\ f.uses = {} /\ f.holds = {}
    <3>1. "onMessageReceived" \in Op /\ "lock" \in Place /\ 0 \in 0..MaxId
      BY ThreadsAssumption DEF Op, Place
    <3> QED
      BY <2>1, <3>1, NewFrameIs
  <2>3. FrameInv(f) /\ ~Holder(f)
    BY <2>2, FrameInvs
  <2>4. Begins("receive", f)
    BY <1>3, <2>1, <2>2, BeginDoes DEF ReceiveBegin, Ready, Thread
  <2> QED
    BY <2>2, <2>3, <2>4 DEF GoodBegins, Bottom
<1>4. ASSUME NEW t \in {"receive", "session"}, Delivered(t)
      PROVE  \E f : GoodBegins(t, f) /\ f.op = "onDelivered"
  <2>1. PICK c : c = CallbackFrame("onDelivered", 0, {})
    OBVIOUS
  <2>2. PICK f : f = [CallbackFrame("onDelivered", 0, {}) EXCEPT !.holds = HeldByDelivery]
    OBVIOUS
  <2>3. c \in Frame /\ c.op = "onDelivered" /\ c.at = "running" /\ c.uses = {} /\ c.holds = {}
    BY <2>1, CallbackFrameIs, ThreadsAssumption DEF Callback
  <2>4. f \in Frame /\ f.op = "onDelivered" /\ f.at = "running" /\ f.uses = {} /\ f.holds = {}
    BY <2>1, <2>2, <2>3 DEF Frame, HeldByDelivery
  <2>5. FrameInv(f) /\ ~Holder(f)
    BY <2>4, FrameInvs DEF Callback
  <2>6. Begins(t, f)
    BY <1>4, <2>2, <2>4, BeginDoes DEF Delivered, Ready, Thread
  <2> QED
    BY <2>4, <2>5, <2>6 DEF GoodBegins, Bottom
<1> QED
  BY <1>1, <1>2, <1>3, <1>4

BeginsTwo(t, f, g) ==
    /\ Idle(t) /\ Changed(t) /\ stack'[t] = <<f, g>>
    /\ FrameInv(f) /\ FrameInv(g) /\ f \in Frame /\ g \in Frame
    /\ StandsOn(f, g) /\ Bottom(t, g) /\ ~Holder(f) /\ ~Holder(g)

LEMMA DestructorBeginDoes ==
    ASSUME Ready, DestructorBegin
    PROVE  \E f, g : /\ BeginsTwo("application", f, g)
                     /\ f.op = "shutdown" /\ f.at = "begin"
                     /\ g.op = "destructor" /\ g.at = "tables"
<1>1. PICK f, g : f = Entered("shutdown") /\ g = NewFrame("destructor", "tables", 0)
  OBVIOUS
<1>2. f \in Frame /\ f.op = "shutdown" /\ f.at = "begin" /\ FrameInv(f) /\ ~Holder(f)
  BY <1>1, EnteredIs DEF Entry
<1>3. g \in Frame /\ g.op = "destructor" /\ g.at = "tables" /\ g.uses = {} /\ g.holds = {}
  BY <1>1, NewFrameIs, ThreadsAssumption DEF Op, Place
<1>4. FrameInv(g) /\ ~Holder(g)
  BY <1>3, FrameInvs
<1>5. stack' = [stack EXCEPT !["application"] = <<f, g>>] /\ Idle("application")
  BY <1>1 DEF DestructorBegin
<1>6. Changed("application") /\ stack'["application"] = <<f, g>>
  BY <1>2, <1>3, <1>5 DEF Changed, Ready, Stacks, Thread
<1>7. StandsOn(f, g) /\ Bottom("application", g)
  BY <1>2, <1>3 DEF StandsOn, Bottom
<1> QED
  BY <1>2, <1>3, <1>4, <1>5, <1>6, <1>7 DEF BeginsTwo

LEMMA BeginsTwoKeeps ==
    ASSUME Stacks, StacksInv, OneHolder, NEW t \in Thread, NEW f, NEW g, BeginsTwo(t, f, g)
    PROVE  StacksInv' /\ OneHolder'
<1>1. stack'[t] \in Seq(Frame) /\ Changed(t) /\ stack'[t] = <<f, g>>
  BY DEF Stacks, BeginsTwo, Changed
<1>2. Len(stack'[t]) = 2 /\ stack'[t][1] = f /\ stack'[t][2] = g
  BY <1>1
<1>3. GoodStack(t, stack'[t])
  BY <1>1, <1>2 DEF GoodStack, BeginsTwo
<1>4. StacksInv'
  BY <1>1, <1>3 DEF StacksInv, Changed
<1>5. ~Holds(t, "mutex")'
  <2>1. Holds(t, "mutex")' => \E i \in 1..Len(stack'[t]) : Holder(stack'[t][i])
    BY <1>1, <1>3, HolderIs DEF Holds, FramesOf
  <2>2. \A i \in 1..2 : i = 1 \/ i = 2
    OBVIOUS
  <2> QED
    BY <1>2, <2>1, <2>2 DEF BeginsTwo
<1> QED
  BY <1>1, <1>4, <1>5, OneHolderStays

-----------------------------------------------------------------------------
(* What the handlers do to the stack *)

(* Lemma: a handler calls back.                                              *)
LEMMA HandlerCalls ==
    ASSUME Ready, Locking("receive", "onMessageReceived"),
           NEW op \in Handlers \ Removers, NEW callback \in Callback, NEW id \in 0..MaxId,
           NEW g \in Frame, FrameInv(g), g.op = op, g.id = id,
           NEW stored \in SUBSET Object,
           \/ stored = IF callback \in {"onMessage", "onDisconnected"} THEN {<<callback, id>>}
                       ELSE IF callback = "onMissed" THEN BeatOf(id) ELSE {}
           \/ callback = "onConnected" /\ stored = {<<callback, id>>},
           Continue("receive", <<CallbackFrame(callback, id, stored), g>>),
           \A f : f.op = callback /\ f.id = id => CalledBack(f, g)
    PROVE  \E f : GoodCalls("receive", f, g) /\ f.op = callback
<1>1. ~Idle("receive") /\ Free("receive", "mutex") /\ "receive" \in Thread
      /\ Top("receive").op = "onMessageReceived"
  BY LockingIs DEF Op, NeedsQueueMutex, Thread
<1>2. Alone("receive")
  BY <1>1, TopStands DEF Ready
<1>3. PICK f : f = CallbackFrame(callback, id, stored)
  OBVIOUS
<1>4. f \in Frame /\ f.op = callback /\ f.at = "running" /\ f.id = id /\ f.uses = stored
      /\ f.holds = {}
  BY <1>3, CallbackFrameIs
<1>5. FrameInv(f) /\ ~Holder(f)
  BY <1>4, FrameInvs
<1>6. Calls("receive", f, g)
  BY <1>1, <1>3, <1>4, ContinueDoes DEF Ready
<1>7. StandsOn(f, g) /\ Bottom("receive", g)
  BY <1>4 DEF StandsOn, Bottom, Handlers
<1> QED
  BY <1>1, <1>2, <1>4, <1>5, <1>6, <1>7 DEF GoodCalls

LEMMA HandlerFrameIs ==
    ASSUME NEW op \in Handlers \ Removers, NEW id \in 0..MaxId,
           op # "handleHandshakeFinalConfirmation"
    PROVE  \A g : g = Holding(op, id, IF op = "handleHandshakeRequest" THEN "decided" ELSE "last")
               => g \in Frame /\ g.op = op /\ g.id = id /\ FrameInv(g) /\ Holder(g)
<1>1. PICK at : at = IF op = "handleHandshakeRequest" THEN "decided" ELSE "last"
  OBVIOUS
<1>2. op \in Op /\ at \in Place
  BY <1>1 DEF Op, Place, Handlers, Removers
<1> SUFFICES ASSUME NEW g, g = Holding(op, id, at)
             PROVE  g \in Frame /\ g.op = op /\ g.id = id /\ FrameInv(g) /\ Holder(g)
  BY <1>1
<1>3. g \in Frame /\ g.op = op /\ g.at = at /\ g.id = id /\ g.uses = {} /\ g.holds = {"mutex"}
  BY <1>2, HoldingIs
<1> QED
  BY <1>1, <1>3, FrameInvs

(* Lemma: what the handlers do.                                              *)
LEMMA HandlersDo ==
    ASSUME Ready
    PROVE  /\ \A id \in Id : HandleMessage(id) =>
                 \E f, g : GoodCalls("receive", f, g) /\ f.op = "onMessage"
                           /\ g.op = "handleMessage" /\ g.id = id
           /\ HandleRequest =>
                 \E f, g : GoodCalls("receive", f, g) /\ f.op = "onIncomingConnectionDecision"
                           /\ g.op = "handleHandshakeRequest"
           /\ \A number \in Number, id \in Product : HandleResponse(number, id) =>
                 \E f, g : GoodCalls("receive", f, g) /\ f.op = "onConnected"
                           /\ g.op = "handleHandshakeResponse" /\ g.id = id
           /\ \A number \in Number : ResponseRefused(number) =>
                 Returns("receive") /\ Top("receive").op = "onMessageReceived"
<1>1. (\A id \in Id : id \in 0..MaxId) /\ Product \subseteq Id
  BY ThreadsAssumption DEF Id, Product
<1>2. 0 \in 0..MaxId
  BY ThreadsAssumption
<1>3. ASSUME NEW id \in Id, HandleMessage(id)
      PROVE  \E f, g : GoodCalls("receive", f, g) /\ f.op = "onMessage"
                       /\ g.op = "handleMessage" /\ g.id = id
  <2>1. PICK g : g = Holding("handleMessage", id, "last")
    OBVIOUS
  <2>2. g \in Frame /\ g.op = "handleMessage" /\ g.id = id /\ FrameInv(g)
    <3>1. "handleMessage" \in Handlers \ Removers
      BY DEF Handlers, Removers
    <3> QED
      BY <1>1, <2>1, <3>1, HandlerFrameIs
  <2>3. \A f : f.op = "onMessage" /\ f.id = id => CalledBack(f, g)
    BY <2>2 DEF CalledBack
  <2>4. /\ "handleMessage" \in Handlers \ Removers /\ "onMessage" \in Callback
        /\ {<<"onMessage", id>>} \in SUBSET Object
    BY DEF Handlers, Removers, Callback, Object
  <2>5. /\ Locking("receive", "onMessageReceived")
        /\ Continue("receive", <<CallbackFrame("onMessage", id, {<<"onMessage", id>>}), g>>)
    BY <1>3, <2>1 DEF HandleMessage
  <2>6. \E f : GoodCalls("receive", f, g) /\ f.op = "onMessage"
    BY <1>1, <2>2, <2>3, <2>4, <2>5, HandlerCalls
  <2> QED
    BY <2>2, <2>6
<1>4. ASSUME HandleRequest
      PROVE  \E f, g : GoodCalls("receive", f, g) /\ f.op = "onIncomingConnectionDecision"
                       /\ g.op = "handleHandshakeRequest"
  <2>1. PICK g : g = Holding("handleHandshakeRequest", 0, "decided")
    OBVIOUS
  <2>2. g \in Frame /\ g.op = "handleHandshakeRequest" /\ g.id = 0 /\ FrameInv(g)
    <3>1. "handleHandshakeRequest" \in Handlers \ Removers
      BY DEF Handlers, Removers
    <3> QED
      BY <1>2, <2>1, <3>1, HandlerFrameIs
  <2>3. \A f : f.op = "onIncomingConnectionDecision" /\ f.id = 0 => CalledBack(f, g)
    BY <2>2 DEF CalledBack
  <2>4. /\ "handleHandshakeRequest" \in Handlers \ Removers
        /\ "onIncomingConnectionDecision" \in Callback /\ {} \in SUBSET Object
    BY DEF Handlers, Removers, Callback
  <2>5. /\ Locking("receive", "onMessageReceived")
        /\ Continue("receive", <<CallbackFrame("onIncomingConnectionDecision", 0, {}), g>>)
    BY <1>4, <2>1 DEF HandleRequest
  <2>6. \E f : GoodCalls("receive", f, g) /\ f.op = "onIncomingConnectionDecision"
    BY <1>2, <2>2, <2>3, <2>4, <2>5, HandlerCalls
  <2> QED
    BY <2>2, <2>6
<1>5. ASSUME NEW number \in Number, NEW id \in Product, HandleResponse(number, id)
      PROVE  \E f, g : GoodCalls("receive", f, g) /\ f.op = "onConnected"
                       /\ g.op = "handleHandshakeResponse" /\ g.id = id
  <2>1. PICK g : g = Holding("handleHandshakeResponse", id, "last")
    OBVIOUS
  <2>2. g \in Frame /\ g.op = "handleHandshakeResponse" /\ g.id = id /\ FrameInv(g)
    <3>1. "handleHandshakeResponse" \in Handlers \ Removers
      BY DEF Handlers, Removers
    <3> QED
      BY <1>1, <2>1, <3>1, HandlerFrameIs
  <2>3. \A f : f.op = "onConnected" /\ f.id = id => CalledBack(f, g)
    BY <2>2 DEF CalledBack
  <2>4. /\ "handleHandshakeResponse" \in Handlers \ Removers /\ "onConnected" \in Callback
        /\ {} \in SUBSET Object
    BY DEF Handlers, Removers, Callback
  <2>5. /\ Locking("receive", "onMessageReceived")
        /\ Continue("receive", <<CallbackFrame("onConnected", id, {}), g>>)
    BY <1>5, <2>1 DEF HandleResponse
  <2>6. \E f : GoodCalls("receive", f, g) /\ f.op = "onConnected"
    BY <1>1, <2>2, <2>3, <2>4, <2>5, HandlerCalls
  <2> QED
    BY <2>2, <2>6
<1>6. ASSUME NEW number \in Number, ResponseRefused(number)
      PROVE  Returns("receive") /\ Top("receive").op = "onMessageReceived"
  <2>1. ~Idle("receive") /\ Top("receive").op = "onMessageReceived" /\ "receive" \in Thread
    BY <1>6, LockingIs DEF ResponseRefused, Op, NeedsQueueMutex, Thread
  <2>2. Return("receive")
    BY <1>6 DEF ResponseRefused
  <2> QED
    BY <2>1, <2>2, ContinueDoes DEF Ready
<1> QED
  BY <1>3, <1>4, <1>5, <1>6

LEMMA ConfirmationDoes ==
    ASSUME Ready, NEW id \in Id, HandleFinalConfirmation(id)
    PROVE  \E f, g : /\ g.op = "handleHandshakeFinalConfirmation" /\ g.id = id
                     /\ \/ GoodBecomes("receive", g)
                        \/ GoodCalls("receive", f, g) /\ f.op = "onConnectionEstablished"
<1>1. id \in 0..MaxId /\ "handleHandshakeFinalConfirmation" \in Handlers \ Removers
      /\ "onConnectionEstablished" \in Callback
  BY ThreadsAssumption DEF Id, Handlers, Removers, Callback
<1>2. PICK h : h = Holding("handleHandshakeFinalConfirmation", id, "established")
  OBVIOUS
<1>3. PICK g : g = [Holding("handleHandshakeFinalConfirmation", id, "established")
                       EXCEPT !.uses = {<<"connection", id>>}]
  OBVIOUS
<1>4. h \in Frame /\ h.op = "handleHandshakeFinalConfirmation" /\ h.at = "established"
      /\ h.id = id /\ h.holds = {"mutex"}
  BY <1>1, <1>2, HoldingIs DEF Op, Place
<1>5. g \in Frame /\ g.op = "handleHandshakeFinalConfirmation" /\ g.at = "established"
      /\ g.id = id /\ g.holds = {"mutex"} /\ g.uses = {<<"connection", id>>}
  BY <1>2, <1>3, <1>4 DEF Frame, Object
<1>6. FrameInv(g)
  BY <1>1, <1>5, FrameInvs
<1>7. ~Idle("receive") /\ Free("receive", "mutex") /\ "receive" \in Thread
      /\ Top("receive").op = "onMessageReceived" /\ Locking("receive", "onMessageReceived")
  BY LockingIs DEF HandleFinalConfirmation, Op, NeedsQueueMutex, Thread
<1>8. Alone("receive")
  BY <1>7, TopStands DEF Ready
<1>9. Bottom("receive", g)
  BY <1>5 DEF Bottom, Handlers
<1>10. CASE Continue("receive", <<g>>)
  <2>1. Becomes("receive", g)
    BY <1>5, <1>7, <1>10, ContinueDoes DEF Ready
  <2>2. GoodBecomes("receive", g)
    BY <1>5, <1>6, <1>7, <1>8, <1>9, <2>1 DEF GoodBecomes
  <2> QED
    BY <1>5, <2>2
<1>11. CASE Continue("receive", <<CallbackFrame("onConnectionEstablished", id, {}), g>>)
  <2>1. \A f : f.op = "onConnectionEstablished" /\ f.id = id => CalledBack(f, g)
    BY <1>5 DEF CalledBack
  <2>2. \E f : GoodCalls("receive", f, g) /\ f.op = "onConnectionEstablished"
    BY <1>1, <1>5, <1>6, <1>7, <1>11, <2>1, HandlerCalls
  <2> QED
    BY <1>5, <2>2
<1> QED
  BY <1>3, <1>10, <1>11 DEF HandleFinalConfirmation

(* Lemma: a device that opened the connection is called back once more.      *)
LEMMA FinalConfirmedDoes ==
    ASSUME Ready, FinalConfirmed
    PROVE  /\ ~Idle("receive") /\ Top("receive").op = "handleHandshakeFinalConfirmation"
           /\ Top("receive").at = "established"
           /\ \/ Returns("receive")
              \/ \E f, g : /\ GoodCalls("receive", f, g) /\ f.op = "onConnected"
                           /\ g.op = "handleHandshakeFinalConfirmation"
                           /\ f.id = g.id /\ g.id = Top("receive").id
<1>1. /\ ~Idle("receive") /\ "receive" \in Thread
      /\ Top("receive").op = "handleHandshakeFinalConfirmation"
      /\ Top("receive").at = "established"
  BY DEF FinalConfirmed, At, Idle, Thread
<1>2. FrameInv(Top("receive")) /\ Top("receive") \in Frame
  BY <1>1, TopIs DEF Ready
<1>3. PICK id : id = Top("receive").id
  OBVIOUS
<1>4. id \in 0..MaxId /\ id \in Id
  BY <1>1, <1>2, <1>3 DEF Frame, FrameInv, AtItsPlace
<1>5. CASE Return("receive")
  BY <1>1, <1>5, ContinueDoes DEF Ready
<1>6. CASE Continue("receive", <<CallbackFrame("onConnected", id, {<<"onConnected", id>>}),
                                 Holding("handleHandshakeFinalConfirmation", id, "last")>>)
  <2>1. PICK f, g : f = CallbackFrame("onConnected", id, {<<"onConnected", id>>})
                    /\ g = Holding("handleHandshakeFinalConfirmation", id, "last")
    OBVIOUS
  <2>2. {<<"onConnected", id>>} \in SUBSET Object /\ "onConnected" \in Callback
    BY <1>4 DEF Object, Callback
  <2>3. f \in Frame /\ f.op = "onConnected" /\ f.at = "running" /\ f.id = id
        /\ f.uses = {<<"onConnected", id>>} /\ f.holds = {}
    BY <1>4, <2>1, <2>2, CallbackFrameIs
  <2>4. g \in Frame /\ g.op = "handleHandshakeFinalConfirmation" /\ g.at = "last"
        /\ g.id = id /\ g.uses = {} /\ g.holds = {"mutex"}
    BY <1>4, <2>1, HoldingIs DEF Op, Place
  <2>5. FrameInv(f) /\ ~Holder(f)
    BY <2>2, <2>3, FrameInvs
  <2>6. FrameInv(g) /\ Holder(g)
    BY <1>4, <2>4, FrameInvs DEF Handlers, Removers
  <2>7. CalledBack(f, g)
    BY <2>3, <2>4 DEF CalledBack
  <2>8. Holder(Top("receive"))
    BY <1>1 DEF Holder, Handlers
  <2>9. GoodCalls("receive", f, g)
    BY <1>1, <1>3, <1>6, <2>1, <2>2, <2>3, <2>4, <2>5, <2>6, <2>7, <2>8, CallsBack
  <2> QED
    BY <1>1, <1>3, <2>3, <2>4, <2>9
<1> QED
  BY <1>3, <1>5, <1>6 DEF FinalConfirmed

(* Lemma: what the heartbeat loop does: it returns, goes on or calls back.   *)
LEMMA LoopDoes ==
    ASSUME Ready, NEW f \in Frame, NEW g \in Frame,
           ~Idle("heartbeat"), Top("heartbeat").op = "heartbeatLoop"
    PROVE  /\ Return("heartbeat") => Returns("heartbeat")
           /\ /\ f.op = "heartbeatLoop" /\ FrameInv(f)
              /\ Holder(f) => Free("heartbeat", "mutex") \/ Holder(Top("heartbeat"))
              /\ Continue("heartbeat", <<f>>)
              => GoodBecomes("heartbeat", f)
           /\ /\ f.op \in Callback /\ FrameInv(f) /\ CalledBack(f, g)
              /\ g.op = "heartbeatLoop" /\ FrameInv(g) /\ Holder(Top("heartbeat"))
              /\ Continue("heartbeat", <<f, g>>)
              => GoodCalls("heartbeat", f, g)
<1>1. "heartbeat" \in Thread
  BY DEF Thread
<1> QED
  BY <1>1, ContinueDoes, GoesOn, CallsBack DEF Ready, Callback

LEMMA LoopStepsDo ==
    ASSUME Ready, heartbeats \subseteq Id
    PROVE  /\ LoopCheck =>
                 \/ Returns("heartbeat") /\ stopHeartbeat
                 \/ \E f : GoodBecomes("heartbeat", f) /\ f.op = "heartbeatLoop"
           /\ \A expired \in SUBSET Id : LoopTimeouts(expired) =>
                 \E f : GoodBecomes("heartbeat", f) /\ f.op = "heartbeatLoop"
           /\ LoopBeats => \E f : GoodBecomes("heartbeat", f) /\ f.op = "heartbeatLoop"
           /\ LoopOver => \E f : GoodBecomes("heartbeat", f) /\ f.op = "heartbeatLoop"
<1>1. ASSUME LoopCheck
      PROVE  \/ Returns("heartbeat") /\ stopHeartbeat
             \/ \E f : GoodBecomes("heartbeat", f) /\ f.op = "heartbeatLoop"
  <2>1. /\ ~Idle("heartbeat") /\ Top("heartbeat").op = "heartbeatLoop"
        /\ Top("heartbeat").at = "check" /\ Top("heartbeat") \in Frame
        /\ FrameInv(Top("heartbeat"))
    BY <1>1, TopIs DEF LoopCheck, At, Idle, Ready, Thread
  <2>2. PICK f : f = [Top("heartbeat") EXCEPT !.at = "lock"]
    OBVIOUS
  <2>3. f \in Frame /\ f.op = "heartbeatLoop" /\ f.at = "lock" /\ f.uses = {} /\ f.holds = {}
    <3>1. f \in Frame /\ f.op = "heartbeatLoop" /\ f.at = "lock"
          /\ f.uses = Top("heartbeat").uses /\ f.holds = Top("heartbeat").holds
      BY <2>1, <2>2, MovedFrameIs DEF Place
    <3>2. Top("heartbeat").uses = {} /\ Top("heartbeat").holds = {}
      BY <2>1 DEF FrameInv, UsesInv, Holder, Callback, Removers, Handlers
    <3> QED
      BY <3>1, <3>2
  <2>4. FrameInv(f) /\ ~Holder(f)
    BY <2>3, FrameInvs
  <2>5. CASE stopHeartbeat /\ Return("heartbeat")
    BY <2>1, <2>3, <2>5, LoopDoes
  <2>6. CASE Continue("heartbeat", <<f>>)
    BY <2>1, <2>3, <2>4, <2>6, LoopDoes
  <2> QED
    BY <1>1, <2>2, <2>5, <2>6 DEF LoopCheck
<1>2. ASSUME NEW expired \in SUBSET Id, LoopTimeouts(expired)
      PROVE  \E f : GoodBecomes("heartbeat", f) /\ f.op = "heartbeatLoop"
  <2>1. /\ ~Idle("heartbeat") /\ Top("heartbeat").op = "heartbeatLoop"
        /\ Free("heartbeat", "mutex")
    BY <1>2, LockingIs DEF LoopTimeouts, Op, NeedsQueueMutex, Thread
  <2>2. PICK h : h = Holding("heartbeatLoop", 0, "failures")
    OBVIOUS
  <2>3. PICK f : f = [Holding("heartbeatLoop", 0, "failures")
                         EXCEPT !.todo = expired, !.uses = OutsideTheLoop]
    OBVIOUS
  <2>4. h \in Frame /\ h.op = "heartbeatLoop" /\ h.at = "failures" /\ h.uses = {}
        /\ h.holds = {"mutex"}
    BY <2>2, HoldingIs, ThreadsAssumption DEF Op, Place
  <2>5. f \in Frame /\ f.op = "heartbeatLoop" /\ f.at = "failures" /\ f.uses = {}
        /\ f.holds = {"mutex"}
    BY <2>2, <2>3, <2>4 DEF Frame, OutsideTheLoop
  <2>6. FrameInv(f)
    BY <2>5, FrameInvs
  <2>7. Continue("heartbeat", <<f>>)
    BY <1>2, <2>3 DEF LoopTimeouts
  <2> QED
    BY <2>1, <2>5, <2>6, <2>7, LoopDoes
<1>3. ASSUME LoopBeats
      PROVE  \E f : GoodBecomes("heartbeat", f) /\ f.op = "heartbeatLoop"
  <2>1. /\ ~Idle("heartbeat") /\ Top("heartbeat").op = "heartbeatLoop"
        /\ Top("heartbeat").at = "failures" /\ Top("heartbeat") \in Frame
        /\ FrameInv(Top("heartbeat"))
    BY <1>3, TopIs DEF LoopBeats, At, Idle, Ready, Thread
  <2>2. PICK f : f = [Top("heartbeat")
                         EXCEPT !.at = "beats", !.todo = heartbeats, !.uses = {}]
    OBVIOUS
  <2>3. f \in Frame /\ f.op = "heartbeatLoop" /\ f.at = "beats" /\ f.holds = {"mutex"}
    <3>1. f.op = "heartbeatLoop" /\ f.at = "beats" /\ f.holds = Top("heartbeat").holds
          /\ f \in Frame
      BY <2>1, <2>2 DEF Frame, Place
    <3>2. Top("heartbeat").holds = {"mutex"}
      BY <2>1 DEF FrameInv, Holder
    <3> QED
      BY <3>1, <3>2
  <2>4. FrameInv(f) /\ Holder(Top("heartbeat"))
    BY <2>1, <2>3, FrameInvs DEF Holder
  <2>5. Continue("heartbeat", <<f>>)
    BY <1>3, <2>2 DEF LoopBeats
  <2> QED
    BY <2>1, <2>3, <2>4, <2>5, LoopDoes
<1>4. ASSUME LoopOver
      PROVE  \E f : GoodBecomes("heartbeat", f) /\ f.op = "heartbeatLoop"
  <2>1. ~Idle("heartbeat") /\ Top("heartbeat").op = "heartbeatLoop"
    BY <1>4 DEF LoopOver, At, Idle
  <2>2. PICK f : f = NewFrame("heartbeatLoop", "check", 0)
    OBVIOUS
  <2>3. f \in Frame /\ f.op = "heartbeatLoop" /\ f.at = "check" /\ f.uses = {} /\ f.holds = {}
    BY <2>2, NewFrameIs, ThreadsAssumption DEF Op, Place
  <2>4. FrameInv(f) /\ ~Holder(f)
    BY <2>3, FrameInvs
  <2>5. Continue("heartbeat", <<f>>)
    BY <1>4, <2>2 DEF LoopOver
  <2> QED
    BY <2>1, <2>3, <2>4, <2>5, LoopDoes
<1> QED
  BY <1>1, <1>2, <1>3, <1>4

(* Lemma: the loop calls back those whose handshake or heartbeat is overdue. *)
LEMMA LoopCallsDo ==
    ASSUME Ready, NEW id \in Id
    PROVE  /\ LoopFailure(id) =>
                 \E f, g : GoodCalls("heartbeat", f, g) /\ f.op = "onFailure"
                           /\ g.op = "heartbeatLoop"
           /\ LoopMissed(id) =>
                 \E f, g : GoodCalls("heartbeat", f, g) /\ f.op = "onMissed"
                           /\ g.op = "heartbeatLoop"
<1>1. /\ id \in 0..MaxId /\ BeatOf(id) \in SUBSET Object
      /\ BeatOf(id) \cup PositionIn("heartbeats") \in SUBSET Object
  BY ThreadsAssumption DEF Id, BeatOf, PositionIn, Object, Position
<1>2. PICK top : top = Top("heartbeat")
  OBVIOUS
<1>3. ASSUME LoopFailure(id)
      PROVE  \E f, g : GoodCalls("heartbeat", f, g) /\ f.op = "onFailure"
                       /\ g.op = "heartbeatLoop"
  <2>1. /\ ~Idle("heartbeat") /\ top.op = "heartbeatLoop" /\ top.at = "failures"
        /\ top \in Frame /\ FrameInv(top)
    BY <1>2, <1>3, TopIs DEF LoopFailure, At, Idle, Ready, Thread
  <2>2. PICK f, g : f = CallbackFrame("onFailure", id, {})
                    /\ g = [top EXCEPT !.todo = @ \ {id}]
    OBVIOUS
  <2>3. f \in Frame /\ f.op = "onFailure" /\ f.at = "running" /\ f.uses = {} /\ f.holds = {}
    BY <1>1, <2>2, CallbackFrameIs DEF Callback
  <2>4. FrameInv(f) /\ f.op \in Callback
    BY <2>3, FrameInvs DEF Callback
  <2>5. g \in Frame /\ g.op = top.op /\ g.at = top.at /\ g.id = top.id /\ g.uses = top.uses
        /\ g.holds = top.holds
    <3>1. top.todo \ {id} \in SUBSET Id
      BY <2>1 DEF Frame
    <3> QED
      BY <2>1, <2>2, <3>1, OtherTodoIs
  <2>6. FrameInv(g) /\ Holder(top) /\ g.op = "heartbeatLoop"
    BY <2>1, <2>5, SameButTodo DEF Holder
  <2>7. CalledBack(f, g)
    BY <2>1, <2>3, <2>5 DEF CalledBack
  <2>8. Continue("heartbeat", <<f, g>>)
    BY <1>2, <1>3, <2>2 DEF LoopFailure
  <2>9. GoodCalls("heartbeat", f, g)
    BY <1>2, <2>1, <2>3, <2>4, <2>5, <2>6, <2>7, <2>8, LoopDoes
  <2> QED
    BY <2>3, <2>6, <2>9
<1>4. ASSUME LoopMissed(id)
      PROVE  \E f, g : GoodCalls("heartbeat", f, g) /\ f.op = "onMissed"
                       /\ g.op = "heartbeatLoop"
  <2>1. /\ ~Idle("heartbeat") /\ top.op = "heartbeatLoop" /\ top.at = "beats"
        /\ top \in Frame /\ FrameInv(top)
    BY <1>2, <1>4, TopIs DEF LoopMissed, At, Idle, Ready, Thread
  <2>2. PICK f, g : f = CallbackFrame("onMissed", id, BeatOf(id))
                    /\ g = [top EXCEPT !.todo = @ \ {id},
                                       !.uses = BeatOf(id) \cup PositionIn("heartbeats")]
    OBVIOUS
  <2>3. f \in Frame /\ f.op = "onMissed" /\ f.at = "running" /\ f.uses = BeatOf(id)
        /\ f.holds = {} /\ f.id = id
    BY <1>1, <2>2, CallbackFrameIs DEF Callback
  <2>4. FrameInv(f) /\ f.op \in Callback
    BY <2>3, FrameInvs DEF Callback
  <2>5. g \in Frame /\ g.op = "heartbeatLoop" /\ g.at = "beats"
        /\ g.uses = BeatOf(id) \cup PositionIn("heartbeats") /\ g.holds = top.holds
    BY <1>1, <2>1, <2>2 DEF Frame
  <2>6. Holder(top) /\ top.holds = {"mutex"}
    BY <2>1 DEF Holder, FrameInv
  <2>7. FrameInv(g)
    BY <2>5, <2>6, FrameInvs
  <2>8. CalledBack(f, g)
    BY <2>3, <2>5 DEF CalledBack
  <2>9. Continue("heartbeat", <<f, g>>)
    BY <1>2, <1>4, <2>2 DEF LoopMissed
  <2>10. GoodCalls("heartbeat", f, g)
    BY <1>2, <2>1, <2>3, <2>4, <2>5, <2>6, <2>7, <2>8, <2>9, LoopDoes
  <2> QED
    BY <2>3, <2>5, <2>10
<1> QED
  BY <1>3, <1>4

-----------------------------------------------------------------------------
(* Plain steps: those in which no connection is removed and neither shutdown *)
(* nor the destructor goes on.                                               *)

PlainTop(t) == ~Idle(t) /\ Top(t).op \notin Removers \cup {"shutdown", "destructor"}
PlainFrame(f) ==
    /\ f.op \notin Removers \cup {"destructor"}
    /\ f.op = "shutdown" => f.at = "begin"

Plain(t) ==
    \/ PlainTop(t) /\ Returns(t)
    \/ PlainTop(t) /\ \E f : GoodBecomes(t, f) /\ PlainFrame(f)
    \/ PlainTop(t) /\ \E f, g : GoodCalls(t, f, g) /\ PlainFrame(f) /\ PlainFrame(g)
    \/ \E f : GoodBegins(t, f) /\ PlainFrame(f)

LEMMA PlainOperations ==
    ASSUME Ready, NEW t \in Thread
    PROVE  /\ CallbackReturns(t) => Plain(t)
           /\ CallInVain(t) => Plain(t)
           /\ Connect(t) => Plain(t)
           /\ SetRetransmissionConfig(t) => Plain(t)
           /\ \A handler : \A op \in OfConnection, id \in Id :
                 SetHandler(t, op, handler, id) => Plain(t)
           /\ \A op \in Entry : CallbackCalls(t, op) => Plain(t)
<1>1. ASSUME ~Idle(t),
             Top(t).op \in Callback \cup {"call", "onMessageReceived", "setRetransmissionConfig"}
      PROVE  PlainTop(t)
  BY <1>1 DEF PlainTop, Callback, Removers
<1>2. CallbackReturns(t) => Plain(t)
  BY <1>1, ReturningSteps DEF Plain, Returns
<1>3. CallInVain(t) => Plain(t)
  BY <1>1, ReturningSteps DEF Plain, Returns
<1>4. Connect(t) => Plain(t)
  BY <1>1, ReturningSteps DEF Plain, Returns
<1>5. SetRetransmissionConfig(t) => Plain(t)
  BY <1>1, ReturningSteps DEF Plain, Returns
<1>6. ASSUME NEW op \in OfConnection, NEW handler, NEW id \in Id, SetHandler(t, op, handler, id)
      PROVE  Plain(t)
  <2>1. Returns(t) /\ Top(t).op = "call"
    BY <1>6, ReturningSteps
  <2> QED
    BY <1>1, <2>1 DEF Plain, Returns
<1>7. ASSUME NEW op \in Entry, CallbackCalls(t, op)
      PROVE  Plain(t)
  <2>1. PICK f, g :
            /\ GoodCalls(t, f, g) /\ f.op = op /\ (op = "shutdown" => f.at = "begin")
            /\ Top(t).op \in Callback /\ g.op = Top(t).op
            /\ op = "shutdown" => <<op, "device">> \in MayCall[g.op]
    BY <1>7, CallbackCallsDoes
  <2>3. PlainFrame(f) /\ PlainFrame(g)
    BY <2>1 DEF PlainFrame, Entry, Callback, Removers
  <2>4. PlainTop(t)
    BY <1>1, <2>1 DEF GoodCalls, Calls
  <2> QED
    BY <2>1, <2>3, <2>4 DEF Plain
<1> QED
  BY <1>2, <1>3, <1>4, <1>5, <1>6, <1>7

LEMMA PlainHandlers ==
    ASSUME Ready
    PROVE  /\ HandleRequest => Plain("receive")
           /\ RequestDecided => Plain("receive")
           /\ HandlerReturns => Plain("receive")
           /\ FinalConfirmed => Plain("receive")
           /\ \A id \in Id :
                 /\ HandleMessage(id) => Plain("receive")
                 /\ HandleFinalConfirmation(id) => Plain("receive")
           /\ \A number \in Number :
                 /\ ResponseRefused(number) => Plain("receive")
                 /\ \A id \in Product : HandleResponse(number, id) => Plain("receive")
<1>1. "receive" \in Thread
  BY DEF Thread
<1>2. ASSUME Locking("receive", "onMessageReceived")
      PROVE  PlainTop("receive")
  BY <1>1, <1>2, LockingIs DEF PlainTop, Op, NeedsQueueMutex, Removers
<1>3. ASSUME NEW f, f.op \in Callback
      PROVE  PlainFrame(f)
  BY <1>3 DEF PlainFrame, Callback, Removers
<1>4. ASSUME NEW g, g.op \in Handlers \ Removers
      PROVE  PlainFrame(g)
  BY <1>4 DEF PlainFrame, Handlers, Removers
<1>5. HandleRequest => Plain("receive")
  <2> HAVE HandleRequest
  <2>1. PICK f, g : GoodCalls("receive", f, g) /\ f.op = "onIncomingConnectionDecision"
                    /\ g.op = "handleHandshakeRequest"
    BY HandlersDo
  <2>2. PlainFrame(f) /\ PlainFrame(g)
    BY <1>3, <1>4, <2>1 DEF Callback, Handlers, Removers
  <2>3. PlainTop("receive")
    BY <1>2 DEF HandleRequest
  <2> QED
    BY <2>1, <2>2, <2>3 DEF Plain
<1>6. ASSUME ~Idle("receive"), Top("receive").at \in {"decided", "last"}, Return("receive")
      PROVE  Plain("receive")
  <2>1. Returns("receive")
    BY <1>1, <1>6, ContinueDoes DEF Ready
  <2>2. FrameInv(Top("receive"))
    BY <1>1, <1>6, TopIs DEF Ready
  <2>3. PlainTop("receive")
    BY <1>6, <2>2 DEF PlainTop, FrameInv, AtItsPlace, Removers
  <2> QED
    BY <2>1, <2>3 DEF Plain
<1>7. RequestDecided => Plain("receive")
  BY <1>6 DEF RequestDecided, At, Idle
<1>8. HandlerReturns => Plain("receive")
  BY <1>6 DEF HandlerReturns
<1>9. ASSUME NEW id \in Id, HandleMessage(id)
      PROVE  Plain("receive")
  <2>1. PICK f, g : GoodCalls("receive", f, g) /\ f.op = "onMessage" /\ g.op = "handleMessage"
    BY <1>9, HandlersDo
  <2>2. PlainFrame(f) /\ PlainFrame(g)
    BY <1>3, <1>4, <2>1 DEF Callback, Handlers, Removers
  <2>3. PlainTop("receive")
    BY <1>2, <1>9 DEF HandleMessage
  <2> QED
    BY <2>1, <2>2, <2>3 DEF Plain
<1>10. ASSUME NEW number \in Number, NEW id \in Product, HandleResponse(number, id)
       PROVE  Plain("receive")
  <2>1. PICK f, g : GoodCalls("receive", f, g) /\ f.op = "onConnected"
                    /\ g.op = "handleHandshakeResponse"
    BY <1>10, HandlersDo
  <2>2. PlainFrame(f) /\ PlainFrame(g)
    BY <1>3, <1>4, <2>1 DEF Callback, Handlers, Removers
  <2>3. PlainTop("receive")
    BY <1>2, <1>10 DEF HandleResponse
  <2> QED
    BY <2>1, <2>2, <2>3 DEF Plain
<1>11. ASSUME NEW id \in Id, HandleFinalConfirmation(id)
       PROVE  Plain("receive")
  <2>1. PICK f, g : /\ g.op = "handleHandshakeFinalConfirmation"
                    /\ \/ GoodBecomes("receive", g)
                       \/ GoodCalls("receive", f, g) /\ f.op = "onConnectionEstablished"
    BY <1>11, ConfirmationDoes
  <2>2. PlainFrame(g) /\ (f.op = "onConnectionEstablished" => PlainFrame(f))
    BY <1>3, <1>4, <2>1 DEF Callback, Handlers, Removers
  <2>3. PlainTop("receive")
    BY <1>2, <1>11 DEF HandleFinalConfirmation
  <2> QED
    BY <2>1, <2>2, <2>3 DEF Plain
<1>12. ASSUME NEW number \in Number, ResponseRefused(number)
       PROVE  Plain("receive")
  <2>1. Returns("receive")
    BY <1>12, HandlersDo
  <2>2. PlainTop("receive")
    BY <1>2, <1>12 DEF ResponseRefused
  <2> QED
    BY <2>1, <2>2 DEF Plain
<1>13. FinalConfirmed => Plain("receive")
  <2> HAVE FinalConfirmed
  <2>1. PlainTop("receive")
    BY FinalConfirmedDoes DEF PlainTop, Removers
  <2>2. ASSUME NEW f, NEW g, f.op = "onConnected", g.op = "handleHandshakeFinalConfirmation"
        PROVE  PlainFrame(f) /\ PlainFrame(g)
    BY <1>3, <1>4, <2>2 DEF Callback, Handlers, Removers
  <2> QED
    BY <2>1, <2>2, FinalConfirmedDoes DEF Plain
<1> QED
  BY <1>5, <1>7, <1>8, <1>9, <1>10, <1>11, <1>12, <1>13

LEMMA PlainLoop ==
    ASSUME Ready, heartbeats \subseteq Id
    PROVE  /\ LoopCheck => Plain("heartbeat")
           /\ LoopBeats => Plain("heartbeat")
           /\ LoopOver => Plain("heartbeat")
           /\ \A expired \in SUBSET Id : LoopTimeouts(expired) => Plain("heartbeat")
           /\ \A id \in Id : /\ LoopFailure(id) => Plain("heartbeat")
                             /\ LoopMissed(id) => Plain("heartbeat")
<1>1. ASSUME ~Idle("heartbeat"), Top("heartbeat").op = "heartbeatLoop"
      PROVE  PlainTop("heartbeat")
  BY <1>1 DEF PlainTop, Removers
<1>2. ASSUME PlainTop("heartbeat"),
             \E f : GoodBecomes("heartbeat", f) /\ f.op = "heartbeatLoop"
      PROVE  Plain("heartbeat")
  BY <1>2 DEF Plain, PlainFrame, Removers
<1>3. LoopCheck => Plain("heartbeat")
  <2> HAVE LoopCheck
  <2>1. PlainTop("heartbeat")
    BY <1>1 DEF LoopCheck, At, Idle
  <2> QED
    BY <1>2, <2>1, LoopStepsDo DEF Plain
<1>4. LoopBeats => Plain("heartbeat")
  <2> HAVE LoopBeats
  <2>1. PlainTop("heartbeat")
    BY <1>1 DEF LoopBeats, At, Idle
  <2> QED
    BY <1>2, <2>1, LoopStepsDo
<1>5. LoopOver => Plain("heartbeat")
  <2> HAVE LoopOver
  <2>1. PlainTop("heartbeat")
    BY <1>1 DEF LoopOver, At, Idle
  <2> QED
    BY <1>2, <2>1, LoopStepsDo
<1>6. ASSUME NEW expired \in SUBSET Id, LoopTimeouts(expired)
      PROVE  Plain("heartbeat")
  <2>1. PlainTop("heartbeat")
    BY <1>1, <1>6 DEF LoopTimeouts, Locking, At, Idle
  <2> QED
    BY <1>2, <1>6, <2>1, LoopStepsDo
<1>7. ASSUME NEW id \in Id, LoopFailure(id)
      PROVE  Plain("heartbeat")
  <2>1. PlainTop("heartbeat")
    BY <1>1, <1>7 DEF LoopFailure, At, Idle
  <2>2. PICK f, g : GoodCalls("heartbeat", f, g) /\ f.op = "onFailure" /\ g.op = "heartbeatLoop"
    BY <1>7, LoopCallsDo
  <2>3. PlainFrame(f) /\ PlainFrame(g)
    BY <2>2 DEF PlainFrame, Removers
  <2> QED
    BY <2>1, <2>2, <2>3 DEF Plain
<1>8. ASSUME NEW id \in Id, LoopMissed(id)
      PROVE  Plain("heartbeat")
  <2>1. PlainTop("heartbeat")
    BY <1>1, <1>8 DEF LoopMissed, At, Idle
  <2>2. PICK f, g : GoodCalls("heartbeat", f, g) /\ f.op = "onMissed" /\ g.op = "heartbeatLoop"
    BY <1>8, LoopCallsDo
  <2>3. PlainFrame(f) /\ PlainFrame(g)
    BY <2>2 DEF PlainFrame, Removers
  <2> QED
    BY <2>1, <2>2, <2>3 DEF Plain
<1> QED
  BY <1>3, <1>4, <1>5, <1>6, <1>7, <1>8

LEMMA PlainBeginnings ==
    ASSUME Ready, Started
    PROVE  /\ Initialize => Plain("heartbeat")
           /\ ReceiveBegin => Plain("receive")
           /\ \A op \in Entry : ApplicationCalls(op) => Plain("application")
           /\ \A t \in {"receive", "session"} : Delivered(t) => Plain(t)
<1>1. Initialize => Plain("heartbeat")
  BY BeginningSteps DEF Plain, PlainFrame, Removers
<1>2. ReceiveBegin => Plain("receive")
  BY BeginningSteps DEF Plain, PlainFrame, Removers
<1>3. ASSUME NEW op \in Entry, ApplicationCalls(op)
      PROVE  Plain("application")
  <2>1. PICK f : GoodBegins("application", f) /\ f.op = op /\ (op = "shutdown" => f.at = "begin")
    BY <1>3, BeginningSteps
  <2> QED
    BY <2>1 DEF Plain, PlainFrame, Entry, Removers
<1>4. ASSUME NEW t \in {"receive", "session"}, Delivered(t)
      PROVE  Plain(t)
  BY <1>4, BeginningSteps DEF Plain, PlainFrame, Removers
<1> QED
  BY <1>1, <1>2, <1>3, <1>4

(* A plain step, with what else it does: it begins no thread that has been   *)
(* stopped, and a connection becomes active only by the first frame of the   *)
(* receiving thread, which then gets the mutex.                              *)
PlainStep(t) ==
    /\ Plain(t)
    /\ UNCHANGED <<flags, members, told>>
    /\ Idle(t) => /\ t # "heartbeat"
                  /\ t = "receive" => members \in {"alive", "tablesGone"}
                  /\ t = "session" => members \in {"alive", "tablesGone", "receiverStopped"}
    /\ \A id \in Id : Active(id) => Active(id)' \/ connections'[id] = "ACCEPTED"
    /\ \/ \A id \in Id : Active(id)' => Active(id)
       \/ t = "receive" /\ Locking(t, "onMessageReceived")

SpecialStep(t) ==
    \/ ShutdownBegin(t) \/ ShutdownJoin(t) \/ ShutdownLocked(t) \/ ShutdownEnd(t)
    \/ \E id \in Id : ShutdownEach(t, id)
    \/ \E op \in Removers : RemoveEnd(t, op)
    \/ \E op \in Removers, id \in Id : RemoveBegin(t, op, id)

Tables ==
    /\ connections \in [Id -> {"none", "PENDING", "ACCEPTED", "ACTIVE"}]
    /\ \A number \in Number : connections[number] \in {"none", "PENDING"}
    /\ heartbeats \subseteq Id /\ opened \subseteq Id
    /\ nextConnectionId \in 1..(MaxNumber + 1)
    /\ initialized \in BOOLEAN /\ shutdownRequested \in BOOLEAN /\ stopHeartbeat \in BOOLEAN
    /\ members \in {"alive", "tablesGone", "receiverStopped", "sessionStopped", "gone", "crashed"}
    /\ dangling \in BOOLEAN
    /\ told \in [Id -> Nat]

(* Lemma: the numbers this device hands out are not the products.            *)
LEMMA IdsAre ==
    /\ Number \subseteq Id /\ Product \subseteq Id /\ Id \subseteq 0..MaxId
    /\ \A number \in Number, id \in Product : number # id
    /\ MaxNumber \in Nat /\ MaxId \in Nat
BY ThreadsAssumption DEF Number, Product, Id

(* Lemma: in a plain operation of a thread no connection becomes active and  *)
(* none that is active goes.                                                 *)
LEMMA OperationIs ==
    ASSUME Ready, Tables, NEW t \in Thread, OperationStep(t)
    PROVE  PlainStep(t) \/ SpecialStep(t)
<1>1. CASE CallbackReturns(t) \/ CallInVain(t) \/ SetRetransmissionConfig(t)
  <2>1. Plain(t) /\ ~Idle(t)
    BY <1>1, PlainOperations, ReturningSteps DEF Returns
  <2>2. UNCHANGED <<connections, flags, members, told>>
    BY <1>1 DEF CallbackReturns, CallInVain, SetRetransmissionConfig, tables
  <2> QED
    BY <2>1, <2>2 DEF PlainStep, Active
<1>2. CASE Connect(t)
  <2>1. Plain(t) /\ ~Idle(t)
    BY <1>2, PlainOperations, ReturningSteps DEF Returns
  <2>2. /\ UNCHANGED <<flags, members, told>> /\ nextConnectionId <= MaxNumber
        /\ connections' = [connections EXCEPT ![nextConnectionId] = "PENDING"]
    BY <1>2 DEF Connect, NumbersLeft
  <2>3. nextConnectionId \in Number
    BY <2>2 DEF Tables, Number
  <2>4. /\ \A id \in Id : connections'[id] = IF id = nextConnectionId THEN "PENDING"
                                            ELSE connections[id]
        /\ ~Active(nextConnectionId)
    BY <2>2, <2>3 DEF Tables, Active
  <2> QED
    BY <2>1, <2>2, <2>4 DEF PlainStep, Active
<1>3. ASSUME NEW op \in OfConnection, NEW handler, NEW id \in Id, SetHandler(t, op, handler, id)
      PROVE  PlainStep(t)
  <2>1. Plain(t) /\ ~Idle(t)
    BY <1>3, PlainOperations, ReturningSteps DEF Returns
  <2>2. UNCHANGED <<connections, flags, members, told>>
    BY <1>3 DEF SetHandler, tables
  <2> QED
    BY <2>1, <2>2 DEF PlainStep, Active
<1>4. ASSUME NEW id \in Id, \/ SetHandler(t, "setOnMessageHandler", "onMessage", id)
                            \/ SetHandler(t, "setOnDisconnected", "onDisconnected", id)
      PROVE  PlainStep(t)
  BY <1>3, <1>4 DEF OfConnection
<1>5. CASE \/ ShutdownBegin(t) \/ ShutdownJoin(t) \/ ShutdownLocked(t) \/ ShutdownEnd(t)
           \/ \E id \in Id : ShutdownEach(t, id)
           \/ \E op \in {"disconnect", "handleDisconnectMessage"} :
                 RemoveEnd(t, op) \/ \E id \in Id : RemoveBegin(t, op, id)
  BY <1>5 DEF SpecialStep, Removers
<1> QED
  BY <1>1, <1>2, <1>4, <1>5 DEF OperationStep

(* A worker may meet what is destroyed. *)
Crash ==
    /\ members # "alive" /\ members' = "crashed"
    /\ UNCHANGED <<tables, flags, stack, dangling, told>>

LEMMA NextIs ==
    ASSUME Ready, Started, Tables, Next
    PROVE  \/ UNCHANGED vars
           \/ Crash
           \/ /\ members # "crashed"
              /\ \/ \E t \in Thread : PlainStep(t)
                 \/ \E t \in Thread : SpecialStep(t)
                 \/ Initialize \/ DestructorBegin
                 \/ DestroyTables \/ DestroyPhysicalLayer \/ DestroySessionManager \/ DestroyRest
<1> DEFINE Steps ==
        \/ \E t \in Thread : PlainStep(t)
        \/ \E t \in Thread : SpecialStep(t)
        \/ Initialize \/ DestructorBegin
        \/ DestroyTables \/ DestroyPhysicalLayer \/ DestroySessionManager \/ DestroyRest
<1>1. ASSUME Asked
      PROVE  Steps
  <2>1. CASE ReceiveBegin
    <3>1. Plain("receive") /\ UNCHANGED <<connections, flags, members, told>>
          /\ members \in {"alive", "tablesGone"}
      BY <2>1, PlainBeginnings DEF ReceiveBegin, tables
    <3>2. PlainStep("receive")
      BY <3>1 DEF PlainStep, Active
    <3> QED
      BY <3>2 DEF Thread
  <2>2. ASSUME NEW op \in Entry, ApplicationCalls(op)
        PROVE  PlainStep("application")
    <3>1. Plain("application") /\ UNCHANGED <<connections, flags, members, told>>
      BY <2>2, PlainBeginnings DEF ApplicationCalls, tables
    <3> QED
      BY <3>1 DEF PlainStep, Active
  <2>3. ASSUME NEW op \in Entry, NEW t \in Thread, CallbackCalls(t, op)
        PROVE  PlainStep(t)
    <3>1. Plain(t) /\ ~Idle(t) /\ UNCHANGED <<connections, flags, members, told>>
      BY <2>3, PlainOperations DEF CallbackCalls, tables
    <3> QED
      BY <3>1 DEF PlainStep, Active
  <2>4. ASSUME NEW t \in {"receive", "session"}, Delivered(t)
        PROVE  PlainStep(t)
    <3>1. Plain(t) /\ UNCHANGED <<connections, flags, members, told>>
          /\ (members \in {"alive", "tablesGone"} \/ (t = "session" /\ members = "receiverStopped"))
      BY <2>4, PlainBeginnings DEF Delivered, tables
    <3> QED
      BY <3>1 DEF PlainStep, Active
  <2>5. "application" \in Thread /\ {"receive", "session"} \subseteq Thread
    BY DEF Thread
  <2> QED
    BY <1>1, <2>1, <2>2, <2>3, <2>4, <2>5 DEF Asked
<1>2. ASSUME NEW t \in Thread, OperationStep(t)
      PROVE  \E u \in Thread : PlainStep(u) \/ SpecialStep(u)
  BY <1>2, OperationIs
<1>3. ASSUME ApplicationStep
      PROVE  Steps
  BY <1>2, <1>3 DEF ApplicationStep, Thread
<1>4. ASSUME SessionStep
      PROVE  Steps
  BY <1>2, <1>4 DEF SessionStep, Thread
<1>5. ASSUME ReceiveStep
      PROVE  Steps
  <2>1. CASE OperationStep("receive")
    BY <1>2, <2>1 DEF Thread
  <2>2. CASE HandleRequest \/ HandlerReturns \/ FinalConfirmed
    <3>1. /\ Plain("receive") /\ ~Idle("receive")
          /\ UNCHANGED <<connections, flags, members, told>>
      BY <2>2, PlainHandlers
      DEF HandleRequest, HandlerReturns, FinalConfirmed, Locking, At, Idle, tables
    <3>2. PlainStep("receive")
      BY <3>1 DEF PlainStep, Active
    <3> QED
      BY <3>2 DEF Thread
  <2>3. CASE RequestDecided
    <3>1. Plain("receive") /\ ~Idle("receive") /\ UNCHANGED <<flags, members, told>>
      BY <2>3, PlainHandlers DEF RequestDecided, At, Idle
    <3>2. \A id \in Id : connections'[id] = connections[id] \/ connections'[id] = "ACCEPTED"
      BY <2>3 DEF RequestDecided, Accept, tables, Tables
    <3>3. PlainStep("receive")
      BY <3>1, <3>2 DEF PlainStep, Active
    <3> QED
      BY <3>3 DEF Thread
  <2>4. ASSUME NEW id \in Id, HandleMessage(id) \/ HandleFinalConfirmation(id)
        PROVE  PlainStep("receive")
    <3>1. /\ Plain("receive") /\ ~Idle("receive") /\ UNCHANGED <<flags, members, told>>
          /\ Locking("receive", "onMessageReceived")
      BY <2>4, PlainHandlers
      DEF HandleMessage, HandleFinalConfirmation, Locking, At, Idle
    <3>2. \A c \in Id : connections'[c] = connections[c] \/ connections'[c] = "ACTIVE"
      BY <2>4 DEF HandleMessage, HandleFinalConfirmation, tables, Tables
    <3> QED
      BY <3>1, <3>2 DEF PlainStep, Active
  <2>5. ASSUME NEW number \in Number,
               ResponseRefused(number) \/ \E id \in Product : HandleResponse(number, id)
        PROVE  PlainStep("receive")
    <3>1. /\ Plain("receive") /\ ~Idle("receive") /\ UNCHANGED <<flags, members, told>>
          /\ Locking("receive", "onMessageReceived")
      BY <2>5, PlainHandlers DEF HandleResponse, ResponseRefused, Locking, At, Idle
    <3>2. \A c \in Id : \/ connections'[c] = connections[c] \/ connections'[c] = "ACTIVE"
                        \/ c = number
      BY <2>5 DEF HandleResponse, ResponseRefused, Tables
    <3>3. ~Active(number)
      BY DEF Tables, Active
    <3> QED
      BY <3>1, <3>2, <3>3 DEF PlainStep, Active
  <2>6. Product \subseteq Id
    BY IdsAre
  <2> QED
    BY <1>5, <2>1, <2>2, <2>3, <2>4, <2>5, <2>6 DEF ReceiveStep, Thread
<1>6. ASSUME HeartbeatStep
      PROVE  Steps
  <2>1. CASE OperationStep("heartbeat")
    BY <1>2, <2>1 DEF Thread
  <2>2. CASE LoopCheck \/ LoopBeats \/ LoopOver
             \/ \E id \in Id : LoopFailure(id) \/ LoopMissed(id)
    <3>1. Plain("heartbeat") /\ ~Idle("heartbeat")
          /\ UNCHANGED <<connections, flags, members, told>>
      BY <2>2, PlainLoop
      DEF LoopCheck, LoopBeats, LoopOver, LoopFailure, LoopMissed, At, Idle, tables, Tables
    <3>2. PlainStep("heartbeat")
      BY <3>1 DEF PlainStep, Active
    <3> QED
      BY <3>2 DEF Thread
  <2>3. ASSUME NEW expired \in SUBSET {id \in Id : connections[id] = "PENDING"},
               LoopTimeouts(expired)
        PROVE  PlainStep("heartbeat")
    <3>1. Plain("heartbeat") /\ ~Idle("heartbeat") /\ UNCHANGED <<flags, members, told>>
      BY <2>3, PlainLoop DEF LoopTimeouts, Locking, At, Idle, Tables
    <3>2. \A id \in Id : connections'[id] = IF id \in expired THEN "none" ELSE connections[id]
      BY <2>3 DEF LoopTimeouts
    <3>3. \A id \in Id : id \in expired => connections[id] = "PENDING"
      OBVIOUS
    <3> QED
      BY <3>1, <3>2, <3>3 DEF PlainStep, Active
  <2> QED
    BY <1>6, <2>1, <2>2, <2>3 DEF HeartbeatStep, Thread
<1>7. ASSUME NEW t \in Thread, UsesDestroyed(t)
      PROVE  Crash
  BY <1>7 DEF UsesDestroyed, Crash
<1>8. Step => Steps
  BY <1>1, <1>3, <1>4, <1>5, <1>6 DEF Step
<1> QED
  BY <1>7, <1>8 DEF Next, Gone

(* Lemma: the tables keep their types.                                       *)
LEMMA TablesStep ==
    ASSUME Ready, Tables, Next
    PROVE  Tables'
<1>1. ASSUME NEW t \in Thread, OperationStep(t)
      PROVE  Tables'
  <2>1. CASE CallbackReturns(t) \/ CallInVain(t) \/ SetRetransmissionConfig(t)
    BY <2>1 DEF CallbackReturns, CallInVain, SetRetransmissionConfig, Tables, tables, flags
  <2>2. CASE Connect(t)
    <3>1. /\ nextConnectionId <= MaxNumber /\ nextConnectionId' = nextConnectionId + 1
          /\ connections' = [connections EXCEPT ![nextConnectionId] = "PENDING"]
          /\ heartbeats' = heartbeats \cup {nextConnectionId}
          /\ opened' = opened \cup {nextConnectionId}
          /\ UNCHANGED <<flags, members, told>> /\ dangling' \in BOOLEAN
      BY <2>2 DEF Connect, NumbersLeft, Destroy, Tables
    <3>2. nextConnectionId \in Number /\ nextConnectionId \in Id
          /\ nextConnectionId' \in 1..(MaxNumber + 1)
      BY <3>1, IdsAre DEF Tables, Number
    <3> QED
      BY <3>1, <3>2 DEF Tables, flags
  <2>3. CASE ShutdownBegin(t) \/ ShutdownJoin(t) \/ ShutdownLocked(t)
    BY <2>3 DEF ShutdownBegin, ShutdownJoin, ShutdownLocked, Tables, tables, flags
  <2>4. CASE ShutdownEnd(t)
    <3>1. /\ connections' = [id \in Id |-> "none"] /\ told' = [id \in Id |-> 0]
          /\ heartbeats' = {} /\ opened' = {} /\ dangling' \in BOOLEAN
          /\ UNCHANGED <<nextConnectionId, flags, members>>
      BY <2>4 DEF ShutdownEnd, Destroy, Tables
    <3> QED
      BY <3>1, IdsAre DEF Tables, flags
  <2>5. ASSUME NEW op \in Removers, RemoveEnd(t, op)
        PROVE  Tables'
    <3>1. PICK id : id = Top(t).id
      OBVIOUS
    <3>2. /\ connections' = [connections EXCEPT ![id] = "none"]
          /\ heartbeats' = heartbeats \ {id}
          /\ opened' = opened \ {id}
          /\ told' = [told EXCEPT ![id] = 0]
          /\ dangling' \in BOOLEAN
          /\ UNCHANGED <<nextConnectionId, flags, members>>
      BY <2>5, <3>1 DEF RemoveEnd, Destroy, Tables
    <3>3. /\ connections' \in [Id -> {"none", "PENDING", "ACCEPTED", "ACTIVE"}]
          /\ \A number \in Number : connections'[number] \in {"none", "PENDING"}
      BY <3>2, IdsAre DEF Tables
    <3>4. told' \in [Id -> Nat]
      BY <3>2 DEF Tables
    <3> QED
      BY <3>2, <3>3, <3>4 DEF Tables, flags
  <2>6. ASSUME NEW op \in Removers, NEW id \in Id, RemoveBegin(t, op, id)
        PROVE  Tables'
    BY <2>6 DEF RemoveBegin, Tables, tables, flags
  <2>7. ASSUME NEW id \in Id, \/ SetHandler(t, "setOnMessageHandler", "onMessage", id)
                              \/ SetHandler(t, "setOnDisconnected", "onDisconnected", id)
        PROVE  Tables'
    BY <2>7 DEF SetHandler, Destroy, Tables, tables, flags
  <2>8. ASSUME NEW id \in Id, ShutdownEach(t, id)
        PROVE  Tables'
    <3>1. UNCHANGED <<tables, flags, members, dangling>>
          /\ (UNCHANGED told \/ told' = [told EXCEPT ![id] = @ + 1])
      BY <2>8 DEF ShutdownEach
    <3> QED
      BY <3>1 DEF Tables, tables, flags
  <2> QED
    BY <1>1, <2>1, <2>2, <2>3, <2>4, <2>5, <2>6, <2>7, <2>8 DEF OperationStep, Removers
<1>2. CASE Asked
  <2>1. CASE Initialize \/ DestructorBegin \/ ReceiveBegin
    BY <2>1 DEF Initialize, DestructorBegin, ReceiveBegin, Tables, tables, flags
  <2>2. ASSUME NEW op \in Entry, ApplicationCalls(op) \/ \E t \in Thread : CallbackCalls(t, op)
        PROVE  Tables'
    BY <2>2 DEF ApplicationCalls, CallbackCalls, Tables, tables, flags
  <2>3. ASSUME NEW t \in {"receive", "session"}, Delivered(t)
        PROVE  Tables'
    BY <2>3 DEF Delivered, Tables, tables, flags
  <2> QED
    BY <1>2, <2>1, <2>2, <2>3 DEF Asked
<1>3. CASE ApplicationStep
  <2>1. CASE DestroyTables \/ DestroyPhysicalLayer \/ DestroySessionManager \/ DestroyRest
    BY <2>1 DEF DestroyTables, DestroyPhysicalLayer, DestroySessionManager, DestroyRest,
                DestructorStep, Tables, tables, flags
  <2> QED
    BY <1>1, <1>3, <2>1 DEF ApplicationStep, Thread
<1>4. CASE SessionStep
  BY <1>1, <1>4 DEF SessionStep, Thread
<1>5. CASE ReceiveStep
  <2>1. CASE HandleRequest \/ HandlerReturns \/ FinalConfirmed
    BY <2>1 DEF HandleRequest, HandlerReturns, FinalConfirmed, Tables, tables, flags
  <2>2. CASE RequestDecided
    <3>1. UNCHANGED <<flags, members, told>> /\ dangling' \in BOOLEAN
      BY <2>2 DEF RequestDecided, Accept, Destroy, Tables
    <3>2. CASE UNCHANGED tables
      BY <3>1, <3>2 DEF Tables, tables, flags
    <3>3. CASE NumbersLeft /\ RequestDecided /\ nextConnectionId' = nextConnectionId + 1
      <4>1. nextConnectionId \in Number /\ nextConnectionId' \in 1..(MaxNumber + 1)
        BY <3>3, IdsAre DEF NumbersLeft, Tables, Number
      <4>2. Products[nextConnectionId] \subseteq Product /\ heartbeats' = heartbeats
        BY <3>3, <4>1, ThreadsAssumption DEF RequestDecided, tables
      <4>3. CASE UNCHANGED <<connections, opened>>
        BY <3>1, <4>1, <4>2, <4>3 DEF Tables, flags
      <4>4. ASSUME NEW id \in Products[nextConnectionId], Accept(id)
            PROVE  Tables'
        <5>1. id \in Product /\ id \in Id /\ \A number \in Number : number # id
          BY <4>2, IdsAre
        <5>2. /\ connections' = [connections EXCEPT ![id] = "ACCEPTED"]
              /\ opened' = opened \ {id}
          BY <4>4 DEF Accept
        <5>3. /\ connections' \in [Id -> {"none", "PENDING", "ACCEPTED", "ACTIVE"}]
              /\ \A number \in Number : connections'[number] \in {"none", "PENDING"}
          BY <5>1, <5>2, IdsAre DEF Tables
        <5> QED
          BY <3>1, <4>1, <4>2, <5>2, <5>3 DEF Tables, flags
      <4>5. \/ UNCHANGED <<connections, opened>>
            \/ \E id \in Products[nextConnectionId] : Accept(id)
        BY <3>3 DEF RequestDecided, tables
      <4> QED
        BY <4>3, <4>4, <4>5
    <3> QED
      BY <2>2, <3>2, <3>3 DEF RequestDecided
  <2>3. ASSUME NEW id \in Id, HandleMessage(id)
        PROVE  Tables'
    BY <2>3 DEF HandleMessage, Tables, tables, flags
  <2>4. ASSUME NEW id \in Product, HandleFinalConfirmation(id)
        PROVE  Tables'
    <3>1. /\ connections' = [connections EXCEPT ![id] = "ACTIVE"]
          /\ UNCHANGED <<heartbeats, opened, nextConnectionId, flags, members, dangling, told>>
      BY <2>4 DEF HandleFinalConfirmation
    <3> QED
      BY <3>1, IdsAre DEF Tables, flags
  <2>5. ASSUME NEW number \in Number, ResponseRefused(number)
        PROVE  Tables'
    <3>1. /\ connections' = [connections EXCEPT ![number] = "none"]
          /\ opened' = opened \ {number} /\ dangling' \in BOOLEAN
          /\ UNCHANGED <<heartbeats, nextConnectionId, flags, members, told>>
      BY <2>5 DEF ResponseRefused, Destroy, Tables
    <3> QED
      BY <3>1, IdsAre DEF Tables, flags
  <2>6. ASSUME NEW number \in Number, NEW id \in Product, HandleResponse(number, id)
        PROVE  Tables'
    <3>1. /\ connections' = [connections EXCEPT ![number] = "none", ![id] = "ACTIVE"]
          /\ opened' = Renamed(opened \ {id}, number, id)
          /\ heartbeats' = Renamed(heartbeats, number, id) /\ dangling' \in BOOLEAN
          /\ UNCHANGED <<nextConnectionId, flags, members, told>>
      BY <2>6 DEF HandleResponse, Destroy, Tables
    <3>2. /\ connections' \in [Id -> {"none", "PENDING", "ACCEPTED", "ACTIVE"}]
          /\ \A n \in Number : connections'[n] \in {"none", "PENDING"}
      BY <3>1, IdsAre DEF Tables
    <3>3. opened' \subseteq Id /\ heartbeats' \subseteq Id
      BY <3>1, IdsAre DEF Tables, Renamed
    <3> QED
      BY <3>1, <3>2, <3>3 DEF Tables, flags
  <2> QED
    BY <1>1, <1>5, <2>1, <2>2, <2>3, <2>4, <2>5, <2>6 DEF ReceiveStep, Thread
<1>6. CASE HeartbeatStep
  <2>1. CASE LoopCheck \/ LoopBeats \/ LoopOver \/ \E id \in Id : LoopFailure(id) \/ LoopMissed(id)
    BY <2>1 DEF LoopCheck, LoopBeats, LoopOver, LoopFailure, LoopMissed, Tables, tables, flags
  <2>2. ASSUME NEW expired \in SUBSET Id, LoopTimeouts(expired)
        PROVE  Tables'
    <3>1. connections' = [id \in Id |-> IF id \in expired THEN "none" ELSE connections[id]]
          /\ heartbeats' = heartbeats \ expired /\ opened' = opened \ expired
          /\ dangling' \in BOOLEAN
          /\ UNCHANGED <<nextConnectionId, flags, members, told>>
      BY <2>2 DEF LoopTimeouts, Destroy, Tables
    <3>2. /\ connections' \in [Id -> {"none", "PENDING", "ACCEPTED", "ACTIVE"}]
          /\ \A number \in Number : connections'[number] \in {"none", "PENDING"}
      BY <3>1, IdsAre DEF Tables
    <3> QED
      BY <3>1, <3>2 DEF Tables, flags
  <2>3. SUBSET {id \in Id : connections[id] = "PENDING"} \subseteq SUBSET Id
    OBVIOUS
  <2> QED
    BY <1>1, <1>6, <2>1, <2>2, <2>3 DEF HeartbeatStep, Thread
<1>7. CASE Gone \/ \E t \in Thread : UsesDestroyed(t)
  BY <1>7 DEF Gone, UsesDestroyed, vars, tables, flags, Tables
<1> QED
  BY <1>2, <1>3, <1>4, <1>5, <1>6, <1>7 DEF Next, Step

-----------------------------------------------------------------------------
(* Every step keeps the stacks good and the mutex with one thread. *)

Orderly == Ready /\ OneHolder /\ Started

LEMMA GoodKeeps ==
    ASSUME Ready, OneHolder, NEW t \in Thread
    PROVE  /\ Returns(t) => Changed(t) /\ StacksInv' /\ OneHolder'
           /\ \A f : GoodBecomes(t, f) => Changed(t) /\ StacksInv' /\ OneHolder'
           /\ \A f, g : GoodCalls(t, f, g) => Changed(t) /\ StacksInv' /\ OneHolder'
           /\ \A f : GoodBegins(t, f) => Changed(t) /\ StacksInv' /\ OneHolder'
           /\ \A f, g : BeginsTwo(t, f, g) => Changed(t) /\ StacksInv' /\ OneHolder'
<1>1. Returns(t) => Changed(t) /\ StacksInv' /\ OneHolder'
  BY ReturnsKeeps DEF Ready, Returns
<1>2. \A f : GoodBecomes(t, f) => Changed(t) /\ StacksInv' /\ OneHolder'
  BY BecomesKeeps DEF Ready, GoodBecomes, Becomes
<1>3. \A f, g : GoodCalls(t, f, g) => Changed(t) /\ StacksInv' /\ OneHolder'
  BY CallsKeeps DEF Ready, GoodCalls, Calls
<1>4. \A f : GoodBegins(t, f) => Changed(t) /\ StacksInv' /\ OneHolder'
  BY BeginsKeeps DEF Ready, GoodBegins, Begins
<1>5. \A f, g : BeginsTwo(t, f, g) => Changed(t) /\ StacksInv' /\ OneHolder'
  BY BeginsTwoKeeps DEF Ready, BeginsTwo
<1> QED
  BY <1>1, <1>2, <1>3, <1>4, <1>5

LEMMA PlainKeeps ==
    ASSUME Ready, OneHolder, NEW t \in Thread, Plain(t)
    PROVE  Changed(t) /\ StacksInv' /\ OneHolder'
BY GoodKeeps DEF Plain

LEMMA SpecialKeeps ==
    ASSUME Ready, OneHolder, NEW t \in Thread, SpecialStep(t)
    PROVE  Changed(t) /\ StacksInv' /\ OneHolder' /\ ~Idle(t)
<1>1. CASE ShutdownBegin(t)
  BY <1>1, ShutdownBeginDoes, GoodKeeps
<1>2. CASE ShutdownJoin(t)
  BY <1>2, ShutdownJoinDoes, GoodKeeps
<1>3. CASE ShutdownLocked(t)
  BY <1>3, ShutdownLockedDoes, GoodKeeps
<1>4. CASE ShutdownEnd(t)
  BY <1>4, ReturningSteps, GoodKeeps DEF Returns
<1>5. ASSUME NEW id \in Id, ShutdownEach(t, id)
      PROVE  Changed(t) /\ StacksInv' /\ OneHolder' /\ ~Idle(t)
  BY <1>5, ShutdownEachDoes, GoodKeeps
<1>6. ASSUME NEW op \in Removers, RemoveEnd(t, op)
      PROVE  Changed(t) /\ StacksInv' /\ OneHolder' /\ ~Idle(t)
  BY <1>6, ReturningSteps, GoodKeeps DEF Returns
<1>7. ASSUME NEW op \in Removers, NEW id \in Id, RemoveBegin(t, op, id)
      PROVE  Changed(t) /\ StacksInv' /\ OneHolder' /\ ~Idle(t)
  BY <1>7, RemoveBeginDoes, GoodKeeps
<1> QED
  BY <1>1, <1>2, <1>3, <1>4, <1>5, <1>6, <1>7 DEF SpecialStep

(* Lemma: what the destructor does; each part follows from the one before.   *)
LEMMA DestructorDoes ==
    ASSUME Ready
    PROVE  /\ DestroyTables =>
                 /\ At("application", "destructor", "tables") /\ members' = "tablesGone"
                 /\ \E f : GoodBecomes("application", f) /\ f.op = "destructor"
                           /\ f.at = "members"
           /\ DestroyPhysicalLayer =>
                 /\ At("application", "destructor", "members") /\ members' = "receiverStopped"
                 /\ \E f : GoodBecomes("application", f) /\ f.op = "destructor"
                           /\ f.at = "joinReceive"
           /\ DestroySessionManager =>
                 /\ At("application", "destructor", "joinReceive")
                 /\ members' = "sessionStopped" /\ Idle("receive")
                 /\ \E f : GoodBecomes("application", f) /\ f.op = "destructor"
                           /\ f.at = "joinSession"
           /\ DestroyRest =>
                 /\ At("application", "destructor", "joinSession") /\ members' = "gone"
                 /\ Idle("session") /\ Returns("application")
<1>1. DestroyPhysicalLayer =>
          /\ At("application", "destructor", "members") /\ members' = "receiverStopped"
          /\ \E f : GoodBecomes("application", f) /\ f.op = "destructor" /\ f.at = "joinReceive"
  <2> HAVE DestroyPhysicalLayer
  <2>1. DestructorStep("members", "joinReceive", "receiverStopped")
    BY DEF DestroyPhysicalLayer
  <2> QED
    BY <2>1, DestructorStepDoes
<1>2. DestroySessionManager =>
          /\ At("application", "destructor", "joinReceive")
          /\ members' = "sessionStopped" /\ Idle("receive")
          /\ \E f : GoodBecomes("application", f) /\ f.op = "destructor" /\ f.at = "joinSession"
  <2> HAVE DestroySessionManager
  <2>1. DestructorStep("joinReceive", "joinSession", "sessionStopped") /\ Idle("receive")
    BY DEF DestroySessionManager
  <2> QED
    BY <2>1, DestructorStepDoes
<1>3. DestroyRest =>
          /\ At("application", "destructor", "joinSession") /\ members' = "gone"
          /\ Idle("session") /\ Returns("application")
  <2> HAVE DestroyRest
  <2>1. DestructorStep("joinSession", "end", "gone") /\ Idle("session")
    BY DEF DestroyRest
  <2> QED
    BY <2>1, DestructorStepDoes
<1>4. DestroyTables =>
          /\ At("application", "destructor", "tables") /\ members' = "tablesGone"
          /\ \E f : GoodBecomes("application", f) /\ f.op = "destructor" /\ f.at = "members"
  <2> HAVE DestroyTables
  <2>1. DestructorStep("tables", "members", "tablesGone")
    BY DEF DestroyTables
  <2> QED
    BY <2>1, DestructorStepDoes
<1> QED
  BY <1>1, <1>2, <1>3, <1>4

LEMMA OrderlyStep ==
    ASSUME Orderly, Tables, Tables', Next
    PROVE  Orderly'
<1>1. SUFFICES Stacks' /\ StacksInv' /\ OneHolder' /\ Started'
  BY DEF Orderly, Ready
<1> USE DEF Orderly
<1>2. CASE UNCHANGED vars
  BY <1>2 DEF vars, flags, Ready, Stacks, StacksInv, OneHolder, Holds, FramesOf, Started, Idle
<1>3. ASSUME NEW t \in Thread, Changed(t), StacksInv', OneHolder', initialized' = initialized,
             Idle(t) => t # "heartbeat"
      PROVE  Stacks' /\ StacksInv' /\ OneHolder' /\ Started'
  <2>1. Stacks'
    BY <1>3 DEF Changed, Stacks
  <2>2. Idle("heartbeat") => initialized \/ Idle("heartbeat")'
    BY <1>3 DEF Changed, Idle, Thread
  <2>3. initialized \/ Idle("heartbeat")
    BY DEF Started
  <2>4. Started'
    <3>1. CASE t = "heartbeat"
      BY <1>3, <2>3, <3>1 DEF Started
    <3>2. CASE t # "heartbeat"
      BY <1>3, <2>2, <2>3 DEF Started
    <3> QED
      BY <3>1, <3>2
  <2> QED
    BY <1>3, <2>1, <2>4
<1>4. ASSUME NEW t \in Thread, PlainStep(t)
      PROVE  Stacks' /\ StacksInv' /\ OneHolder' /\ Started'
  <2>1. Changed(t) /\ StacksInv' /\ OneHolder'
    BY <1>4, PlainKeeps DEF PlainStep
  <2>2. initialized' = initialized /\ (Idle(t) => t # "heartbeat")
    BY <1>4 DEF PlainStep, flags
  <2> QED
    BY <1>3, <2>1, <2>2
<1>5. ASSUME NEW t \in Thread, SpecialStep(t)
      PROVE  Stacks' /\ StacksInv' /\ OneHolder' /\ Started'
  <2>1. Changed(t) /\ StacksInv' /\ OneHolder' /\ ~Idle(t)
    BY <1>5, SpecialKeeps
  <2>2. initialized' = initialized
    BY <1>5 DEF SpecialStep, ShutdownBegin, ShutdownJoin, ShutdownLocked, ShutdownEnd,
                ShutdownEach, RemoveEnd, RemoveBegin, flags
  <2> QED
    BY <1>3, <2>1, <2>2
<1>6. CASE Initialize
  <2>1. Plain("heartbeat")
    BY <1>6, PlainBeginnings
  <2>2. Changed("heartbeat") /\ StacksInv' /\ OneHolder'
    BY <2>1, PlainKeeps DEF Thread
  <2>3. Started'
    BY <1>6 DEF Initialize, Started
  <2> QED
    BY <2>2, <2>3 DEF Changed, Stacks
<1>7. CASE DestructorBegin
  <2>1. PICK f, g : BeginsTwo("application", f, g)
    BY <1>7, DestructorBeginDoes
  <2>2. Changed("application") /\ StacksInv' /\ OneHolder'
    BY <2>1, GoodKeeps DEF Thread
  <2>3. initialized' = initialized
    BY <1>7 DEF DestructorBegin, flags
  <2> QED
    BY <1>3, <2>2, <2>3 DEF Thread
<1>8. CASE DestroyTables \/ DestroyPhysicalLayer \/ DestroySessionManager \/ DestroyRest
  <2>1. Changed("application") /\ StacksInv' /\ OneHolder'
    BY <1>8, DestructorDoes, GoodKeeps DEF Thread
  <2>2. initialized' = initialized
    BY <1>8 DEF DestroyTables, DestroyPhysicalLayer, DestroySessionManager, DestroyRest,
                DestructorStep, flags
  <2> QED
    BY <1>3, <2>1, <2>2 DEF Thread
<1>9. CASE Crash
  BY <1>9 DEF Crash, flags, Ready, Stacks, StacksInv, OneHolder, Holds, FramesOf, Started, Idle
<1> QED
  BY <1>2, <1>4, <1>5, <1>6, <1>7, <1>8, <1>9, NextIs

-----------------------------------------------------------------------------
(* The frames after a step *)

(* Those below the innermost. *)
Under(t) == {stack[t][i] : i \in 2..Len(stack[t])}

(* Lemma: a step of one thread changes its innermost frame and what that     *)
(* calls; those below it stay.                                               *)
LEMMA UnderStays ==
    ASSUME Stacks, NEW t \in Thread, ~Idle(t)
    PROVE  /\ FramesOf(stack, t) = {Top(t)} \cup Under(t)
           /\ Returns(t) => FramesOf(stack', t) = Under(t)
           /\ \A f : Becomes(t, f) => FramesOf(stack', t) = {f} \cup Under(t)
           /\ \A f, g : Calls(t, f, g) => FramesOf(stack', t) = {f, g} \cup Under(t)
<1>1. PICK s : s = stack[t]
  OBVIOUS
<1>2. s \in Seq(Frame) /\ s # <<>> /\ Top(t) = s[1]
  BY <1>1 DEF Stacks, Idle, Top
<1>3. PICK n \in Nat : n = Len(s) /\ n >= 1
  BY <1>2
<1>4. FramesOf(stack, t) = {s[i] : i \in 1..n} /\ Under(t) = {s[i] : i \in 2..n}
  BY <1>1, <1>2, <1>3 DEF FramesOf, Under
<1>5. FramesOf(stack, t) = {Top(t)} \cup Under(t)
  <2>1. 1..n = {1} \cup 2..n
    BY <1>3
  <2> QED
    BY <1>2, <1>4, <2>1
<1>6. ASSUME Returns(t)
      PROVE  FramesOf(stack', t) = Under(t)
  <2>1. PICK r : r = stack'[t]
    OBVIOUS
  <2>2. Len(r) = n - 1 /\ (\A i \in 1..Len(r) : r[i] = s[i + 1]) /\ DOMAIN r = 1..Len(r)
    BY <1>1, <1>3, <1>6, <2>1 DEF Returns, Changed, Popped
  <2>3. FramesOf(stack', t) = {s[i + 1] : i \in 1..(n - 1)}
    BY <2>1, <2>2 DEF FramesOf
  <2>4. \A i \in 2..n : i - 1 \in 1..(n - 1) /\ s[(i - 1) + 1] = s[i]
    BY <1>3
  <2>5. \A i \in 1..(n - 1) : i + 1 \in 2..n
    BY <1>3
  <2> QED
    BY <1>4, <2>3, <2>4, <2>5
<1>7. ASSUME NEW f, Becomes(t, f)
      PROVE  FramesOf(stack', t) = {f} \cup Under(t)
  <2>1. PICK r : r = stack'[t]
    OBVIOUS
  <2>2. r[1] = f /\ (\A i \in 2..n : r[i] = s[i]) /\ DOMAIN r = 1..n
    BY <1>1, <1>3, <1>7, <2>1 DEF Becomes, Changed, Swapped
  <2>3. FramesOf(stack', t) = {r[i] : i \in 1..n}
    BY <2>1, <2>2 DEF FramesOf
  <2>4. 1..n = {1} \cup 2..n
    BY <1>3
  <2> QED
    BY <1>4, <2>2, <2>3, <2>4
<1>8. ASSUME NEW f, NEW g, Calls(t, f, g)
      PROVE  FramesOf(stack', t) = {f, g} \cup Under(t)
  <2>1. PICK r : r = stack'[t]
    OBVIOUS
  <2>2. r[1] = f /\ r[2] = g /\ (\A i \in 3..(n + 1) : r[i] = s[i - 1])
        /\ DOMAIN r = 1..(n + 1)
    BY <1>1, <1>3, <1>8, <2>1 DEF Calls, Changed, Pushed
  <2>3. FramesOf(stack', t) = {r[i] : i \in 1..(n + 1)}
    BY <2>1, <2>2 DEF FramesOf
  <2>4. 1..(n + 1) = {1, 2} \cup 3..(n + 1)
    BY <1>3
  <2>5. {r[i] : i \in 3..(n + 1)} = {s[i] : i \in 2..n}
    <3>1. \A i \in 3..(n + 1) : i - 1 \in 2..n /\ r[i] = s[i - 1]
      BY <1>3, <2>2
    <3>2. \A i \in 2..n : i + 1 \in 3..(n + 1) /\ r[i + 1] = s[(i + 1) - 1] /\ (i + 1) - 1 = i
      BY <1>3, <2>2
    <3> QED
      BY <3>1, <3>2
  <2> QED
    BY <1>4, <2>2, <2>3, <2>4, <2>5
<1> QED
  BY <1>5, <1>6, <1>7, <1>8

(* Lemma: the same, seen from the frames before and those after.             *)
LEMMA FramesAfter ==
    ASSUME Stacks, NEW t \in Thread, ~Idle(t)
    PROVE  /\ Returns(t) =>
                 /\ \A x \in FramesOf(stack', t) : x \in FramesOf(stack, t)
                 /\ \A y \in FramesOf(stack, t) : y = Top(t) \/ y \in FramesOf(stack', t)
                 /\ stack'[t] # <<>> => ~Alone(t) /\ stack'[t][1] = stack[t][2]
           /\ \A f : Becomes(t, f) =>
                 /\ \A x \in FramesOf(stack', t) : x = f \/ x \in FramesOf(stack, t)
                 /\ \A y \in FramesOf(stack, t) : y = Top(t) \/ y \in FramesOf(stack', t)
                 /\ f \in FramesOf(stack', t) /\ stack'[t][1] = f
           /\ \A f, g : Calls(t, f, g) =>
                 /\ \A x \in FramesOf(stack', t) : x = f \/ x = g \/ x \in FramesOf(stack, t)
                 /\ \A y \in FramesOf(stack, t) : y = Top(t) \/ y \in FramesOf(stack', t)
                 /\ g \in FramesOf(stack', t) /\ stack'[t][1] = f
<1>1. PICK s : s = stack[t]
  OBVIOUS
<1>2. s \in Seq(Frame) /\ s # <<>> /\ Top(t) = s[1] /\ (Alone(t) <=> Len(s) = 1)
      /\ FramesOf(stack, t) = {s[i] : i \in 1..Len(s)}
  BY <1>1 DEF Stacks, Idle, Top, FramesOf, Alone
<1>3. ASSUME Returns(t), stack'[t] # <<>>
      PROVE  ~Alone(t) /\ stack'[t][1] = stack[t][2]
  <2>1. PICK r : r = stack'[t]
    OBVIOUS
  <2>2. r \in Seq(Frame) /\ Len(r) = Len(s) - 1 /\ \A i \in 1..Len(r) : r[i] = s[i + 1]
    BY <1>1, <1>3, <2>1 DEF Returns, Changed, Popped
  <2>3. r # <<>> => Len(s) # 1 /\ r[1] = s[2]
    BY <1>2, <2>2
  <2> QED
    BY <1>1, <1>2, <1>3, <2>1, <2>3
<1>4. /\ \A f : Becomes(t, f) => stack'[t][1] = f
      /\ \A f, g : Calls(t, f, g) => stack'[t][1] = f
  BY DEF Becomes, Calls, Swapped, Pushed
<1> QED
  BY <1>3, <1>4, UnderStays

LEMMA FramesBegun ==
    ASSUME NEW t
    PROVE  /\ \A f : Begins(t, f) =>
                 (\A x \in FramesOf(stack', t) : x = f) /\ stack'[t][1] = f
           /\ \A f, g : BeginsTwo(t, f, g) =>
                 /\ \A x \in FramesOf(stack', t) : x = f \/ x = g
                 /\ stack'[t][1] = f
<1>1. ASSUME NEW f, NEW r, r = <<f>>
      PROVE  (\A i \in DOMAIN r : r[i] = f) /\ r[1] = f
  BY <1>1
<1>2. ASSUME NEW f, NEW g, NEW r, r = <<f, g>>
      PROVE  (\A i \in DOMAIN r : r[i] = f \/ r[i] = g) /\ r[1] = f
  BY <1>2
<1> QED
  BY <1>1, <1>2 DEF Begins, BeginsTwo, FramesOf

-----------------------------------------------------------------------------
(* shutdown and the destructor *)

(* Lemma: if no callback shuts the SDK down, shutdown is what the            *)
(* application called, or its destructor.                                    *)
LEMMA ShutdownStands ==
    ASSUME NoneShutsDown, NEW t, NEW s \in Seq(Frame), GoodStack(t, s),
           NEW i \in 1..Len(s), s[i].op \in {"shutdown", "destructor"}
    PROVE  /\ t = "application"
           /\ \/ i = Len(s)
              \/ /\ s[i].op = "shutdown" /\ i + 1 = Len(s)
                 /\ s[i + 1].op = "destructor" /\ s[i + 1].at = "tables"
<1>1. \A j \in 1..Len(s) : j < Len(s) => StandsOn(s[j], s[j + 1])
  <2>1. PICK n \in Nat : n = Len(s)
    OBVIOUS
  <2>2. \A j \in 1..n : j < n => j \in 1..(n - 1)
    OBVIOUS
  <2> QED
    BY <2>1, <2>2 DEF GoodStack
<1>2. Bottom(t, s[Len(s)])
  BY DEF GoodStack
<1>3. \A f, g : StandsOn(f, g) /\ f.op \in {"shutdown", "destructor"} =>
                   f.op = "shutdown" /\ g.op = "destructor" /\ g.at = "tables"
  BY DEF StandsOn, CalledBack, CalledFrom, NoneShutsDown
<1>4. \A f : Bottom(t, f) /\ f.op \in {"shutdown", "destructor"} => t = "application"
  BY DEF Bottom, Handlers
<1>5. CASE i = Len(s)
  BY <1>2, <1>4, <1>5
<1>6. CASE i < Len(s)
  <2>1. s[i].op = "shutdown" /\ s[i + 1].op = "destructor" /\ s[i + 1].at = "tables"
        /\ i + 1 \in 1..Len(s)
    BY <1>1, <1>3, <1>6
  <2>2. ~(i + 1 < Len(s))
    BY <1>1, <1>3, <2>1
  <2>3. i + 1 = Len(s)
    BY <2>1, <2>2
  <2> QED
    BY <1>2, <1>4, <2>1, <2>3
<1>7. PICK n \in Nat : n = Len(s)
  OBVIOUS
<1>8. i = n \/ i < n
  BY <1>7
<1> QED
  BY <1>5, <1>6, <1>7, <1>8

(* Lemma: the same of the innermost frame.                                   *)
LEMMA ShutdownTop ==
    ASSUME Ready, NoneShutsDown, NEW t \in Thread, ~Idle(t),
           Top(t).op \in {"shutdown", "destructor"}
    PROVE  /\ t = "application"
           /\ ~Alone(t) => stack[t][2].op = "destructor" /\ stack[t][2].at = "tables"
<1>1. PICK s : s = stack[t]
  OBVIOUS
<1>2. s \in Seq(Frame) /\ s # <<>> /\ GoodStack(t, s) /\ Top(t) = s[1]
      /\ (Alone(t) <=> Len(s) = 1)
  BY <1>1 DEF Ready, Stacks, StacksInv, Idle, Top, Alone
<1>3. 1 \in 1..Len(s) /\ s[1].op \in {"shutdown", "destructor"}
  BY <1>2
<1>4. /\ t = "application"
      /\ \/ 1 = Len(s)
         \/ s[1 + 1].op = "destructor" /\ s[1 + 1].at = "tables"
  BY <1>2, <1>3, ShutdownStands
<1>5. 1 + 1 = 2
  OBVIOUS
<1>6. ~Alone(t) => s[2].op = "destructor" /\ s[2].at = "tables"
  BY <1>2, <1>4, <1>5
<1> QED
  BY <1>1, <1>4, <1>6

(* Lemma: what a step must not do to disturb the order of the end.           *)
LEMMA QuietKept ==
    ASSUME QuietInv, NEW t \in Thread, Changed(t), UNCHANGED <<flags, members>>,
           ~At(t, "shutdown", "join"),
           \A f \in FramesOf(stack', t) : f.op = "shutdown" /\ f.at # "begin" => shutdownRequested,
           stack'[t] # <<>> /\ stack'[t][1].op = "destructor" =>
               shutdownRequested /\ stack'[t][1].at = "tables",
           Idle(t) => /\ t # "heartbeat"
                      /\ t = "receive" => members \in {"alive", "tablesGone"}
                      /\ t = "session" => members \in {"alive", "tablesGone", "receiverStopped"}
    PROVE  QuietInv'
<1>1. shutdownRequested' = shutdownRequested /\ members' = members
  BY DEF flags
<1>2. \A u \in Thread : u # t => stack'[u] = stack[u]
  BY DEF Changed
<1>3. \A u \in Thread : \A f \in FramesOf(stack', u) :
          f.op = "shutdown" /\ f.at # "begin" => shutdownRequested
  <2> SUFFICES ASSUME NEW u \in Thread, u # t
               PROVE  \A f \in FramesOf(stack', u) :
                         f.op = "shutdown" /\ f.at # "begin" => shutdownRequested
    OBVIOUS
  <2>1. FramesOf(stack', u) = FramesOf(stack, u)
    BY <1>2 DEF FramesOf
  <2> QED
    BY <2>1 DEF QuietInv
<1>4. ASSUME shutdownRequested, Idle("heartbeat")
      PROVE  stack'["heartbeat"] = <<>>
  BY <1>2, <1>4 DEF Idle, Thread
<1>5. shutdownRequested /\ ~At("application", "shutdown", "join")' => Idle("heartbeat")'
  <2>1. CASE t = "application"
    BY <1>2, <2>1 DEF QuietInv, Idle, Thread
  <2>2. CASE t # "application"
    <3>1. stack'["application"] = stack["application"]
      BY <1>2, <2>2 DEF Thread
    <3>2. At("application", "shutdown", "join")' <=> At("application", "shutdown", "join")
      BY <3>1 DEF At, Top
    <3> QED
      BY <1>4, <3>2 DEF QuietInv, Idle
  <2> QED
    BY <2>1, <2>2
<1>6. /\ ~Idle("application")' /\ Top("application")'.op = "destructor" => shutdownRequested
      /\ At("application", "destructor", "joinSession")' =>
            members \in {"sessionStopped", "crashed"}
  <2>1. CASE t = "application"
    BY <2>1, FramesBegun DEF Idle, Top, At
  <2>2. CASE t # "application"
    <3>1. stack'["application"] = stack["application"]
      BY <1>2, <2>2 DEF Thread
    <3> QED
      BY <3>1 DEF QuietInv, Idle, Top, At
  <2> QED
    BY <2>1, <2>2
<1>7. /\ members # "alive" => Idle("heartbeat")'
      /\ members \in {"sessionStopped", "gone"} => Idle("receive")'
      /\ members = "gone" => Idle("session")'
  <2>1. \A u \in Thread : Idle(u) /\ u # t => stack'[u] = <<>>
    BY <1>2 DEF Idle
  <2> QED
    BY <2>1 DEF QuietInv, Idle, Thread
<1>8. \A u \in Thread : \A f \in FramesOf(stack', u) :
          f.op = "shutdown" /\ f.at # "begin" => shutdownRequested'
  BY <1>1, <1>3
<1> QED
  BY <1>1, <1>5, <1>6, <1>7, <1>8 DEF QuietInv

LEMMA QuietPlain ==
    ASSUME Orderly, QuietInv, NEW t \in Thread, PlainStep(t)
    PROVE  QuietInv'
<1>1. Changed(t) /\ UNCHANGED <<flags, members>> /\ Plain(t)
      /\ (Idle(t) => /\ t # "heartbeat"
                     /\ t = "receive" => members \in {"alive", "tablesGone"}
                     /\ t = "session" => members \in {"alive", "tablesGone", "receiverStopped"})
  BY PlainKeeps DEF Orderly, PlainStep
<1>2. \A f \in FramesOf(stack, t) : f.op = "shutdown" /\ f.at # "begin" => shutdownRequested
  BY DEF QuietInv
<1>3. Stacks
  BY DEF Orderly, Ready
<1>4. ASSUME PlainTop(t)
      PROVE  /\ ~At(t, "shutdown", "join")
             /\ ~Alone(t) => stack[t][2].op # "destructor"
  <2>1. ~Idle(t) /\ Top(t).op # "shutdown"
    BY <1>4 DEF PlainTop
  <2>2. ~Alone(t) => StandsOn(Top(t), stack[t][2])
    BY <2>1, TopIs DEF Orderly, Ready
  <2>3. \A g : StandsOn(Top(t), g) => g.op # "destructor"
    BY <2>1 DEF StandsOn, CalledBack, CalledFrom, Removers, Callback
  <2> QED
    BY <2>1, <2>2, <2>3 DEF At
<1>5. CASE PlainTop(t) /\ Returns(t)
  <2>1. /\ \A x \in FramesOf(stack', t) : x \in FramesOf(stack, t)
        /\ stack'[t] # <<>> => ~Alone(t) /\ stack'[t][1] = stack[t][2]
    BY <1>3, <1>5, FramesAfter DEF PlainTop
  <2> QED
    BY <1>1, <1>2, <1>4, <1>5, <2>1, QuietKept
<1>7. ASSUME PlainTop(t), NEW f, GoodBecomes(t, f), PlainFrame(f)
      PROVE  QuietInv'
  <2>1. (\A x \in FramesOf(stack', t) : x = f \/ x \in FramesOf(stack, t)) /\ stack'[t][1] = f
    BY <1>3, <1>7, FramesAfter DEF PlainTop, GoodBecomes
  <2> QED
    BY <1>1, <1>2, <1>4, <1>7, <2>1, QuietKept DEF PlainFrame
<1>8. ASSUME PlainTop(t), NEW f, NEW g, GoodCalls(t, f, g), PlainFrame(f), PlainFrame(g)
      PROVE  QuietInv'
  <2>1. /\ \A x \in FramesOf(stack', t) : x = f \/ x = g \/ x \in FramesOf(stack, t)
        /\ stack'[t][1] = f
    BY <1>3, <1>8, FramesAfter DEF PlainTop, GoodCalls
  <2> QED
    BY <1>1, <1>2, <1>4, <1>8, <2>1, QuietKept DEF PlainFrame
<1>9. ASSUME NEW f, GoodBegins(t, f), PlainFrame(f)
      PROVE  QuietInv'
  <2>1. (\A x \in FramesOf(stack', t) : x = f) /\ stack'[t][1] = f /\ Idle(t)
    BY <1>9, FramesBegun DEF GoodBegins, Begins
  <2>2. ~At(t, "shutdown", "join")
    BY <2>1 DEF Idle, At
  <2> QED
    BY <1>1, <1>9, <2>1, <2>2, QuietKept DEF PlainFrame
<1> QED
  BY <1>1, <1>5, <1>7, <1>8, <1>9 DEF Plain

(* Lemma: removing a connection has nothing to do with the end.              *)
LEMMA QuietRemoving ==
    ASSUME Orderly, QuietInv, NEW t \in Thread, NEW op \in Removers,
           RemoveEnd(t, op) \/ \E id \in Id : RemoveBegin(t, op, id)
    PROVE  QuietInv'
<1>1. Changed(t) /\ ~Idle(t)
  BY SpecialKeeps DEF Orderly, SpecialStep
<1>2. UNCHANGED <<flags, members>>
  BY DEF RemoveEnd, RemoveBegin
<1>3. \A f \in FramesOf(stack, t) : f.op = "shutdown" /\ f.at # "begin" => shutdownRequested
  BY DEF QuietInv
<1>4. CASE RemoveEnd(t, op)
  <2>1. Returns(t) /\ Top(t).op = op
    BY <1>4, ReturningSteps DEF Orderly
  <2>2. /\ \A x \in FramesOf(stack', t) : x \in FramesOf(stack, t)
        /\ stack'[t] # <<>> => ~Alone(t) /\ stack'[t][1] = stack[t][2]
    BY <1>1, <2>1, FramesAfter DEF Orderly, Ready
  <2>3. ~Alone(t) => StandsOn(Top(t), stack[t][2])
    BY <1>1, TopIs DEF Orderly, Ready
  <2>4. \A g : StandsOn(Top(t), g) => g.op # "destructor"
    BY <2>1 DEF StandsOn, CalledBack, CalledFrom, Removers, Callback
  <2>5. ~At(t, "shutdown", "join")
    BY <2>1 DEF At, Removers
  <2> QED
    BY <1>1, <1>2, <1>3, <2>2, <2>3, <2>4, <2>5, QuietKept
<1>5. ASSUME NEW id \in Id, RemoveBegin(t, op, id)
      PROVE  QuietInv'
  <2>1. PICK f, g : GoodCalls(t, f, g) /\ f.op = "onDisconnected" /\ g.op = op
                    /\ Top(t).op \in {"call", "onMessageReceived"}
    BY <1>5, RemoveBeginDoes DEF Orderly
  <2>2. /\ \A x \in FramesOf(stack', t) : x = f \/ x = g \/ x \in FramesOf(stack, t)
        /\ stack'[t][1] = f
    BY <1>1, <2>1, FramesAfter DEF Orderly, Ready, GoodCalls
  <2>3. ~At(t, "shutdown", "join")
    BY <2>1 DEF At
  <2>4. g.op # "shutdown"
    BY <2>1 DEF Removers
  <2> QED
    BY <1>1, <1>2, <1>3, <2>1, <2>2, <2>3, <2>4, QuietKept
<1> QED
  BY <1>4, <1>5

(* Lemma: shutdown goes on when the heartbeat thread has ended.              *)
LEMMA QuietShutdown ==
    ASSUME Orderly, NoneShutsDown, QuietInv, NEW t \in Thread,
           \/ ShutdownBegin(t) \/ ShutdownJoin(t) \/ ShutdownLocked(t) \/ ShutdownEnd(t)
           \/ \E id \in Id : ShutdownEach(t, id)
    PROVE  QuietInv'
<1>1. Ready /\ Stacks /\ Changed(t) /\ ~Idle(t)
  <2>1. SpecialStep(t)
    BY DEF SpecialStep
  <2> QED
    BY <2>1, SpecialKeeps DEF Orderly, Ready
<1>2. Top(t).op = "shutdown"
  BY DEF ShutdownBegin, ShutdownJoin, ShutdownLocked, ShutdownEnd, ShutdownEach, Locking, At
<1>3. t = "application" /\ (~Alone(t) => stack[t][2].op = "destructor"
                                         /\ stack[t][2].at = "tables")
  BY <1>1, <1>2, ShutdownTop
<1>4. \A f \in FramesOf(stack, t) : f.op = "shutdown" /\ f.at # "begin" => shutdownRequested
  BY DEF QuietInv
<1>5. Top(t) \in FramesOf(stack, t)
  BY <1>1, FramesAre
<1>6. ASSUME Returns(t), shutdownRequested, Top(t).at # "join", UNCHANGED <<flags, members>>
      PROVE  QuietInv'
  <2>1. /\ \A x \in FramesOf(stack', t) : x \in FramesOf(stack, t)
        /\ stack'[t] # <<>> => ~Alone(t) /\ stack'[t][1] = stack[t][2]
    BY <1>1, <1>6, FramesAfter
  <2>2. ~At(t, "shutdown", "join")
    BY <1>6 DEF At
  <2> QED
    BY <1>1, <1>3, <1>4, <1>6, <2>1, <2>2, QuietKept
<1>7. ASSUME NEW f, NEW g, GoodBecomes(t, g) \/ GoodCalls(t, f, g), f.op = "onDisconnected",
             g.op = "shutdown", Top(t).at \in {"lock", "each"}, UNCHANGED <<flags, members>>
      PROVE  QuietInv'
  <2>1. /\ \A x \in FramesOf(stack', t) : x = f \/ x = g \/ x \in FramesOf(stack, t)
        /\ stack'[t][1] \in {f, g}
    BY <1>1, <1>7, FramesAfter DEF GoodBecomes, GoodCalls
  <2>2. shutdownRequested /\ ~At(t, "shutdown", "join")
    BY <1>2, <1>4, <1>5, <1>7 DEF At
  <2> QED
    BY <1>1, <1>4, <1>7, <2>1, <2>2, QuietKept
<1>8. CASE ShutdownEnd(t)
  <2>1. Returns(t) /\ Top(t).at = "each" /\ UNCHANGED <<flags, members>>
    BY <1>1, <1>8, ReturningSteps DEF ShutdownEnd
  <2> QED
    BY <1>2, <1>4, <1>5, <1>6, <2>1
<1>9. CASE ShutdownLocked(t)
  <2>1. PICK g : GoodBecomes(t, g) /\ g.op = "shutdown"
    BY <1>1, <1>9, ShutdownLockedDoes
  <2>2. Top(t).at = "lock" /\ UNCHANGED <<flags, members>>
    BY <1>9 DEF ShutdownLocked, Locking, At
  <2>3. PICK f : f = [op |-> "onDisconnected"]
    OBVIOUS
  <2> QED
    BY <1>7, <2>1, <2>2, <2>3
<1>10. ASSUME NEW id \in Id, ShutdownEach(t, id)
       PROVE  QuietInv'
  <2>1. PICK g : /\ g.op = "shutdown"
                 /\ \/ GoodBecomes(t, g)
                    \/ \E f : GoodCalls(t, f, g) /\ f.op = "onDisconnected"
    BY <1>1, <1>10, ShutdownEachDoes
  <2>2. Top(t).at = "each" /\ UNCHANGED <<flags, members>>
    BY <1>10 DEF ShutdownEach, At
  <2>3. PICK f : f = [op |-> "onDisconnected"]
    OBVIOUS
  <2> QED
    BY <1>7, <2>1, <2>2, <2>3
<1>11. CASE ShutdownBegin(t)
  <2>1. CASE Returns(t) /\ shutdownRequested /\ UNCHANGED flags
    <3>1. Top(t).at # "join" /\ UNCHANGED members
      BY <1>1, <1>11 DEF ShutdownBegin, At
    <3> QED
      BY <1>6, <2>1, <3>1
  <2>2. ASSUME ~shutdownRequested, shutdownRequested' = TRUE,
               NEW f, GoodBecomes(t, f), f.op = "shutdown", f.at = "join"
        PROVE  QuietInv'
    <3>1. (\A x \in FramesOf(stack', t) : x = f \/ x \in FramesOf(stack, t)) /\ stack'[t][1] = f
      BY <1>1, <2>2, FramesAfter DEF GoodBecomes
    <3>2. members' = members
      BY <1>11 DEF ShutdownBegin
    <3>3. stack'[t] # <<>>
      BY <1>1, <2>2 DEF GoodBecomes, Becomes, Swapped, Idle, Changed, Stacks
    <3>4. At("application", "shutdown", "join")'
      BY <1>3, <2>2, <3>1, <3>3 DEF At, Top
    <3>5. /\ Top("application")'.op # "destructor"
          /\ ~At("application", "destructor", "joinSession")'
      BY <3>4 DEF At
    <3>6. \A u \in Thread : u # t => stack'[u] = stack[u]
      BY <1>1 DEF Changed
    <3>7. Idle("heartbeat")' = Idle("heartbeat") /\ Idle("receive")' = Idle("receive")
          /\ Idle("session")' = Idle("session")
      BY <1>3, <3>6 DEF Idle, Thread
    <3>8. \A u \in Thread : \A x \in FramesOf(stack', u) :
              x.op = "shutdown" /\ x.at # "begin" => shutdownRequested'
      BY <2>2
    <3> QED
      BY <2>2, <3>2, <3>4, <3>5, <3>7, <3>8 DEF QuietInv
  <2> QED
    BY <1>1, <1>11, <2>1, <2>2, ShutdownBeginDoes
<1>12. CASE ShutdownJoin(t)
  <2>1. PICK f : GoodBecomes(t, f) /\ f.op = "shutdown" /\ f.at = "lock" /\ Top(t).at = "join"
    BY <1>1, <1>12, ShutdownJoinDoes
  <2>2. Idle("heartbeat") /\ UNCHANGED <<flags, members>>
    BY <1>12 DEF ShutdownJoin, HeartbeatEnded
  <2>3. (\A x \in FramesOf(stack', t) : x = f \/ x \in FramesOf(stack, t)) /\ stack'[t][1] = f
    BY <1>1, <2>1, FramesAfter DEF GoodBecomes
  <2>4. shutdownRequested /\ shutdownRequested'
    BY <1>2, <1>4, <1>5, <2>1, <2>2 DEF flags
  <2>5. \A u \in Thread : u # t => stack'[u] = stack[u]
    BY <1>1 DEF Changed
  <2>6. Idle("heartbeat")' /\ Idle("receive")' = Idle("receive")
        /\ Idle("session")' = Idle("session")
    BY <1>3, <2>2, <2>5 DEF Idle, Thread
  <2>7. ~At("application", "destructor", "joinSession")'
    BY <1>3, <2>1, <2>3 DEF At, Top
  <2> QED
    BY <2>2, <2>4, <2>6, <2>7 DEF QuietInv
<1> QED
  BY <1>8, <1>9, <1>10, <1>11, <1>12

(* Lemma: the destructor goes on when the threads have ended that use what   *)
(* it destroys.                                                              *)
LEMMA QuietDestructor ==
    ASSUME Orderly, QuietInv, members # "crashed",
           DestroyTables \/ DestroyPhysicalLayer \/ DestroySessionManager \/ DestroyRest
    PROVE  QuietInv'
<1>1. Ready /\ Stacks /\ "application" \in Thread
  BY DEF Orderly, Ready, Thread
<1>2. ~Idle("application") /\ Top("application").op = "destructor"
      /\ ~At("application", "shutdown", "join")
  BY DestructorDoes, <1>1 DEF At, Idle
<1>3. Changed("application") /\ UNCHANGED flags
  <2>1. Changed("application")
    BY <1>1, DestructorDoes, GoodKeeps DEF Orderly
  <2> QED
    BY <2>1 DEF DestroyTables, DestroyPhysicalLayer, DestroySessionManager, DestroyRest,
                DestructorStep
<1>4. shutdownRequested /\ shutdownRequested' /\ Idle("heartbeat")
  BY <1>2, <1>3 DEF QuietInv, flags
<1>5. Idle("heartbeat")' /\ Idle("receive")' = Idle("receive")
      /\ Idle("session")' = Idle("session")
  BY <1>3, <1>4 DEF Changed, Idle, Thread
<1>6. CASE DestroyPhysicalLayer
  <2>1. PICK f : GoodBecomes("application", f) /\ f.op = "destructor" /\ f.at = "joinReceive"
    BY <1>1, <1>6, DestructorDoes
  <2>2. stack'["application"][1] = f
    BY <1>1, <1>2, <2>1, FramesAfter DEF GoodBecomes
  <2>3. members' = "receiverStopped" /\ ~At("application", "destructor", "joinSession")'
    BY <1>1, <1>6, <2>1, <2>2, DestructorDoes DEF At, Top
  <2> QED
    BY <1>4, <1>5, <2>3 DEF QuietInv
<1>9. CASE DestroyTables
  <2>1. PICK f : GoodBecomes("application", f) /\ f.op = "destructor" /\ f.at = "members"
    BY <1>1, <1>9, DestructorDoes
  <2>2. stack'["application"][1] = f
    BY <1>1, <1>2, <2>1, FramesAfter DEF GoodBecomes
  <2>3. members' = "tablesGone" /\ ~At("application", "destructor", "joinSession")'
    BY <1>1, <1>9, <2>1, <2>2, DestructorDoes DEF At, Top
  <2> QED
    BY <1>4, <1>5, <2>3 DEF QuietInv
<1>7. CASE DestroySessionManager
  <2>1. members' = "sessionStopped" /\ Idle("receive")'
    BY <1>1, <1>5, <1>7, DestructorDoes
  <2> QED
    BY <1>4, <1>5, <2>1 DEF QuietInv
<1>8. CASE DestroyRest
  <2>1. members' = "gone" /\ Idle("session") /\ Returns("application")
        /\ At("application", "destructor", "joinSession")
    BY <1>1, <1>8, DestructorDoes
  <2>2. Idle("receive")
    BY <2>1 DEF QuietInv
  <2>3. Idle("application")'
    <3>1. Alone("application")
      BY <1>1, <1>2, TopStands DEF Ready
    <3>2. stack'["application"] = <<>>
      BY <1>1, <1>2, <2>1, <3>1, FramesAfter
    <3> QED
      BY <3>2 DEF Idle
  <2> QED
    BY <1>4, <1>5, <2>1, <2>2, <2>3 DEF QuietInv, At, Idle
<1> QED
  BY <1>6, <1>7, <1>8, <1>9

LEMMA QuietStep ==
    ASSUME Orderly, NoneShutsDown, QuietInv, Tables, Tables', Next
    PROVE  QuietInv'
<1>1. CASE UNCHANGED vars
  BY <1>1 DEF vars, flags, QuietInv, Idle, At, Top, FramesOf
<1>2. ASSUME NEW t \in Thread, PlainStep(t)
      PROVE  QuietInv'
  BY <1>2, QuietPlain
<1>3. ASSUME NEW t \in Thread, SpecialStep(t)
      PROVE  QuietInv'
  BY <1>3, QuietShutdown, QuietRemoving DEF SpecialStep
<1>4. CASE Initialize
  <2>1. Idle("application") /\ ~shutdownRequested /\ members = "alive" /\ UNCHANGED members
        /\ shutdownRequested' = shutdownRequested
    BY <1>4 DEF Initialize
  <2>2. Changed("heartbeat") /\ "heartbeat" \in Thread
    BY <1>4, PlainBeginnings, PlainKeeps DEF Orderly, Thread
  <2>3. Idle("application")'
    BY <2>1, <2>2 DEF Changed, Idle, Thread
  <2>4. PICK f : GoodBegins("heartbeat", f) /\ f.op = "heartbeatLoop"
    BY <1>4, BeginningSteps DEF Orderly
  <2>5. \A x \in FramesOf(stack', "heartbeat") : x.op # "shutdown"
    BY <2>4, FramesBegun DEF GoodBegins
  <2>6. \A u \in Thread : \A x \in FramesOf(stack', u) :
            x.op = "shutdown" /\ x.at # "begin" => shutdownRequested
    <3> SUFFICES ASSUME NEW u \in Thread, u # "heartbeat"
                 PROVE  \A x \in FramesOf(stack', u) :
                            x.op = "shutdown" /\ x.at # "begin" => shutdownRequested
      BY <2>5
    <3>1. FramesOf(stack', u) = FramesOf(stack, u)
      BY <2>2 DEF Changed, FramesOf
    <3> QED
      BY <3>1 DEF QuietInv
  <2> QED
    BY <2>1, <2>3, <2>6 DEF QuietInv, At, Idle
<1>5. CASE DestructorBegin
  <2>1. PICK f, g : /\ BeginsTwo("application", f, g)
                    /\ f.op = "shutdown" /\ f.at = "begin" /\ g.op = "destructor"
    BY <1>5, DestructorBeginDoes DEF Orderly
  <2>2. (\A x \in FramesOf(stack', "application") : x = f \/ x = g)
        /\ stack'["application"][1] = f /\ Changed("application") /\ Idle("application")
    BY <2>1, FramesBegun DEF BeginsTwo
  <2>3. UNCHANGED <<flags, members>>
    BY <1>5 DEF DestructorBegin
  <2>4. ~At("application", "shutdown", "join") /\ "application" \in Thread
    BY <2>2 DEF At, Idle, Thread
  <2> QED
    BY <2>1, <2>2, <2>3, <2>4, QuietKept
<1>6. ASSUME members # "crashed",
             DestroyTables \/ DestroyPhysicalLayer \/ DestroySessionManager \/ DestroyRest
      PROVE  QuietInv'
  BY <1>6, QuietDestructor
<1>7. CASE Crash
  BY <1>7 DEF Crash, flags, QuietInv, Idle, At, Top, FramesOf
<1> QED
  BY <1>1, <1>2, <1>3, <1>4, <1>5, <1>6, <1>7, NextIs DEF Orderly

(* Lemma: past its join, shutdown finds the heartbeat thread ended.          *)
LEMMA QuietFollows ==
    ASSUME Ready, NoneShutsDown, QuietInv
    PROVE  QuietAfterShutdown
<1>1. SUFFICES ASSUME NEW t \in Thread, NEW f \in FramesOf(stack, t),
                      f.op = "shutdown", f.at \in {"lock", "each"}
               PROVE  Idle("heartbeat")
  BY DEF QuietInv, QuietAfterShutdown
<1>2. PICK s : s = stack[t]
  OBVIOUS
<1>3. s \in Seq(Frame) /\ GoodStack(t, s)
  BY <1>2 DEF Ready, Stacks, StacksInv
<1>4. PICK i \in 1..Len(s) : f = s[i]
  BY <1>2, FramesAre DEF Ready
<1>5. t = "application"
  BY <1>1, <1>3, <1>4, ShutdownStands
<1>6. shutdownRequested
  BY <1>1 DEF QuietInv
<1>7. ~At("application", "shutdown", "join")
  <2> SUFFICES ASSUME At("application", "shutdown", "join") PROVE FALSE
    OBVIOUS
  <2>1. s # <<>> /\ s[1].op = "shutdown" /\ s[1].at = "join"
    BY <1>2, <1>5 DEF At, Top
  <2>2. 1 \in 1..Len(s)
    BY <1>3, <2>1
  <2>3. \/ 1 = Len(s)
        \/ 1 + 1 = Len(s) /\ s[1 + 1].op = "destructor"
    BY <1>3, <2>1, <2>2, ShutdownStands
  <2>4. i = 1 \/ (i = 2 /\ s[2].op = "destructor")
    <3>1. \A j \in 1..1 : j = 1
      OBVIOUS
    <3>2. \A j \in 1..2 : j = 1 \/ j = 2
      OBVIOUS
    <3>3. PICK n : n = Len(s)
      OBVIOUS
    <3>4. n = 1 \/ (n = 2 /\ s[2].op = "destructor")
      BY <2>3, <3>3
    <3>5. i \in 1..n
      BY <3>3
    <3> QED
      BY <3>1, <3>2, <3>4, <3>5
  <2> QED
    BY <1>1, <1>4, <2>1, <2>4
<1> QED
  BY <1>6, <1>7 DEF QuietInv

-----------------------------------------------------------------------------
(* Nobody waits for one that waits for him *)

Joining(t) == ~Idle(t) /\ Joins(Top(t)) # {}

(* Lemma: who joins another thread holds nothing.                            *)
LEMMA JoiningIs ==
    ASSUME Ready, NoneShutsDown, NEW t \in Thread, Joining(t)
    PROVE  /\ t = "application" /\ ~Holds(t, "mutex")
           /\ Joins(Top(t)) \subseteq {"heartbeat", "receive", "session"}
           /\ Wanted(Top(t)) = {}
<1>1. ~Idle(t) /\ Top(t).at \in {"join", "joinReceive", "joinSession"}
      /\ Joins(Top(t)) \subseteq {"heartbeat", "receive", "session"}
  BY DEF Joining, Joins
<1>2. Top(t) \in Frame /\ FrameInv(Top(t))
  BY <1>1, TopIs DEF Ready
<1>3. Top(t).op \in Op
  BY <1>2 DEF Frame
<1>4. Top(t).op \in {"shutdown", "destructor"}
  BY <1>1, <1>2, <1>3 DEF FrameInv, AtItsPlace, Op, Handlers, Removers, Waiting
<1>5. t = "application"
  BY <1>1, <1>4, ShutdownTop
<1>6. PICK s : s = stack[t]
  OBVIOUS
<1>7. s \in Seq(Frame) /\ s # <<>> /\ Top(t) = s[1] /\ GoodStack(t, s) /\ 1 \in 1..Len(s)
  BY <1>1, <1>6 DEF Ready, Stacks, StacksInv, Idle, Top
<1>8. \/ 1 = Len(s)
      \/ 1 + 1 = Len(s) /\ s[1 + 1].op = "destructor"
  BY <1>4, <1>7, ShutdownStands
<1>9. \A i \in 1..Len(s) : i = 1 \/ (i = 2 /\ s[2].op = "destructor")
  <2>1. \A j \in 1..1 : j = 1
    OBVIOUS
  <2>2. \A j \in 1..2 : j = 1 \/ j = 2
    OBVIOUS
  <2>3. PICK n : n = Len(s)
    OBVIOUS
  <2>4. n = 1 \/ (n = 2 /\ s[2].op = "destructor")
    BY <1>8, <2>3
  <2>5. \A i \in 1..n : i = 1 \/ (i = 2 /\ s[2].op = "destructor")
    BY <2>1, <2>2, <2>4
  <2> QED
    BY <2>3, <2>5
<1>10. ~Holder(Top(t))
  BY <1>1, <1>4 DEF Holder, Handlers, Removers
<1>11. \A f : f.op = "destructor" => ~Holder(f)
  BY DEF Holder, Handlers, Removers
<1>12. \A i \in 1..Len(s) : ~Holder(s[i])
  BY <1>7, <1>9, <1>10, <1>11
<1>13. ~Holds(t, "mutex")
  BY <1>6, <1>12, HoldsIs DEF Ready
<1> QED
  BY <1>1, <1>5, <1>13 DEF Wanted

LEMMA WaitingIs ==
    ASSUME Ready, NEW t \in Thread, NEW u \in Thread, WaitsFor(t, u), ~Joining(t)
    PROVE  Holds(u, "mutex") /\ u # t
<1>1. ~Idle(t) /\ u \notin Joins(Top(t))
  BY DEF WaitsFor, Joining
<1>2. PICK m \in Wanted(Top(t)) : Holds(u, m) /\ (u # t \/ m \notin Recursive)
  BY <1>1 DEF WaitsFor
<1>3. m \in {"mutex", "queueMutex"}
  BY DEF Wanted
<1>4. ~Holds(u, "queueMutex")
  BY HoldsIs DEF Ready
<1> QED
  BY <1>2, <1>3, <1>4 DEF Recursive

LEMMA NoCircle ==
    ASSUME Ready, NoneShutsDown, OneHolder
    PROVE  NoCircularWait
<1>1. SUFFICES ASSUME NEW circle \in SUBSET Thread, circle # {},
                      \A t \in circle : \E u \in circle : WaitsFor(t, u)
               PROVE  FALSE
  BY DEF NoCircularWait, Blocked
<1>2. \E t \in circle : ~Joining(t)
  <2>1. PICK t \in circle : TRUE
    BY <1>1
  <2>2. PICK u \in circle : WaitsFor(t, u)
    BY <1>1, <2>1
  <2>3. CASE Joining(t)
    <3>1. t = "application" /\ Joins(Top(t)) \subseteq {"heartbeat", "receive", "session"}
          /\ Wanted(Top(t)) = {}
      BY <2>3, JoiningIs
    <3>2. u # "application"
      BY <2>2, <3>1 DEF WaitsFor
    <3>3. ~Joining(u)
      BY <3>2, JoiningIs
    <3> QED
      BY <3>3
  <2> QED
    BY <2>1, <2>3
<1>3. PICK t \in circle : ~Joining(t)
  BY <1>2
<1>4. PICK u \in circle : WaitsFor(t, u)
  BY <1>1
<1>5. Holds(u, "mutex")
  BY <1>3, <1>4, WaitingIs
<1>6. ~Joining(u)
  BY <1>5, JoiningIs
<1>7. PICK v \in circle : WaitsFor(u, v)
  BY <1>1
<1>8. Holds(v, "mutex") /\ v # u
  BY <1>6, <1>7, WaitingIs
<1> QED
  BY <1>5, <1>8 DEF OneHolder

-----------------------------------------------------------------------------
(* One connection at a time is being removed *)

(* The frames that remove connections. *)
Mover(f) == f.op \in Removers \/ (f.op = "shutdown" /\ f.at = "each")

(* What stands under the handlers and the loop: nothing. *)
Base == Handlers \cup {"heartbeatLoop", "destructor", "onMessageReceived"}

LEMMA StandsFacts ==
    /\ \A f, g : StandsOn(f, g) => f.op \notin Base
    /\ \A f, g : StandsOn(f, g) /\ f.op \in Callback => CalledBack(f, g)
    /\ \A f, g : StandsOn(f, g) /\ f.op \in Callback \ {"onDisconnected"} =>
           g.op \in (Handlers \ Removers) \cup {"heartbeatLoop"}
    /\ \A f, g : StandsOn(f, g) /\ f.op \in {"call", "disconnect", "setRetransmissionConfig"} =>
           CalledFrom(f, g)
<1> USE DEF Base, Handlers, Removers, Callback
<1>1. \A f, g : StandsOn(f, g) => f.op \notin Base
  BY DEF StandsOn, CalledBack, CalledFrom
<1>2. \A f, g : StandsOn(f, g) /\ f.op \in Callback => CalledBack(f, g)
  BY DEF StandsOn, CalledFrom
<1>3. \A f, g : CalledBack(f, g) /\ f.op \in Callback \ {"onDisconnected"} =>
          g.op \in (Handlers \ Removers) \cup {"heartbeatLoop"}
  BY DEF CalledBack
<1>4. \A f, g : StandsOn(f, g) /\ f.op \in {"call", "disconnect", "setRetransmissionConfig"} =>
          CalledFrom(f, g)
  BY DEF StandsOn, CalledBack
<1> QED
  BY <1>1, <1>2, <1>3, <1>4

(* Lemma: nothing stands under a handler.                                    *)
LEMMA BaseIsLast ==
    ASSUME NEW t, NEW s \in Seq(Frame), GoodStack(t, s), NEW i \in 1..Len(s), s[i].op \in Base
    PROVE  i = Len(s)
<1>1. PICK n \in Nat : n = Len(s)
  OBVIOUS
<1>2. \A j \in 1..(n - 1) : StandsOn(s[j], s[j + 1])
  BY <1>1 DEF GoodStack
<1>3. i \notin 1..(n - 1)
  BY <1>2, StandsFacts
<1> QED
  BY <1>1, <1>3

(* Lemma: a callback other than onDisconnected was called by the first frame *)
(* of its thread, or by none.                                                *)
LEMMA UnderCallback ==
    ASSUME NEW t, NEW s \in Seq(Frame), GoodStack(t, s), NEW i \in 1..Len(s),
           s[i].op \in Callback \ {"onDisconnected"}
    PROVE  \A j \in 1..Len(s) : j > i =>
               /\ j = i + 1 /\ CalledBack(s[i], s[j])
               /\ s[j].op \in (Handlers \ Removers) \cup {"heartbeatLoop"}
<1>1. PICK n \in Nat : n = Len(s)
  OBVIOUS
<1>2. \A j \in 1..(n - 1) : StandsOn(s[j], s[j + 1])
  BY <1>1 DEF GoodStack
<1>3. SUFFICES ASSUME NEW j \in 1..n, j > i
               PROVE  /\ j = i + 1 /\ CalledBack(s[i], s[j])
                      /\ s[j].op \in (Handlers \ Removers) \cup {"heartbeatLoop"}
  BY <1>1
<1>4. i \in 1..(n - 1) /\ i + 1 \in 1..n
  BY <1>1, <1>3
<1>5. StandsOn(s[i], s[i + 1])
  BY <1>2, <1>4
<1>6. CalledBack(s[i], s[i + 1])
      /\ s[i + 1].op \in (Handlers \ Removers) \cup {"heartbeatLoop"}
  BY <1>5, StandsFacts
<1>7. i + 1 = n
  BY <1>1, <1>4, <1>6, BaseIsLast DEF Base
<1>8. j = i + 1
  BY <1>3, <1>4, <1>7
<1> QED
  BY <1>6, <1>8

(* Lemma: under a frame that removes there is none that removes another; nor *)
(* under a call of a callback that may disconnect.                           *)
LEMMA UnderMover ==
    ASSUME Careful, NEW t, NEW s \in Seq(Frame), GoodStack(t, s), NEW i \in 1..Len(s),
           \/ Mover(s[i])
           \/ /\ s[i].op = "call"
              /\ i < Len(s) => \E whose \in {"own", "other"} :
                                  <<"disconnect", whose>> \in MayCall[s[i + 1].op]
    PROVE  /\ \A j \in 1..Len(s) : j > i => ~Mover(s[j])
           /\ s[i].op \in {"call", "disconnect"} /\ i < Len(s) =>
                 /\ s[i + 1].op \in Callback \ {"onDisconnected"}
                 /\ \A j \in 1..Len(s) : j > i + 1 => j = i + 2 /\ CalledBack(s[i + 1], s[j])
<1>1. PICK n \in Nat : n = Len(s)
  OBVIOUS
<1>2. \A j \in 1..(n - 1) : StandsOn(s[j], s[j + 1])
  BY <1>1 DEF GoodStack
<1>3. CASE i = n
  BY <1>1, <1>3
<1>4. CASE i < n
  <2>1. i \in 1..(n - 1) /\ i + 1 \in 1..n
    BY <1>1, <1>4
  <2>2. StandsOn(s[i], s[i + 1])
    BY <1>2, <2>1
  <2>3. CASE s[i].op \in {"call", "disconnect"}
    <3>1. CalledFrom(s[i], s[i + 1])
      BY <2>2, <2>3, StandsFacts
    <3>2. s[i + 1].op \in Callback
      BY <3>1 DEF CalledFrom
    <3>3. s[i + 1].op # "onDisconnected"
      <4>1. /\ <<"disconnect", "own">> \notin MayCall["onDisconnected"]
            /\ <<"disconnect", "other">> \notin MayCall["onDisconnected"]
        BY DEF Careful
      <4>2. CASE s[i].op = "disconnect"
        BY <3>1, <4>1, <4>2 DEF CalledFrom
      <4>3. CASE s[i].op = "call"
        <5>1. ~Mover(s[i])
          BY <4>3 DEF Mover, Removers
        <5> QED
          BY <1>1, <1>4, <4>1, <5>1
      <4> QED
        BY <2>3, <4>2, <4>3
    <3>4. \A j \in 1..Len(s) : j > i + 1 =>
              /\ j = (i + 1) + 1 /\ CalledBack(s[i + 1], s[j])
              /\ s[j].op \in (Handlers \ Removers) \cup {"heartbeatLoop"}
      BY <1>1, <2>1, <3>2, <3>3, UnderCallback
    <3>5. \A f : f.op \in (Handlers \ Removers) \cup {"heartbeatLoop"} \cup Callback => ~Mover(f)
      BY DEF Mover, Handlers, Removers, Callback
    <3>6. \A j \in 1..Len(s) : j > i => j = i + 1 \/ j > i + 1
      BY <1>1
    <3>7. (i + 1) + 1 = i + 2
      OBVIOUS
    <3> QED
      BY <3>2, <3>3, <3>4, <3>5, <3>6, <3>7
  <2>4. CASE s[i].op \notin {"call", "disconnect"}
    <3>1. s[i].op = "shutdown"
      <4>1. s[i].op \notin Base
        BY <2>2, StandsFacts
      <4> QED
        BY <2>4, <4>1 DEF Mover, Base, Removers, Handlers
    <3>2. i + 1 = Len(s) /\ s[i + 1].op = "destructor"
      BY <1>1, <1>4, <3>1, ShutdownStands DEF Careful
    <3>3. ~Mover(s[i + 1])
      BY <3>2 DEF Mover, Removers
    <3>4. \A j \in 1..Len(s) : j > i => j = i + 1
      BY <1>1, <3>2
    <3> QED
      BY <2>4, <3>3, <3>4
  <2> QED
    BY <2>3, <2>4
<1>5. i = n \/ i < n
  BY <1>1
<1> QED
  BY <1>3, <1>4, <1>5

(* Lemma: who holds the mutex or finds it free is the only one to remove.    *)
LEMMA OthersMoveNot ==
    ASSUME Orderly, NEW t \in Thread, Holds(t, "mutex") \/ Free(t, "mutex")
    PROVE  \A u \in Thread : u # t => \A x \in FramesOf(stack, u) : ~Mover(x)
<1>1. SUFFICES ASSUME NEW u \in Thread, u # t, NEW x \in FramesOf(stack, u), Mover(x)
               PROVE  FALSE
  OBVIOUS
<1>2. Holder(x)
  BY <1>1 DEF Mover, Holder
<1>3. Holds(u, "mutex")
  BY <1>2, HoldsIs DEF Orderly, Ready
<1> QED
  BY <1>1, <1>3 DEF Orderly, OneHolder, Free

LEMMA UnderMovesNot ==
    ASSUME Orderly, Careful, NEW t \in Thread, ~Idle(t),
           \/ Mover(Top(t))
           \/ Top(t).op \in Base
           \/ Top(t).op = "shutdown"
           \/ /\ Top(t).op = "call"
              /\ ~Alone(t) => \E whose \in {"own", "other"} :
                                 <<"disconnect", whose>> \in MayCall[stack[t][2].op]
    PROVE  \A x \in Under(t) : ~Mover(x)
<1>1. PICK s : s = stack[t]
  OBVIOUS
<1>2. s \in Seq(Frame) /\ s # <<>> /\ Top(t) = s[1] /\ GoodStack(t, s) /\ 1 \in 1..Len(s)
  BY <1>1 DEF Orderly, Ready, Stacks, StacksInv, Idle, Top
<1>3. PICK n \in Nat : n = Len(s)
  BY <1>2
<1>4. Under(t) = {s[j] : j \in 2..n} /\ (Alone(t) <=> n = 1) /\ \A j \in 2..n : j \in 1..n /\ j > 1
  BY <1>1, <1>3 DEF Under, Alone
<1>5. CASE Top(t).op \in Base
  BY <1>2, <1>3, <1>4, <1>5, BaseIsLast
<1>6. CASE Top(t).op = "shutdown"
  <2>1. \/ 1 = n
        \/ 1 + 1 = n /\ s[1 + 1].op = "destructor"
    BY <1>2, <1>3, <1>6, ShutdownStands DEF Careful
  <2>2. \A j \in 2..n : s[j].op = "destructor"
    <3>1. \A j \in 2..1 : FALSE
      OBVIOUS
    <3>2. \A j \in 2..2 : j = 2
      OBVIOUS
    <3>3. n = 1 \/ (n = 2 /\ s[2].op = "destructor")
      BY <2>1
    <3> QED
      BY <3>1, <3>2, <3>3
  <2> QED
    BY <1>4, <2>2 DEF Mover, Removers
<1>7. CASE Mover(Top(t))
  <2>1. \A j \in 1..Len(s) : j > 1 => ~Mover(s[j])
    BY <1>2, <1>7, UnderMover
  <2> QED
    BY <1>3, <1>4, <2>1
<1>8. CASE /\ Top(t).op = "call"
           /\ ~Alone(t) => \E whose \in {"own", "other"} :
                              <<"disconnect", whose>> \in MayCall[stack[t][2].op]
  <2>1. /\ s[1].op = "call"
        /\ 1 < Len(s) => \E whose \in {"own", "other"} :
                             <<"disconnect", whose>> \in MayCall[s[1 + 1].op]
    <3>1. 1 < n => ~Alone(t)
      BY <1>4
    <3>2. 1 + 1 = 2
      OBVIOUS
    <3> QED
      BY <1>1, <1>2, <1>3, <1>8, <3>1, <3>2
  <2>2. \A j \in 1..Len(s) : j > 1 => ~Mover(s[j])
    BY <1>2, <2>1, UnderMover
  <2> QED
    BY <1>3, <1>4, <2>2
<1> QED
  BY <1>5, <1>6, <1>7, <1>8

(* Lemma: Removing, of frames that remove.                                   *)
LEMMA RemovingIs ==
    \A f, id : Removing(f, id) => Mover(f)
BY DEF Removing, Mover

(* Lemma: steps that neither tell nor change the frames that remove.         *)
LEMMA ToldKept ==
    ASSUME ToldInv, NEW t \in Thread, Changed(t), told' = told,
           \A x \in FramesOf(stack', t) : Mover(x) => x \in FramesOf(stack, t),
           \A y \in FramesOf(stack, t) : Mover(y) => y \in FramesOf(stack', t),
           \/ \A id \in Id : Active(id)' => Active(id)
           \/ \A u \in Thread : \A x \in FramesOf(stack, u) : ~Mover(x)
    PROVE  ToldInv'
<1>1. \A u \in Thread : u # t => FramesOf(stack', u) = FramesOf(stack, u)
  BY DEF Changed, FramesOf
<1>2. ASSUME NEW id \in Id, told[id] # 0
      PROVE  \E u \in Thread : \E x \in FramesOf(stack', u) : Removing(x, id)
  <2>1. PICK u \in Thread : \E y \in FramesOf(stack, u) : Removing(y, id)
    BY <1>2 DEF ToldInv
  <2>2. PICK y \in FramesOf(stack, u) : Removing(y, id)
    BY <2>1
  <2>3. CASE u # t
    BY <1>1, <2>2, <2>3
  <2>4. CASE u = t
    BY <2>2, <2>4, RemovingIs
  <2> QED
    BY <2>3, <2>4
<1>3. ASSUME NEW u \in Thread, NEW x \in FramesOf(stack', u), NEW id \in Id, Removing(x, id),
             x.op \in Removers \/ Active(id)'
      PROVE  told[id] = 1
  <2>1. x \in FramesOf(stack, u)
    BY <1>1, <1>3, RemovingIs
  <2>2. x.op \in Removers \/ Active(id) \/ \A y \in FramesOf(stack, u) : ~Mover(y)
    BY <1>3
  <2>3. x.op \in Removers \/ Active(id)
    BY <1>3, <2>1, <2>2, RemovingIs
  <2> QED
    BY <1>3, <2>1, <2>3 DEF ToldInv
<1>4. \A id \in Id : told[id] \in {0, 1}
  BY DEF ToldInv
<1> QED
  BY <1>2, <1>3, <1>4 DEF ToldInv

(* Lemma: what plain steps do to the frames that remove.                     *)
LEMMA PlainMovers ==
    ASSUME Ready, NEW t \in Thread, Plain(t)
    PROVE  /\ \A x \in FramesOf(stack', t) : Mover(x) => x \in FramesOf(stack, t)
           /\ \A y \in FramesOf(stack, t) : Mover(y) => y \in FramesOf(stack', t)
<1>1. Stacks
  BY DEF Ready
<1>2. \A f : PlainFrame(f) => ~Mover(f)
  BY DEF PlainFrame, Mover
<1>3. PlainTop(t) => ~Idle(t) /\ ~Mover(Top(t))
  BY DEF PlainTop, Mover
<1>4. CASE PlainTop(t) /\ Returns(t)
  BY <1>1, <1>3, <1>4, FramesAfter
<1>5. ASSUME PlainTop(t), NEW f, GoodBecomes(t, f), PlainFrame(f)
      PROVE  /\ \A x \in FramesOf(stack', t) : Mover(x) => x \in FramesOf(stack, t)
             /\ \A y \in FramesOf(stack, t) : Mover(y) => y \in FramesOf(stack', t)
  BY <1>1, <1>2, <1>3, <1>5, FramesAfter DEF GoodBecomes
<1>6. ASSUME PlainTop(t), NEW f, NEW g, GoodCalls(t, f, g), PlainFrame(f), PlainFrame(g)
      PROVE  /\ \A x \in FramesOf(stack', t) : Mover(x) => x \in FramesOf(stack, t)
             /\ \A y \in FramesOf(stack, t) : Mover(y) => y \in FramesOf(stack', t)
  BY <1>1, <1>2, <1>3, <1>6, FramesAfter DEF GoodCalls
<1>7. ASSUME NEW f, GoodBegins(t, f), PlainFrame(f)
      PROVE  /\ \A x \in FramesOf(stack', t) : Mover(x) => x \in FramesOf(stack, t)
             /\ \A y \in FramesOf(stack, t) : Mover(y) => y \in FramesOf(stack', t)
  <2>1. (\A x \in FramesOf(stack', t) : x = f) /\ FramesOf(stack, t) = {}
    BY <1>1, <1>7, FramesBegun, FramesAre DEF GoodBegins, Begins
  <2> QED
    BY <1>2, <1>7, <2>1
<1> QED
  BY <1>4, <1>5, <1>6, <1>7 DEF Plain

LEMMA ToldPlain ==
    ASSUME Orderly, ToldInv, NEW t \in Thread, PlainStep(t)
    PROVE  ToldInv'
<1>1. Plain(t) /\ told' = told /\ Changed(t) /\ Ready
  BY PlainKeeps DEF PlainStep, Orderly
<1>2. ASSUME t = "receive", Locking(t, "onMessageReceived")
      PROVE  \A u \in Thread : \A x \in FramesOf(stack, u) : ~Mover(x)
  <2>1. ~Idle(t) /\ Free(t, "mutex") /\ Top(t).op = "onMessageReceived"
    BY <1>2, LockingIs DEF Op, NeedsQueueMutex
  <2>2. \A u \in Thread : u # t => \A x \in FramesOf(stack, u) : ~Mover(x)
    BY <2>1, OthersMoveNot
  <2>3. Alone(t) /\ stack[t] \in Seq(Frame)
    BY <1>1, <2>1, TopStands DEF Ready, Stacks
  <2>4. FramesOf(stack, t) = {Top(t)}
    <3>1. Under(t) = {}
      BY <2>3 DEF Under, Alone
    <3> QED
      BY <1>1, <2>1, <3>1, UnderStays DEF Ready
  <2>5. ~Mover(Top(t))
    BY <2>1 DEF Mover, Removers
  <2> QED
    BY <2>2, <2>4, <2>5
<1> QED
  BY <1>1, <1>2, PlainMovers, ToldKept DEF PlainStep

(* Lemma: when nobody removes anything, everything told is over.             *)
LEMMA NothingTold ==
    ASSUME ToldInv, \A u \in Thread : \A x \in FramesOf(stack, u) : ~Mover(x)
    PROVE  \A id \in Id : told[id] = 0
BY RemovingIs DEF ToldInv

LEMMA ToldRemoveBegin ==
    ASSUME Orderly, Careful, Tables, ToldInv, NEW t \in Thread, NEW op \in Removers,
           NEW id \in Id, RemoveBegin(t, op, id)
    PROVE  ToldInv'
<1>1. Ready /\ Stacks
  BY DEF Orderly, Ready
<1>2. PICK f, g : GoodCalls(t, f, g) /\ f.op = "onDisconnected" /\ g.op = op /\ g.id = id
  BY <1>1, RemoveBeginDoes
<1>3. /\ Free(t, "mutex") /\ ~Idle(t)
      /\ Top(t).op = (IF op = "disconnect" THEN "call" ELSE "onMessageReceived")
      /\ op = "disconnect" => Permitted(t, op, id)
  BY <1>1, RemoveBeginDoes
<1>4. op # "disconnect" => Top(t).op \in Base
  BY <1>3 DEF Base
<1>5. ASSUME op = "disconnect", ~Alone(t)
      PROVE  \E whose \in {"own", "other"} : <<"disconnect", whose>> \in MayCall[stack[t][2].op]
  <2>1. Len(stack[t]) > 1
    BY <1>1, <1>3, <1>5, TopIs DEF Ready
  <2>2. id # 0
    BY ThreadsAssumption DEF Id
  <2> QED
    BY <1>3, <1>5, <2>1, <2>2 DEF Permitted
<1>6. \A x \in Under(t) : ~Mover(x)
  BY <1>3, <1>4, <1>5, UnderMovesNot
<1>7. ~Mover(Top(t))
  BY <1>3 DEF Mover, Removers
<1>8. FramesOf(stack, t) = {Top(t)} \cup Under(t) /\ FramesOf(stack', t) = {f, g} \cup Under(t)
  BY <1>1, <1>2, <1>3, UnderStays DEF GoodCalls
<1>9. \A u \in Thread : u # t => \A x \in FramesOf(stack, u) : ~Mover(x)
  BY <1>3, OthersMoveNot
<1>10. \A c \in Id : told[c] = 0
  <2>1. \A u \in Thread : \A x \in FramesOf(stack, u) : ~Mover(x)
    BY <1>6, <1>7, <1>8, <1>9
  <2> QED
    BY <2>1, NothingTold
<1>11. told' = [told EXCEPT ![id] = @ + 1]
  BY DEF RemoveBegin
<1>12. told'[id] = 1 /\ \A c \in Id : c # id => told'[c] = 0
  BY <1>10, <1>11 DEF Tables
<1>13. \A u \in Thread : u # t => FramesOf(stack', u) = FramesOf(stack, u)
  BY <1>2 DEF GoodCalls, Calls, Changed, FramesOf
<1>14. ~Mover(f) /\ Removing(g, id) /\ \A c : Removing(g, c) => c = id
  BY <1>2 DEF Mover, Removing, Removers
<1>15. \A u \in Thread : \A x \in FramesOf(stack', u), c \in Id : Removing(x, c) => c = id
  BY <1>6, <1>8, <1>9, <1>13, <1>14, RemovingIs
<1>16. \E u \in Thread : \E x \in FramesOf(stack', u) : Removing(x, id)
  BY <1>8, <1>14
<1> QED
  BY <1>12, <1>15, <1>16 DEF ToldInv

LEMMA ToldRemoveEnd ==
    ASSUME Orderly, Careful, Tables, ToldInv, NEW t \in Thread, NEW op \in Removers,
           RemoveEnd(t, op)
    PROVE  /\ ToldInv'
           /\ told[Top(t).id] = 1
<1>1. Ready /\ Stacks
  BY DEF Orderly, Ready
<1>2. Returns(t) /\ ~Idle(t) /\ Top(t).op = op /\ Mover(Top(t))
  BY <1>1, ReturningSteps DEF Returns, Mover
<1>3. PICK id : id = Top(t).id
  OBVIOUS
<1>4. id \in Id /\ Holds(t, "mutex")
  <2>1. FrameInv(Top(t)) /\ (Holder(Top(t)) => Holds(t, "mutex"))
    BY <1>1, <1>2, TopIs DEF Ready
  <2> QED
    BY <1>2, <1>3, <2>1 DEF FrameInv, AtItsPlace, Holder
<1>5. \A x \in Under(t) : ~Mover(x)
  BY <1>2, UnderMovesNot
<1>6. FramesOf(stack, t) = {Top(t)} \cup Under(t) /\ FramesOf(stack', t) = Under(t)
  BY <1>1, <1>2, UnderStays
<1>7. \A u \in Thread : u # t => \A x \in FramesOf(stack, u) : ~Mover(x)
  BY <1>4, OthersMoveNot
<1>8. Removing(Top(t), id) /\ \A c : Removing(Top(t), c) => c = id
  BY <1>2, <1>3 DEF Removing, Removers
<1>9. \A c \in Id : told[c] # 0 => c = id
  BY <1>5, <1>6, <1>7, <1>8, RemovingIs DEF ToldInv
<1>10. told[id] = 1
  BY <1>2, <1>4, <1>6, <1>8 DEF ToldInv
<1>11. \A c \in Id : told'[c] = 0
  <2>1. told' = [told EXCEPT ![id] = 0]
    BY <1>3 DEF RemoveEnd
  <2> QED
    BY <1>9, <2>1 DEF Tables
<1>12. \A u \in Thread : u # t => FramesOf(stack', u) = FramesOf(stack, u)
  BY <1>2 DEF Returns, Changed, FramesOf
<1>13. \A u \in Thread : \A x \in FramesOf(stack', u) : ~Mover(x)
  BY <1>5, <1>6, <1>7, <1>12
<1>14. ToldInv'
  BY <1>11, <1>13, RemovingIs DEF ToldInv
<1> QED
  BY <1>3, <1>10, <1>14

(* Lemma: shutdown tells those that are active, each once.                   *)
LEMMA ToldShutdownEach ==
    ASSUME Orderly, Careful, Tables, ToldInv, NEW t \in Thread, NEW id \in Id,
           ShutdownEach(t, id)
    PROVE  ToldInv'
<1>1. Ready /\ Stacks
  BY DEF Orderly, Ready
<1>2. /\ ~Idle(t) /\ Top(t).op = "shutdown" /\ Top(t).at = "each" /\ id \in Top(t).todo
      /\ Mover(Top(t))
  BY <1>1, ShutdownEachDoes DEF Mover
<1>3. PICK g : /\ g.op = "shutdown" /\ g.at = "each" /\ g.todo = Top(t).todo \ {id}
               /\ \/ ~Known(id) /\ UNCHANGED told /\ GoodBecomes(t, g)
                  \/ /\ Known(id) /\ told' = [told EXCEPT ![id] = @ + 1]
                     /\ \E f : GoodCalls(t, f, g) /\ f.op = "onDisconnected"
  BY <1>1, ShutdownEachDoes
<1>4. Holds(t, "mutex")
  BY <1>1, <1>2, TopIs DEF Ready, Holder
<1>5. \A x \in Under(t) : ~Mover(x)
  BY <1>2, UnderMovesNot
<1>6. \A u \in Thread : u # t => \A x \in FramesOf(stack, u) : ~Mover(x)
  BY <1>4, OthersMoveNot
<1>7. FramesOf(stack, t) = {Top(t)} \cup Under(t)
  BY <1>1, <1>2, UnderStays
<1>8. /\ g \in FramesOf(stack', t) /\ Changed(t)
      /\ \A x \in FramesOf(stack', t) : x = g \/ ~Mover(x)
  <2>1. CASE GoodBecomes(t, g)
    <3>1. FramesOf(stack', t) = {g} \cup Under(t) /\ Changed(t)
      BY <1>1, <1>2, <2>1, UnderStays DEF GoodBecomes, Becomes
    <3> QED
      BY <1>5, <3>1
  <2>2. ASSUME NEW f, GoodCalls(t, f, g), f.op = "onDisconnected"
        PROVE  /\ g \in FramesOf(stack', t) /\ Changed(t)
               /\ \A x \in FramesOf(stack', t) : x = g \/ ~Mover(x)
    <3>1. FramesOf(stack', t) = {f, g} \cup Under(t) /\ Changed(t)
      BY <1>1, <1>2, <2>2, UnderStays DEF GoodCalls, Calls
    <3>2. ~Mover(f)
      BY <2>2 DEF Mover, Removers
    <3> QED
      BY <1>5, <3>1, <3>2
  <2> QED
    BY <1>3, <2>1, <2>2
<1>9. \A u \in Thread : u # t => FramesOf(stack', u) = FramesOf(stack, u)
  BY <1>8 DEF Changed, FramesOf
<1>10. connections' = connections
  BY DEF ShutdownEach, tables
<1>11. \A c : Removing(Top(t), c) <=> c \notin Top(t).todo
  BY <1>2 DEF Removing, Removers
<1>12. \A c : Removing(g, c) <=> c = id \/ c \notin Top(t).todo
  BY <1>2, <1>3 DEF Removing, Removers
<1>13. \A c \in Id : told[c] # 0 => c \notin Top(t).todo
  BY <1>5, <1>6, <1>7, <1>11, RemovingIs DEF ToldInv
<1>14. \A c \in Id : c \notin Top(t).todo /\ Active(c) => told[c] = 1
  BY <1>7, <1>11 DEF ToldInv
<1>15. told[id] = 0
  BY <1>2, <1>13
<1>16. \/ ~Known(id) /\ told' = told
       \/ told'[id] = 1 /\ \A c \in Id : c # id => told'[c] = told[c]
  BY <1>3, <1>15 DEF Tables
<1>17. \A c \in Id : told'[c] \in {0, 1}
  BY <1>16 DEF ToldInv
<1>18. \A c \in Id : told'[c] # 0 => Removing(g, c)
  BY <1>12, <1>13, <1>16
<1>19. \A c \in Id : Removing(g, c) /\ Active(c)' => told'[c] = 1
  BY <1>10, <1>12, <1>14, <1>16 DEF Active, Known
<1>20. \A u \in Thread : \A x \in FramesOf(stack', u) : Mover(x) => x = g
  BY <1>6, <1>8, <1>9
<1>21. g.op \notin Removers
  BY <1>3 DEF Removers
<1> QED
  BY <1>8, <1>17, <1>18, <1>19, <1>20, <1>21, RemovingIs DEF ToldInv

LEMMA ToldShutdownLocked ==
    ASSUME Orderly, Careful, Tables, ToldInv, NEW t \in Thread, ShutdownLocked(t)
    PROVE  ToldInv'
<1>1. Ready /\ Stacks
  BY DEF Orderly, Ready
<1>2. ~Idle(t) /\ Top(t).op = "shutdown" /\ Top(t).at = "lock" /\ Free(t, "mutex")
  BY <1>1, ShutdownLockedDoes
<1>3. PICK f : /\ GoodBecomes(t, f) /\ f.op = "shutdown" /\ f.at = "each"
               /\ f.todo = ToDisconnect
  BY <1>1, ShutdownLockedDoes
<1>4. \A x \in Under(t) : ~Mover(x)
  BY <1>2, UnderMovesNot
<1>5. \A u \in Thread : u # t => \A x \in FramesOf(stack, u) : ~Mover(x)
  BY <1>2, OthersMoveNot
<1>6. ~Mover(Top(t))
  BY <1>2 DEF Mover, Removers
<1>7. FramesOf(stack, t) = {Top(t)} \cup Under(t) /\ FramesOf(stack', t) = {f} \cup Under(t)
      /\ Changed(t)
  BY <1>1, <1>2, <1>3, UnderStays DEF GoodBecomes, Becomes
<1>8. \A c \in Id : told[c] = 0
  <2>1. \A u \in Thread : \A x \in FramesOf(stack, u) : ~Mover(x)
    BY <1>4, <1>5, <1>6, <1>7
  <2> QED
    BY <2>1, NothingTold
<1>9. told' = told /\ connections' = connections
  BY DEF ShutdownLocked, tables
<1>10. \A u \in Thread : u # t => FramesOf(stack', u) = FramesOf(stack, u)
  BY <1>7 DEF Changed, FramesOf
<1>11. \A u \in Thread : \A x \in FramesOf(stack', u) : Mover(x) => x = f
  BY <1>4, <1>5, <1>7, <1>10
<1>12. \A c \in Id : Removing(f, c) => f.op \notin Removers /\ ~Active(c)'
  BY <1>3, <1>9 DEF Removing, Removers, ToDisconnect, Active
<1> QED
  BY <1>8, <1>9, <1>11, <1>12, RemovingIs DEF ToldInv

LEMMA ToldShutdownEnd ==
    ASSUME Orderly, Careful, Tables, ToldInv, NEW t \in Thread, ShutdownEnd(t)
    PROVE  /\ ToldInv'
           /\ \A id \in Id : Active(id) => told[id] = 1
<1>1. Ready /\ Stacks
  BY DEF Orderly, Ready
<1>2. Returns(t) /\ ~Idle(t) /\ Top(t).op = "shutdown" /\ Top(t).at = "each"
      /\ Mover(Top(t)) /\ Top(t).todo = {}
  BY <1>1, ReturningSteps DEF Returns, Mover, ShutdownEnd
<1>3. Holds(t, "mutex")
  BY <1>1, <1>2, TopIs DEF Ready, Holder
<1>4. \A x \in Under(t) : ~Mover(x)
  BY <1>2, UnderMovesNot
<1>5. \A u \in Thread : u # t => \A x \in FramesOf(stack, u) : ~Mover(x)
  BY <1>3, OthersMoveNot
<1>6. FramesOf(stack, t) = {Top(t)} \cup Under(t) /\ FramesOf(stack', t) = Under(t)
  BY <1>1, <1>2, UnderStays
<1>7. \A c : Removing(Top(t), c)
  BY <1>2 DEF Removing
<1>8. \A id \in Id : Active(id) => told[id] = 1
  BY <1>6, <1>7 DEF ToldInv
<1>9. \A c \in Id : told'[c] = 0
  BY DEF ShutdownEnd
<1>10. \A u \in Thread : u # t => FramesOf(stack', u) = FramesOf(stack, u)
  BY <1>2 DEF Returns, Changed, FramesOf
<1>11. \A u \in Thread : \A x \in FramesOf(stack', u) : ~Mover(x)
  BY <1>4, <1>5, <1>6, <1>10
<1>12. ToldInv'
  BY <1>9, <1>11, RemovingIs DEF ToldInv
<1> QED
  BY <1>8, <1>12

(* Lemma: shutdown up to the mutex, and the destructor, tell nothing.        *)
LEMMA ToldOthers ==
    ASSUME Orderly, ToldInv, NEW t \in Thread
    PROVE  /\ ShutdownBegin(t) \/ ShutdownJoin(t) => ToldInv'
           /\ Initialize => ToldInv'
           /\ DestructorBegin => ToldInv'
           /\ DestroyTables \/ DestroyPhysicalLayer \/ DestroySessionManager \/ DestroyRest =>
                 ToldInv'
           /\ Crash => ToldInv'
<1>1. Ready /\ Stacks
  BY DEF Orderly, Ready
<1>2. Crash => ToldInv'
  <2> HAVE Crash
  <2>1. UNCHANGED <<connections, stack, told>>
    BY DEF Crash, tables
  <2> QED
    BY <2>1 DEF ToldInv, Active, FramesOf
<1>3. ASSUME NEW u \in Thread, ~Idle(u), ~Mover(Top(u)), told' = told, connections' = connections,
             \/ Returns(u)
             \/ \E f : GoodBecomes(u, f) /\ ~Mover(f)
      PROVE  ToldInv'
  <2>1. Changed(u)
    BY <1>3 DEF Returns, GoodBecomes, Becomes
  <2>2. /\ \A x \in FramesOf(stack', u) : Mover(x) => x \in FramesOf(stack, u)
        /\ \A y \in FramesOf(stack, u) : Mover(y) => y \in FramesOf(stack', u)
    BY <1>1, <1>3, FramesAfter DEF GoodBecomes
  <2>3. \A id \in Id : Active(id)' => Active(id)
    BY <1>3 DEF Active
  <2> QED
    BY <1>3, <2>1, <2>2, <2>3, ToldKept
<1>4. ASSUME ShutdownBegin(t) \/ ShutdownJoin(t)
      PROVE  ToldInv'
  <2>1. ~Idle(t) /\ ~Mover(Top(t)) /\ told' = told /\ connections' = connections
    BY <1>4 DEF ShutdownBegin, ShutdownJoin, At, Idle, Mover, Removers, tables
  <2>2. Returns(t) \/ \E f : GoodBecomes(t, f) /\ ~Mover(f)
    BY <1>1, <1>4, ShutdownBeginDoes, ShutdownJoinDoes DEF Mover, Removers
  <2> QED
    BY <1>3, <2>1, <2>2
<1>5. ASSUME Initialize
      PROVE  ToldInv'
  <2>1. Plain("heartbeat") /\ "heartbeat" \in Thread /\ told' = told /\ connections' = connections
    BY <1>5, PlainBeginnings DEF Orderly, Thread, Initialize, tables
  <2>2. Changed("heartbeat")
    BY <2>1, PlainKeeps DEF Orderly
  <2>3. \A id \in Id : Active(id)' => Active(id)
    BY <2>1 DEF Active
  <2> QED
    BY <1>1, <2>1, <2>2, <2>3, PlainMovers, ToldKept
<1>6. ASSUME DestructorBegin
      PROVE  ToldInv'
  <2>1. PICK f, g : /\ BeginsTwo("application", f, g)
                    /\ f.op = "shutdown" /\ f.at = "begin" /\ g.op = "destructor"
    BY <1>1, <1>6, DestructorBeginDoes
  <2>2. (\A x \in FramesOf(stack', "application") : x = f \/ x = g)
        /\ Changed("application") /\ Idle("application") /\ "application" \in Thread
    BY <2>1, FramesBegun DEF BeginsTwo, Thread
  <2>3. ~Mover(f) /\ ~Mover(g) /\ FramesOf(stack, "application") = {}
    BY <1>1, <2>1, <2>2, FramesAre DEF Mover, Removers
  <2>4. told' = told /\ \A id \in Id : Active(id)' => Active(id)
    BY <1>6 DEF DestructorBegin, tables, Active
  <2> QED
    BY <2>2, <2>3, <2>4, ToldKept
<1>7. ASSUME DestroyTables \/ DestroyPhysicalLayer \/ DestroySessionManager \/ DestroyRest
      PROVE  ToldInv'
  <2>1. /\ ~Idle("application") /\ ~Mover(Top("application")) /\ "application" \in Thread
        /\ told' = told /\ connections' = connections
    BY <1>7 DEF DestroyTables, DestroyPhysicalLayer, DestroySessionManager, DestroyRest,
                DestructorStep, At, Idle, Mover, Removers, Thread
  <2>2. Returns("application") \/ \E f : GoodBecomes("application", f) /\ ~Mover(f)
    BY <1>1, <1>7, DestructorDoes DEF Mover, Removers
  <2> QED
    BY <1>3, <2>1, <2>2
<1> QED
  BY <1>2, <1>4, <1>5, <1>6, <1>7

-----------------------------------------------------------------------------
(* What is destroyed is not in use *)

(* Lemma: who uses an object holds the mutex.                                *)
LEMMA UsersHold ==
    ASSUME Ready, NEW t \in Thread, NEW x \in FramesOf(stack, t), x.uses # {}
    PROVE  Holds(t, "mutex")
<1>1. PICK s : s = stack[t]
  OBVIOUS
<1>2. s \in Seq(Frame) /\ GoodStack(t, s)
  BY <1>1 DEF Ready, Stacks, StacksInv
<1>3. PICK n \in Nat : n = Len(s)
  BY <1>2
<1>4. PICK i \in 1..n : x = s[i]
  BY <1>1, <1>3, FramesAre DEF Ready
<1>5. FrameInv(s[i])
  BY <1>2, <1>3, <1>4 DEF GoodStack
<1>6. Holder(x) \/ x.op \in {"onMessage", "onDisconnected", "onConnected", "onMissed"}
  BY <1>4, <1>5 DEF FrameInv, UsesInv, Holder, Handlers, Removers
<1>7. CASE Holder(x)
  BY <1>7, HoldsIs DEF Ready
<1>8. CASE x.op \in {"onMessage", "onDisconnected", "onConnected", "onMissed"}
  <2>1. i # n
    <3>1. Bottom(t, s[n])
      BY <1>2, <1>3 DEF GoodStack
    <3> QED
      BY <1>4, <1>8, <3>1 DEF Bottom, Handlers
  <2>2. i \in 1..(n - 1) /\ i + 1 \in 1..n
    BY <2>1
  <2>3. StandsOn(s[i], s[i + 1])
    BY <1>2, <1>3, <2>2 DEF GoodStack
  <2>4. CalledBack(s[i], s[i + 1])
    BY <1>4, <1>8, <2>3, StandsFacts DEF Callback
  <2>5. Holder(s[i + 1])
    BY <2>4 DEF CalledBack, Holder, Handlers
  <2> QED
    BY <1>1, <1>3, <2>2, <2>5, HoldsIs DEF Ready
<1> QED
  BY <1>6, <1>7, <1>8

LEMMA OthersUseNothing ==
    ASSUME Orderly, NEW t \in Thread, Holds(t, "mutex") \/ Free(t, "mutex")
    PROVE  \A u \in Thread : u # t => \A x \in FramesOf(stack, u) : x.uses = {}
BY UsersHold DEF Orderly, OneHolder, Free

(* Lemma: a callback that may disconnect a connection uses nothing of it,    *)
(* nor does what called it.                                                  *)
LEMMA CarefulDisconnect ==
    ASSUME Careful, NEW c, NEW g, NEW id, c.op \in Callback \ {"onDisconnected"},
           <<"disconnect", IF id = c.id THEN "own" ELSE "other">> \in MayCall[c.op]
    PROVE  /\ FrameInv(c) => c.uses \cap (EntryOf(id) \cup BeatOf(id)) = {}
           /\ CalledBack(c, g) /\ FrameInv(g) => g.uses \cap (EntryOf(id) \cup BeatOf(id)) = {}
<1>1. c.op \in {"onMessage", "onConnectionEstablished", "onConnected", "onMissed"} => id # c.id
  BY DEF Careful
<1>2. /\ \A k : k # id => /\ <<"onMessage", k>> \notin EntryOf(id) \cup BeatOf(id)
                          /\ <<"onConnected", k>> \notin EntryOf(id) \cup BeatOf(id)
                          /\ <<"connection", k>> \notin EntryOf(id) \cup BeatOf(id)
                          /\ <<"heartbeat", k>> \notin EntryOf(id) \cup BeatOf(id)
      /\ <<"heartbeats", 0>> \notin EntryOf(id) \cup BeatOf(id)
  BY DEF EntryOf, FunctionsOf, BeatOf
<1>3. ASSUME FrameInv(c)
      PROVE  c.uses \cap (EntryOf(id) \cup BeatOf(id)) = {}
  <2>1. CASE c.op = "onMessage"
    <3>1. c.uses = {<<"onMessage", c.id>>}
      BY <1>3, <2>1 DEF FrameInv, UsesInv, Removers
    <3> QED
      BY <1>1, <1>2, <2>1, <3>1
  <2>2. CASE c.op = "onMissed"
    <3>1. c.uses = {<<"heartbeat", c.id>>}
      BY <1>3, <2>2 DEF FrameInv, UsesInv, Removers, BeatOf
    <3> QED
      BY <1>1, <1>2, <2>2, <3>1
  <2>3. CASE c.op = "onConnected"
    <3>1. c.uses \subseteq {<<"onConnected", c.id>>}
      BY <1>3, <2>3 DEF FrameInv, UsesInv, Removers
    <3> QED
      BY <1>1, <1>2, <2>3, <3>1
  <2>4. CASE c.op \notin {"onMessage", "onMissed", "onConnected"}
    BY <1>3, <2>4 DEF FrameInv, UsesInv, Removers, Callback
  <2> QED
    BY <2>1, <2>2, <2>3, <2>4
<1>4. ASSUME CalledBack(c, g), FrameInv(g)
      PROVE  g.uses \cap (EntryOf(id) \cup BeatOf(id)) = {}
  <2>1. CASE g.op = "handleHandshakeFinalConfirmation"
    <3>1. c.op \in {"onConnectionEstablished", "onConnected"} /\ c.id = g.id
      BY <1>4, <2>1 DEF CalledBack, Removers
    <3>2. g.uses \subseteq {<<"connection", g.id>>}
      BY <1>4, <2>1 DEF FrameInv, UsesInv, Removers
    <3> QED
      BY <1>1, <1>2, <3>1, <3>2
  <2>2. CASE g.op = "heartbeatLoop" /\ g.at = "beats"
    <3>1. c.op = "onMissed" /\ g.uses = {<<"heartbeat", c.id>>, <<"heartbeats", 0>>}
      BY <1>4, <2>2 DEF CalledBack, Removers, BeatOf, PositionIn
    <3> QED
      BY <1>1, <1>2, <3>1
  <2>3. CASE g.op = "heartbeatLoop" /\ g.at # "beats"
    BY <1>4, <2>3 DEF FrameInv, UsesInv, Removers
  <2>4. CASE g.op \in {"handleMessage", "handleHandshakeRequest", "handleHandshakeResponse"}
    BY <1>4, <2>4 DEF FrameInv, UsesInv, Removers
  <2>5. g.op \in {"handleMessage", "handleHandshakeRequest", "handleHandshakeResponse",
                  "handleHandshakeFinalConfirmation", "heartbeatLoop"}
    BY <1>4 DEF CalledBack
  <2> QED
    BY <2>1, <2>2, <2>3, <2>4, <2>5
<1> QED
  BY <1>3, <1>4

LEMMA RemovedUnused ==
    ASSUME Orderly, Careful, NEW t \in Thread, NEW op \in Removers, RemoveEnd(t, op),
           NothingPulledAway
    PROVE  NothingPulledAway'
<1>1. Ready /\ Stacks
  BY DEF Orderly, Ready
<1>2. Returns(t) /\ ~Idle(t) /\ Top(t).op = op /\ Mover(Top(t))
  BY <1>1, ReturningSteps DEF Returns, Mover
<1>3. PICK id, objects : id = Top(t).id /\ objects = EntryOf(id) \cup BeatOf(id)
  OBVIOUS
<1>4. Holds(t, "mutex")
  BY <1>1, <1>2, TopIs DEF Ready, Holder
<1>5. PICK s : s = stack[t]
  OBVIOUS
<1>6. s \in Seq(Frame) /\ s # <<>> /\ Top(t) = s[1] /\ GoodStack(t, s) /\ 1 \in 1..Len(s)
  BY <1>1, <1>2, <1>5 DEF Ready, Stacks, StacksInv, Idle, Top
<1>7. PICK n \in Nat : n = Len(s)
  BY <1>6
<1>8. \A j \in 2..n : s[j].uses \cap objects = {}
  <2> SUFFICES ASSUME NEW j \in 2..n
               PROVE  s[j].uses \cap objects = {}
    OBVIOUS
  <2>1. 1 < n /\ 2 \in 1..n /\ 1 \in 1..(n - 1) /\ j \in 1..n
    OBVIOUS
  <2>2. StandsOn(s[1], s[2]) /\ FrameInv(s[2]) /\ FrameInv(s[j])
    <3>1. StandsOn(s[1], s[1 + 1])
      BY <1>6, <1>7, <2>1 DEF GoodStack
    <3> QED
      BY <1>6, <1>7, <2>1, <3>1 DEF GoodStack
  <2>3. s[1].op = "disconnect"
    <3>1. s[1].op \notin Base
      BY <2>2, StandsFacts
    <3> QED
      BY <1>2, <1>6, <3>1 DEF Base, Removers, Handlers
  <2>4. /\ s[2].op \in Callback \ {"onDisconnected"}
        /\ <<"disconnect", IF id = s[2].id THEN "own" ELSE "other">> \in MayCall[s[2].op]
    <3>1. CalledFrom(s[1], s[2])
      BY <2>2, <2>3, StandsFacts
    <3>2. s[1 + 1].op \in Callback \ {"onDisconnected"}
      BY <1>2, <1>6, <1>7, <2>1, <2>3, UnderMover
    <3>3. 1 + 1 = 2
      OBVIOUS
    <3> QED
      BY <1>3, <1>6, <2>3, <3>1, <3>2, <3>3 DEF CalledFrom
  <2>5. CASE j = 2
    BY <1>3, <2>2, <2>4, <2>5, CarefulDisconnect
  <2>6. CASE j # 2
    <3>1. j > 2
      BY <2>6
    <3>2. CalledBack(s[2], s[j])
      BY <1>6, <1>7, <2>1, <2>4, <3>1, UnderCallback
    <3> QED
      BY <1>3, <2>2, <2>4, <3>2, CarefulDisconnect
  <2> QED
    BY <2>5, <2>6
<1>9. \A x \in FramesOf(stack', t) : x.uses \cap objects = {}
  <2>1. FramesOf(stack', t) = Under(t)
    BY <1>1, <1>2, UnderStays
  <2> QED
    BY <1>5, <1>7, <1>8, <2>1 DEF Under
<1>10. \A u \in Thread : u # t => \A x \in FramesOf(stack', u) : x.uses = {}
  <2>1. \A u \in Thread : u # t => FramesOf(stack', u) = FramesOf(stack, u)
    BY <1>2 DEF Returns, Changed, FramesOf
  <2> QED
    BY <1>4, <2>1, OthersUseNothing
<1>11. ~\E u \in Thread : \E x \in FramesOf(stack', u) : x.uses \cap objects # {}
  BY <1>9, <1>10
<1>12. dangling' = (dangling \/ \E u \in Thread : \E x \in FramesOf(stack', u) :
                                    x.uses \cap objects # {})
  BY <1>3 DEF RemoveEnd, Destroy
<1> QED
  BY <1>11, <1>12 DEF NothingPulledAway

(* Lemma: below the innermost frame a handler is used by its own execution   *)
(* only.                                                                     *)
LEMMA HandlerIsUsed ==
    ASSUME NEW t, NEW s \in Seq(Frame), GoodStack(t, s), NEW j \in 2..Len(s),
           NEW handler \in {"onMessage", "onDisconnected"}, NEW id \in Id,
           <<handler, id>> \in s[j].uses
    PROVE  s[j].op = handler /\ s[j].id = id
<1>1. PICK n \in Nat : n = Len(s)
  OBVIOUS
<1>2. PICK i \in 1..(n - 1) : j = i + 1
  <2>1. j - 1 \in 1..(n - 1) /\ j = (j - 1) + 1
    BY <1>1
  <2> QED
    BY <2>1
<1>3. StandsOn(s[i], s[j]) /\ FrameInv(s[j])
  BY <1>1, <1>2 DEF GoodStack
<1>4. s[j].uses # {}
  OBVIOUS
<1>5. CASE s[j].op \in {"onMessage", "onDisconnected"}
  <2>1. s[j].uses = {<<s[j].op, s[j].id>>}
    BY <1>3, <1>5 DEF FrameInv, UsesInv, Removers
  <2> QED
    BY <2>1
<1>6. CASE s[j].op \in Removers \cup {"handleHandshakeFinalConfirmation", "onConnected"}
  <2>1. s[j].uses \subseteq {<<"connection", s[j].id>>, <<"connections", 0>>,
                            <<"onConnected", s[j].id>>}
    BY <1>3, <1>6 DEF FrameInv, UsesInv, Found, PositionIn, Removers
  <2> QED
    BY <2>1
<1>7. CASE s[j].op = "onMissed"
  <2>1. s[j].uses = {<<"heartbeat", s[j].id>>}
    BY <1>3, <1>7 DEF FrameInv, UsesInv, Removers, BeatOf
  <2> QED
    BY <2>1
<1>8. CASE s[j].op = "heartbeatLoop"
  <2>1. s[j].at = "beats"
    BY <1>3, <1>4, <1>8 DEF FrameInv, UsesInv, Removers
  <2>2. s[j].uses = {<<"heartbeat", s[i].id>>, <<"heartbeats", 0>>}
    BY <1>3, <1>8, <2>1
    DEF StandsOn, CalledBack, CalledFrom, Removers, Callback, BeatOf, PositionIn
  <2> QED
    BY <2>2
<1>9. CASE s[j].op \notin Removers \cup {"handleHandshakeFinalConfirmation", "onMessage",
                                         "onDisconnected", "onConnected", "onMissed",
                                         "heartbeatLoop"}
  BY <1>3, <1>4, <1>9 DEF FrameInv, UsesInv, Removers
<1> QED
  BY <1>5, <1>6, <1>7, <1>8, <1>9

(* Lemma: a call that may replace a handler does not stand on its execution. *)
LEMMA HandlerUnused ==
    ASSUME Careful, NEW t, NEW s \in Seq(Frame), GoodStack(t, s), s # <<>>, s[1].op = "call",
           NEW op, NEW handler, NEW id \in Id,
           \/ op = "setOnMessageHandler" /\ handler = "onMessage"
           \/ op = "setOnDisconnected" /\ handler = "onDisconnected",
           Len(s) > 1 => <<op, IF id = s[2].id THEN "own" ELSE "other">> \in MayCall[s[2].op],
           NEW j \in 2..Len(s)
    PROVE  <<handler, id>> \notin s[j].uses
<1>1. PICK n \in Nat : n = Len(s)
  OBVIOUS
<1>2. SUFFICES ASSUME s[j].op = handler, s[j].id = id
               PROVE  FALSE
  BY HandlerIsUsed
<1>3. 1 < n /\ 1 \in 1..n /\ 2 \in 1..n /\ j \in 1..n /\ 1 \in 1..(n - 1) /\ 1 + 1 = 2
      /\ (j = 2 \/ j > 2) /\ 2 + 1 = 3
  BY <1>1
<1>4. \A i \in 1..(n - 1) : StandsOn(s[i], s[i + 1])
  BY <1>1 DEF GoodStack
<1>5. CalledFrom(s[1], s[2])
  <2>1. StandsOn(s[1], s[2])
    BY <1>3, <1>4
  <2> QED
    BY <2>1, StandsFacts
<1>6. <<op, IF id = s[2].id THEN "own" ELSE "other">> \in MayCall[s[2].op]
  BY <1>1, <1>3
<1>7. CASE s[2].op # "onDisconnected"
  <2>1. s[2].op \in Callback \ {"onDisconnected"}
    BY <1>5, <1>7 DEF CalledFrom
  <2>2. \A k \in 1..Len(s) : k > 2 => s[k].op \in (Handlers \ Removers) \cup {"heartbeatLoop"}
    BY <1>1, <1>3, <2>1, UnderCallback
  <2>3. j = 2
    <3>1. handler \notin (Handlers \ Removers) \cup {"heartbeatLoop"}
      BY DEF Handlers
    <3> QED
      BY <1>1, <1>2, <1>3, <2>2, <3>1
  <2> QED
    BY <1>2, <1>6, <1>7, <2>3 DEF Careful
<1>8. CASE s[2].op = "onDisconnected"
  <2>1. /\ op = "setOnMessageHandler" => id = s[2].id
        /\ op = "setOnDisconnected" => id # s[2].id
    BY <1>6, <1>8 DEF Careful
  <2>2. j > 2 /\ 3 \in 1..n /\ 2 \in 1..(n - 1) /\ (j = 3 \/ j > 3) /\ 3 + 1 = 4
    <3>1. j # 2
      BY <1>2, <1>8, <2>1
    <3> QED
      BY <1>1, <1>3, <3>1
  <2>3. CalledBack(s[2], s[3])
    <3>1. StandsOn(s[2], s[3])
      BY <1>3, <1>4, <2>2
    <3> QED
      BY <1>8, <3>1, StandsFacts DEF Callback
  <2>4. Mover(s[3]) /\ (s[3].op \in Removers => s[2].id = s[3].id)
        /\ s[3].op \in Removers \cup {"shutdown"}
    BY <1>8, <2>3 DEF CalledBack, Mover, Removers
  <2>5. j > 3
    <3>1. handler \notin Removers \cup {"shutdown"}
      BY DEF Removers
    <3> QED
      BY <1>2, <2>2, <2>4, <3>1
  <2>6. 4 \in 1..n /\ 3 \in 1..(n - 1) /\ 3 < Len(s) /\ 3 # Len(s) /\ (j = 4 \/ j > 4)
    BY <1>1, <2>2, <2>5
  <2>7. s[3].op # "handleDisconnectMessage"
    BY <1>1, <2>2, <2>6, BaseIsLast DEF Base, Handlers
  <2>8. s[3].op # "shutdown"
    <3>1. s[3].op = "shutdown" => 3 + 1 = Len(s) /\ s[3 + 1].op = "destructor"
      BY <1>1, <2>2, <2>6, ShutdownStands DEF Careful
    <3>2. s[3].op = "shutdown" => 4 = n /\ s[4].op = "destructor"
      BY <1>1, <2>2, <3>1
    <3>3. j = 4 \/ 4 # n
      BY <1>1, <2>6
    <3> QED
      BY <1>2, <3>2, <3>3
  <2>9. s[3].op = "disconnect"
    BY <2>4, <2>7, <2>8 DEF Removers
  <2>10. /\ s[4].op \in Callback \ {"onDisconnected"}
         /\ \A k \in 1..Len(s) : k > 4 => CalledBack(s[4], s[k])
    <3>1. /\ s[3 + 1].op \in Callback \ {"onDisconnected"}
          /\ \A k \in 1..Len(s) : k > 3 + 1 => CalledBack(s[3 + 1], s[k])
      BY <1>1, <2>2, <2>4, <2>6, <2>9, UnderMover
    <3> QED
      BY <2>2, <3>1
  <2>11. j = 4
    <3>1. j > 4 => CalledBack(s[4], s[j])
      BY <1>1, <1>3, <2>10
    <3>2. ~CalledBack(s[4], s[j])
      BY <1>2 DEF CalledBack, Removers
    <3> QED
      BY <2>6, <3>1, <3>2
  <2>12. CalledFrom(s[3], s[4])
    <3>1. StandsOn(s[3], s[4])
      BY <1>4, <2>2, <2>6
    <3> QED
      BY <2>9, <3>1, StandsFacts
  <2>13. s[4].op = "onMessage" /\ s[4].id = s[3].id
    BY <1>2, <2>1, <2>4, <2>9, <2>10, <2>11 DEF Removers
  <2> QED
    BY <2>9, <2>12, <2>13 DEF CalledFrom, Careful
<1> QED
  BY <1>7, <1>8

(* Lemma: nothing is pulled away by destroying what no frame uses.           *)
LEMMA NotPulled ==
    ASSUME NothingPulledAway, NEW objects, NEW r, Destroy(objects, r),
           \A u \in Thread : \A x \in FramesOf(r, u) : x.uses \cap objects = {}
    PROVE  NothingPulledAway'
BY DEF NothingPulledAway, Destroy

LEMMA ReplacedUnused ==
    ASSUME Orderly, Careful, NothingPulledAway, NEW t \in Thread, NEW id \in Id,
           NEW op \in OfConnection, NEW handler,
           \/ op = "setOnMessageHandler" /\ handler = "onMessage"
           \/ op = "setOnDisconnected" /\ handler = "onDisconnected",
           SetHandler(t, op, handler, id)
    PROVE  NothingPulledAway'
<1>1. Ready /\ Stacks
  BY DEF Orderly, Ready
<1>2. Returns(t) /\ ~Idle(t) /\ Top(t).op = "call" /\ Free(t, "mutex")
  BY <1>1, ReturningSteps DEF Returns
<1>3. PICK s : s = stack[t]
  OBVIOUS
<1>4. s \in Seq(Frame) /\ s # <<>> /\ s[1].op = "call" /\ GoodStack(t, s)
  BY <1>1, <1>2, <1>3 DEF Ready, Stacks, StacksInv, Idle, Top
<1>5. Len(s) > 1 => <<op, IF id = s[2].id THEN "own" ELSE "other">> \in MayCall[s[2].op]
  <2>1. id # 0
    BY ThreadsAssumption DEF Id
  <2>2. Permitted(t, op, id)
    BY DEF SetHandler
  <2> QED
    BY <1>3, <2>1, <2>2 DEF Permitted
<1>6. \A j \in 2..Len(s) : <<handler, id>> \notin s[j].uses
  BY <1>4, <1>5, HandlerUnused
<1>7. \A x \in FramesOf(stack', t) : x.uses \cap {<<handler, id>>} = {}
  <2>1. FramesOf(stack', t) = Under(t)
    BY <1>1, <1>2, UnderStays
  <2> QED
    BY <1>3, <1>6, <2>1 DEF Under
<1>8. \A u \in Thread : u # t => \A x \in FramesOf(stack', u) : x.uses = {}
  <2>1. \A u \in Thread : u # t => FramesOf(stack', u) = FramesOf(stack, u)
    BY <1>2 DEF Returns, Changed, FramesOf
  <2> QED
    BY <1>2, <2>1, OthersUseNothing
<1>9. \A u \in Thread : \A x \in FramesOf(stack', u) : x.uses \cap {<<handler, id>>} = {}
  BY <1>7, <1>8
<1>10. Destroy({<<handler, id>>}, stack')
  BY DEF SetHandler
<1> QED
  BY <1>9, <1>10, NotPulled

(* Lemma: connect may move a table only when nobody stands in it.            *)
LEMMA ConnectUnused ==
    ASSUME Orderly, Careful, NothingPulledAway, NEW t \in Thread, Connect(t)
    PROVE  NothingPulledAway'
<1>1. Ready /\ Stacks
  BY DEF Orderly, Ready
<1>2. Returns(t) /\ ~Idle(t) /\ Top(t).op = "call" /\ Free(t, "mutex")
  <2>1. Locking(t, "call")
    BY DEF Connect
  <2> QED
    BY <1>1, <2>1, ReturningSteps, LockingIs DEF Returns, Op, NeedsQueueMutex
<1>3. PICK s : s = stack[t]
  OBVIOUS
<1>4. s \in Seq(Frame) /\ s # <<>> /\ s[1].op = "call" /\ GoodStack(t, s)
  BY <1>1, <1>2, <1>3 DEF Ready, Stacks, StacksInv, Idle, Top
<1>5. Len(s) > 1 => <<"connect", "device">> \in MayCall[s[2].op]
  BY <1>3 DEF Connect, Permitted
<1>6. PICK n \in Nat : n = Len(s)
  BY <1>4
<1>7. \A j \in 2..n : s[j].uses \cap Position = {}
  <2> SUFFICES ASSUME NEW j \in 2..n
               PROVE  s[j].uses \cap Position = {}
    OBVIOUS
  <2>1. 1 < n /\ 2 \in 1..n /\ 1 \in 1..(n - 1) /\ j \in 1..n /\ (j = 2 \/ j > 2) /\ 1 + 1 = 2
    OBVIOUS
  <2>2. StandsOn(s[1], s[2]) /\ FrameInv(s[j])
    BY <1>4, <1>6, <2>1 DEF GoodStack
  <2>3. CalledFrom(s[1], s[2])
    BY <1>4, <2>2, StandsFacts
  <2>4. s[2].op \in Callback \ {"onMissed", "onDisconnected"}
    BY <1>5, <1>6, <2>1, <2>3 DEF CalledFrom, Careful
  <2>5. CASE j = 2
    <3>1. s[j].uses \subseteq {<<"onMessage", s[j].id>>, <<"onConnected", s[j].id>>}
      BY <2>2, <2>4, <2>5 DEF FrameInv, UsesInv, Removers, Callback
    <3> QED
      BY <3>1 DEF Position
  <2>6. CASE j > 2
    <3>1. CalledBack(s[2], s[j]) /\ s[j].op \in (Handlers \ Removers) \cup {"heartbeatLoop"}
      BY <1>4, <1>6, <2>1, <2>4, <2>6, UnderCallback
    <3>2. s[j].op = "heartbeatLoop" => s[j].at = "failures"
      BY <2>4, <3>1 DEF CalledBack, Removers
    <3>3. s[j].uses \subseteq {<<"connection", s[j].id>>}
      BY <2>2, <3>1, <3>2 DEF FrameInv, UsesInv, Removers, Handlers
    <3> QED
      BY <3>3 DEF Position
  <2> QED
    BY <2>1, <2>5, <2>6
<1>8. \A x \in FramesOf(stack', t) : x.uses \cap Position = {}
  <2>1. FramesOf(stack', t) = Under(t)
    BY <1>1, <1>2, UnderStays
  <2> QED
    BY <1>3, <1>6, <1>7, <2>1 DEF Under
<1>9. \A u \in Thread : u # t => \A x \in FramesOf(stack', u) : x.uses = {}
  <2>1. \A u \in Thread : u # t => FramesOf(stack', u) = FramesOf(stack, u)
    BY <1>2 DEF Returns, Changed, FramesOf
  <2> QED
    BY <1>2, <2>1, OthersUseNothing
<1>10. \A u \in Thread : \A x \in FramesOf(stack', u) : x.uses \cap Position = {}
  BY <1>8, <1>9
<1>11. Destroy(Position, stack')
  BY DEF Connect
<1> QED
  BY <1>10, <1>11, NotPulled

LEMMA ClearedUnused ==
    ASSUME Orderly, Careful, NothingPulledAway, NEW t \in Thread, ShutdownEnd(t)
    PROVE  NothingPulledAway'
<1>1. Ready /\ Stacks
  BY DEF Orderly, Ready
<1>2. Returns(t) /\ ~Idle(t) /\ Top(t).op = "shutdown" /\ Top(t).at = "each"
  BY <1>1, ReturningSteps DEF Returns
<1>3. Holds(t, "mutex")
  BY <1>1, <1>2, TopIs DEF Ready, Holder
<1>4. PICK s : s = stack[t]
  OBVIOUS
<1>5. s \in Seq(Frame) /\ s # <<>> /\ s[1].op = "shutdown" /\ GoodStack(t, s) /\ 1 \in 1..Len(s)
  BY <1>1, <1>2, <1>4 DEF Ready, Stacks, StacksInv, Idle, Top
<1>6. \A j \in 2..Len(s) : s[j].uses = {}
  <2>1. PICK n \in Nat : n = Len(s)
    BY <1>5
  <2>2. 1 = Len(s) \/ (1 + 1 = Len(s) /\ s[1 + 1].op = "destructor")
    BY <1>5, ShutdownStands DEF Careful
  <2>3. \A j \in 2..n : j = 2 /\ s[2].op = "destructor" /\ j \in 1..n
    BY <2>1, <2>2
  <2>4. \A j \in 2..n : FrameInv(s[j]) /\ s[j].op = "destructor"
    BY <1>5, <2>1, <2>3 DEF GoodStack
  <2> QED
    BY <2>1, <2>4 DEF FrameInv, UsesInv, Removers
<1>7. \A x \in FramesOf(stack', t) : x.uses = {}
  <2>1. FramesOf(stack', t) = Under(t)
    BY <1>1, <1>2, UnderStays
  <2> QED
    BY <1>4, <1>6, <2>1 DEF Under
<1>8. \A u \in Thread : u # t => \A x \in FramesOf(stack', u) : x.uses = {}
  <2>1. \A u \in Thread : u # t => FramesOf(stack', u) = FramesOf(stack, u)
    BY <1>2 DEF Returns, Changed, FramesOf
  <2> QED
    BY <1>3, <2>1, OthersUseNothing
<1>9. \A u \in Thread : \A x \in FramesOf(stack', u) : x.uses \cap Object = {}
  BY <1>7, <1>8
<1>10. Destroy(Object, stack')
  BY DEF ShutdownEnd
<1> QED
  BY <1>9, <1>10, NotPulled

(* Lemma: a thread that has the mutex in its first frame finds nothing used. *)
LEMMA FirstFrameUses ==
    ASSUME Orderly, NEW t \in Thread, ~Idle(t), Alone(t), Top(t).uses = {},
           Holds(t, "mutex") \/ Free(t, "mutex")
    PROVE  \A u \in Thread : \A x \in FramesOf(stack, u) : x.uses = {}
<1>1. Ready /\ Stacks
  BY DEF Orderly, Ready
<1>2. \A x \in FramesOf(stack, t) : x = Top(t)
  <2>1. Len(stack[t]) = 1 /\ Top(t) = stack[t][1] /\ stack[t] \in Seq(Frame)
    BY <1>1, FramesAre DEF Alone, Idle
  <2>2. \A j \in 1..1 : j = 1
    OBVIOUS
  <2> QED
    BY <1>1, <2>1, <2>2, FramesAre
<1> QED
  BY <1>2, OthersUseNothing

LEMMA LockedUses ==
    ASSUME Orderly, NEW t \in Thread, NEW op \in {"onMessageReceived", "heartbeatLoop"},
           Locking(t, op)
    PROVE  \A u \in Thread : \A x \in FramesOf(stack, u) : x.uses = {}
<1>1. Ready /\ Stacks /\ StacksInv
  BY DEF Orderly, Ready
<1>2. ~Idle(t) /\ Top(t).op = op /\ Top(t).at = "lock" /\ Free(t, "mutex")
  BY LockingIs DEF Op, NeedsQueueMutex
<1>3. Alone(t) /\ FrameInv(Top(t))
  BY <1>1, <1>2, TopStands, TopIs
<1>4. Top(t).uses = {}
  BY <1>2, <1>3 DEF FrameInv, UsesInv, Removers
<1> QED
  BY <1>2, <1>3, <1>4, FirstFrameUses

LEMMA MovedUnused ==
    ASSUME Orderly, NothingPulledAway
    PROVE  /\ RequestDecided => NothingPulledAway'
           /\ \A number : ResponseRefused(number) => NothingPulledAway'
           /\ \A number, id : HandleResponse(number, id) => NothingPulledAway'
           /\ \A expired : LoopTimeouts(expired) => NothingPulledAway'
<1>1. "receive" \in Thread /\ "heartbeat" \in Thread
  BY DEF Thread
<1>2. ASSUME NEW objects, NEW t \in Thread, NEW op \in {"onMessageReceived", "heartbeatLoop"},
             Locking(t, op), Destroy(objects, stack)
      PROVE  NothingPulledAway'
  BY <1>2, LockedUses, NotPulled
<1>3. ASSUME NEW number, ResponseRefused(number)
      PROVE  NothingPulledAway'
  BY <1>1, <1>2, <1>3 DEF ResponseRefused
<1>4. ASSUME NEW number, NEW id, HandleResponse(number, id)
      PROVE  NothingPulledAway'
  BY <1>1, <1>2, <1>4 DEF HandleResponse
<1>5. ASSUME NEW expired, LoopTimeouts(expired)
      PROVE  NothingPulledAway'
  BY <1>1, <1>2, <1>5 DEF LoopTimeouts
<1>6. ASSUME RequestDecided
      PROVE  NothingPulledAway'
  <2>1. Ready /\ Stacks /\ StacksInv
    BY DEF Orderly, Ready
  <2>2. ~Idle("receive") /\ Top("receive").op = "handleHandshakeRequest" /\ Return("receive")
    BY <1>6 DEF RequestDecided, At, Idle
  <2>3. Alone("receive") /\ FrameInv(Top("receive"))
    BY <1>1, <2>1, <2>2, TopStands, TopIs DEF Handlers
  <2>4. Top("receive").uses = {} /\ Holds("receive", "mutex")
    BY <1>1, <2>1, <2>2, <2>3, TopIs DEF FrameInv, UsesInv, Holder, Handlers, Removers
  <2>5. \A u \in Thread : \A x \in FramesOf(stack, u) : x.uses = {}
    BY <1>1, <2>2, <2>3, <2>4, FirstFrameUses
  <2>6. Returns("receive")
    BY <1>1, <2>1, <2>2, ContinueDoes
  <2>7. \A u \in Thread : \A x \in FramesOf(stack', u) : x \in FramesOf(stack, u)
    <3>1. \A x \in FramesOf(stack', "receive") : x \in FramesOf(stack, "receive")
      BY <1>1, <2>1, <2>2, <2>6, FramesAfter
    <3>2. \A u \in Thread : u # "receive" => FramesOf(stack', u) = FramesOf(stack, u)
      BY <2>6 DEF Returns, Changed, FramesOf
    <3> QED
      BY <3>1, <3>2
  <2>8. dangling' = dangling \/ \E objects : Destroy(objects, stack')
    BY <1>6 DEF RequestDecided, Accept
  <2>9. CASE dangling' = dangling
    BY <2>9 DEF NothingPulledAway
  <2>10. ASSUME NEW objects, Destroy(objects, stack')
         PROVE  NothingPulledAway'
    BY <2>5, <2>7, <2>10, NotPulled
  <2> QED
    BY <2>8, <2>9, <2>10
<1> QED
  BY <1>3, <1>4, <1>5, <1>6

(* Lemma: the other steps destroy nothing.                                   *)
LEMMA DestroyersAre ==
    ASSUME Next
    PROVE  \/ dangling' = dangling
           \/ \E t \in Thread : \/ \E op \in Removers : RemoveEnd(t, op)
                                \/ ShutdownEnd(t) \/ Connect(t)
                                \/ \E id \in Id :
                                      \/ SetHandler(t, "setOnMessageHandler", "onMessage", id)
                                      \/ SetHandler(t, "setOnDisconnected", "onDisconnected", id)
           \/ RequestDecided
           \/ \E number : ResponseRefused(number) \/ \E id : HandleResponse(number, id)
           \/ \E expired : LoopTimeouts(expired)
<1>1. ASSUME NEW t \in Thread, OperationStep(t)
      PROVE  \/ dangling' = dangling
             \/ \E op \in Removers : RemoveEnd(t, op)
             \/ ShutdownEnd(t) \/ Connect(t)
             \/ \E id \in Id : \/ SetHandler(t, "setOnMessageHandler", "onMessage", id)
                               \/ SetHandler(t, "setOnDisconnected", "onDisconnected", id)
  BY <1>1
  DEF OperationStep, CallbackReturns, CallInVain, SetRetransmissionConfig,
      ShutdownBegin, ShutdownJoin, ShutdownLocked, RemoveBegin, ShutdownEach, Removers
<1>2. CASE Asked
  BY <1>2 DEF Asked, Initialize, DestructorBegin, ReceiveBegin, ApplicationCalls, CallbackCalls,
              Delivered
<1>3. CASE ApplicationStep
  BY <1>1, <1>3 DEF ApplicationStep, Thread, DestroyTables, DestroyPhysicalLayer,
                    DestroySessionManager, DestroyRest, DestructorStep
<1>4. CASE ReceiveStep
  BY <1>1, <1>4 DEF ReceiveStep, Thread, HandleRequest, FinalConfirmed, HandlerReturns,
                    HandleMessage, HandleFinalConfirmation
<1>5. CASE HeartbeatStep
  BY <1>1, <1>5 DEF HeartbeatStep, Thread, LoopCheck, LoopBeats, LoopOver, LoopFailure, LoopMissed
<1>6. CASE SessionStep
  BY <1>1, <1>6 DEF SessionStep, Thread
<1>7. CASE Gone \/ \E t \in Thread : UsesDestroyed(t)
  BY <1>7 DEF Gone, vars, UsesDestroyed
<1> QED
  BY <1>2, <1>3, <1>4, <1>5, <1>6, <1>7 DEF Next, Step

LEMMA PulledStep ==
    ASSUME Orderly, Careful, NothingPulledAway, Next
    PROVE  NothingPulledAway'
<1>1. CASE dangling' = dangling
  BY <1>1 DEF NothingPulledAway
<1>2. ASSUME NEW t \in Thread, NEW op \in Removers, RemoveEnd(t, op)
      PROVE  NothingPulledAway'
  BY <1>2, RemovedUnused
<1>3. ASSUME NEW t \in Thread, ShutdownEnd(t)
      PROVE  NothingPulledAway'
  BY <1>3, ClearedUnused
<1>4. ASSUME NEW t \in Thread, NEW id \in Id,
             SetHandler(t, "setOnMessageHandler", "onMessage", id)
      PROVE  NothingPulledAway'
  BY <1>4, ReplacedUnused DEF OfConnection
<1>5. ASSUME NEW t \in Thread, NEW id \in Id,
             SetHandler(t, "setOnDisconnected", "onDisconnected", id)
      PROVE  NothingPulledAway'
  BY <1>5, ReplacedUnused DEF OfConnection
<1>6. ASSUME NEW t \in Thread, Connect(t)
      PROVE  NothingPulledAway'
  BY <1>6, ConnectUnused
<1>7. /\ RequestDecided => NothingPulledAway'
      /\ \A number : ResponseRefused(number) => NothingPulledAway'
      /\ \A number, id : HandleResponse(number, id) => NothingPulledAway'
      /\ \A expired : LoopTimeouts(expired) => NothingPulledAway'
  BY MovedUnused
<1> QED
  BY <1>1, <1>2, <1>3, <1>4, <1>5, <1>6, <1>7, DestroyersAre

-----------------------------------------------------------------------------
(* onDisconnected is called once *)

LEMMA ToldStep ==
    ASSUME Orderly, Careful, Tables, ToldInv, Next
    PROVE  ToldInv'
<1>1. CASE UNCHANGED vars
  BY <1>1 DEF vars, tables, ToldInv, FramesOf, Active
<1>2. ASSUME NEW t \in Thread, PlainStep(t)
      PROVE  ToldInv'
  BY <1>2, ToldPlain
<1>3. ASSUME NEW t \in Thread, SpecialStep(t)
      PROVE  ToldInv'
  <2>1. CASE ShutdownBegin(t) \/ ShutdownJoin(t)
    BY <2>1, ToldOthers
  <2>2. CASE ShutdownLocked(t)
    BY <2>2, ToldShutdownLocked
  <2>3. CASE ShutdownEnd(t)
    BY <2>3, ToldShutdownEnd
  <2>4. ASSUME NEW id \in Id, ShutdownEach(t, id)
        PROVE  ToldInv'
    BY <2>4, ToldShutdownEach
  <2>5. ASSUME NEW op \in Removers, RemoveEnd(t, op)
        PROVE  ToldInv'
    BY <2>5, ToldRemoveEnd
  <2>6. ASSUME NEW op \in Removers, NEW id \in Id, RemoveBegin(t, op, id)
        PROVE  ToldInv'
    BY <2>6, ToldRemoveBegin
  <2> QED
    BY <1>3, <2>1, <2>2, <2>3, <2>4, <2>5, <2>6 DEF SpecialStep
<1>4. "application" \in Thread
  BY DEF Thread
<1>5. /\ Initialize \/ DestructorBegin \/ Crash => ToldInv'
      /\ DestroyTables \/ DestroyPhysicalLayer \/ DestroySessionManager \/ DestroyRest =>
            ToldInv'
  BY <1>4, ToldOthers
<1> QED
  BY <1>1, <1>2, <1>3, <1>5, NextIs DEF Orderly

(* Lemma: no step but one that overwrites it ends a connection that was      *)
(* active before the application was told.                                   *)
LEMMA ToldBefore ==
    ASSUME Orderly, Careful, Tables, ToldInv, Next,
           NEW id \in Id, Active(id), ~Active(id)'
    PROVE  told[id] = 1 \/ connections'[id] = "ACCEPTED"
<1>1. connections' # connections
  BY DEF Active
<1>2. ASSUME NEW t \in Thread, PlainStep(t)
      PROVE  connections'[id] = "ACCEPTED"
  BY <1>2 DEF PlainStep
<1>3. ASSUME NEW t \in Thread, NEW op \in Removers, RemoveEnd(t, op)
      PROVE  told[id] = 1
  <2>1. connections' = [connections EXCEPT ![Top(t).id] = "none"]
    BY <1>3 DEF RemoveEnd
  <2>2. id = Top(t).id
    BY <2>1 DEF Tables, Active
  <2> QED
    BY <1>3, <2>2, ToldRemoveEnd
<1>4. ASSUME NEW t \in Thread, ShutdownEnd(t)
      PROVE  told[id] = 1
  BY <1>4, ToldShutdownEnd
<1>5. ASSUME NEW t \in Thread,
             \/ ShutdownBegin(t) \/ ShutdownJoin(t) \/ ShutdownLocked(t)
             \/ \E c \in Id : ShutdownEach(t, c)
             \/ \E op \in Removers, c \in Id : RemoveBegin(t, op, c)
      PROVE  connections' = connections
  BY <1>5 DEF ShutdownBegin, ShutdownJoin, ShutdownLocked, ShutdownEach, RemoveBegin, tables
<1>6. ASSUME \/ UNCHANGED vars \/ Crash \/ Initialize \/ DestructorBegin
             \/ DestroyTables \/ DestroyPhysicalLayer \/ DestroySessionManager \/ DestroyRest
      PROVE  connections' = connections
  BY <1>6 DEF vars, tables, Crash, Initialize, DestructorBegin, DestroyTables,
              DestroyPhysicalLayer, DestroySessionManager, DestroyRest, DestructorStep
<1>7. ASSUME NEW t \in Thread, SpecialStep(t)
      PROVE  told[id] = 1
  BY <1>1, <1>3, <1>4, <1>5, <1>7 DEF SpecialStep
<1> QED
  BY <1>1, <1>2, <1>6, <1>7, NextIs DEF Orderly

-----------------------------------------------------------------------------
(* The theorems *)

LEMMA ThreadsInit == Init => ThreadsInv
<1> SUFFICES ASSUME Init
             PROVE  ThreadsInv
  OBVIOUS
<1>1. /\ stack = [t \in Thread |-> <<>>]
      /\ \A t \in Thread : stack[t] = <<>> /\ Idle(t) /\ FramesOf(stack, t) = {}
  BY DEF Init, Idle, FramesOf
<1>2. TypeOK
  <2>1. 1 \in 1..(MaxNumber + 1) /\ Number \subseteq Id
    BY ThreadsAssumption, IdsAre
  <2>2. <<>> \in Seq(Frame)
    OBVIOUS
  <2> QED
    BY <1>1, <2>1, <2>2 DEF Init, TypeOK
<1>3. StacksInv
  <2>1. \A t : GoodStack(t, <<>>)
    BY DEF GoodStack
  <2> QED
    BY <1>1, <2>1 DEF StacksInv
<1>4. Started /\ OneHolder
  BY <1>1 DEF Started, OneHolder, Holds, Thread
<1>5. QuietInv
  BY <1>1 DEF Init, QuietInv, At, Idle, Thread
<1>6. NothingPulledAway
  BY DEF Init, NothingPulledAway
<1>7. ToldInv
  BY <1>1 DEF Init, ToldInv
<1> QED
  BY <1>2, <1>3, <1>4, <1>5, <1>6, <1>7 DEF ThreadsInv

LEMMA ThreadsTablesAre == TypeOK <=> Tables /\ Stacks
BY DEF TypeOK, Tables, Stacks

LEMMA ThreadsStep == ThreadsInv /\ [Next]_vars => ThreadsInv'
<1>1. SUFFICES ASSUME ThreadsInv, [Next]_vars
               PROVE  ThreadsInv'
  OBVIOUS
<1>2. CASE UNCHANGED vars
  BY <1>1, <1>2
  DEF vars, tables, flags, ThreadsInv, TypeOK, StacksInv, Started, OneHolder, QuietInv,
      NothingPulledAway, ToldInv, Holds, FramesOf, Idle, At, Top, Active
<1>3. CASE Next
  <2>1. Orderly /\ Tables
    BY <1>1, ThreadsTablesAre DEF ThreadsInv, Orderly, Ready
  <2>2. Tables'
    BY <1>3, <2>1, TablesStep DEF Orderly
  <2>3. Orderly'
    BY <1>3, <2>1, <2>2, OrderlyStep
  <2>4. TypeOK' /\ StacksInv' /\ Started' /\ OneHolder'
    BY <2>2, <2>3 DEF Orderly, Ready, Tables, Stacks, TypeOK
  <2>5. ASSUME NoneShutsDown
        PROVE  QuietInv'
    BY <1>1, <1>3, <2>1, <2>2, <2>5, QuietStep DEF ThreadsInv
  <2>6. ASSUME Careful
        PROVE  NothingPulledAway' /\ ToldInv'
    BY <1>1, <1>3, <2>1, <2>6, PulledStep, ToldStep DEF ThreadsInv
  <2> QED
    BY <2>4, <2>5, <2>6 DEF ThreadsInv, NoneShutsDown, Careful
<1> QED
  BY <1>1, <1>2, <1>3

(* The invariant, whatever the callbacks call: one thread at a time holds    *)
(* the mutex, and every frame stands where it may; and, as far as the        *)
(* callbacks keep to what is asked of them, what follows.                    *)
THEOREM ThreadsSafe == Spec => []ThreadsInv
BY ThreadsInit, ThreadsStep, PTL DEF Spec

(* Past its join shutdown finds the heartbeat thread ended, the session      *)
(* manager is destroyed after the physical layer's worker has ended and what *)
(* is declared before it after its own worker has, if no callback shuts the  *)
(* SDK down.  It says nothing of heartbeats_, the crypto module and          *)
(* connectionKeyMap_, which go while both workers run.                       *)
THEOREM QuietAfterShutdownAlways ==
    ASSUME NoneShutsDown
    PROVE  Spec => []QuietAfterShutdown
<1>1. ThreadsInv => QuietAfterShutdown
  BY QuietFollows, ThreadsTablesAre DEF ThreadsInv, Ready
<1> QED
  BY <1>1, ThreadsSafe, PTL

(* No circle of threads waits for one another's mutexes or ends, if no       *)
(* callback shuts the SDK down.                                              *)
THEOREM NoCircularWaitAlways ==
    ASSUME NoneShutsDown
    PROVE  Spec => []NoCircularWait
<1>1. ThreadsInv => NoCircularWait
  BY NoCircle, ThreadsTablesAre DEF ThreadsInv, Ready
<1> QED
  BY <1>1, ThreadsSafe, PTL

(* Nothing is destroyed while a frame uses it, for any number of connections *)
(* and any nesting of calls and callbacks, if the callbacks are careful.     *)
THEOREM NothingPulledAwayAlways ==
    ASSUME Careful
    PROVE  Spec => []NothingPulledAway
<1>1. ThreadsInv => NothingPulledAway
  BY DEF ThreadsInv
<1> QED
  BY <1>1, ThreadsSafe, PTL

(* The application is told once when an active connection is removed,        *)
(* whoever removes it, if the callbacks are careful; of one that another     *)
(* connection of the same id overwrites it is told nothing.                  *)
THEOREM ToldOnceAlways ==
    ASSUME Careful
    PROVE  Spec => ToldOnce
<1>1. ASSUME ThreadsInv, ThreadsInv', [Next]_vars
      PROVE  [\A id \in Id :
                 /\ told'[id] <= 1
                 /\ Active(id) /\ ~Active(id)' =>
                       told[id] = 1 \/ connections'[id] = "ACCEPTED"]_vars
  <2> SUFFICES ASSUME Next, NEW id \in Id
               PROVE  /\ told'[id] <= 1
                      /\ Active(id) /\ ~Active(id)' =>
                            told[id] = 1 \/ connections'[id] = "ACCEPTED"
    BY <1>1
  <2>1. ToldInv /\ ToldInv' /\ Orderly /\ Tables
    BY <1>1, ThreadsTablesAre DEF ThreadsInv, Orderly, Ready
  <2>2. told'[id] <= 1
    <3>1. told'[id] \in {0, 1}
      BY <2>1 DEF ToldInv
    <3> QED
      BY <3>1
  <2> QED
    BY <2>1, <2>2, ToldBefore
<1> QED
  BY <1>1, ThreadsSafe, PTL DEF Spec, ToldOnce

=============================================================================
