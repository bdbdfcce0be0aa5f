-------------------------------- MODULE Decay --------------------------------
(* Items that decay: items/decay/decay.cpp, and what reaches it in item.cpp  *)
(* and game.cpp.                                                             *)
(*                                                                           *)
(* A decaying item is filed in decayMap under the time at which it decays;   *)
(* one event of the dispatcher serves the first bucket. The item's own       *)
(* attributes say where it is filed. Scripts, equipment, loading and the     *)
(* decay itself change the attributes, and then have startDecay or stopDecay *)
(* bring decayMap up to date. Times are relative to the current one, in a    *)
(* unit not shorter than SCHEDULER_MINTICKS.                                 *)
EXTENDS Integers, FiniteSets, FiniteSetsExt

CONSTANTS
  Items,        \* the Item objects
  MaxDuration,  \* bound: the longest duration a script sets
  MaxDelay,       \* bound: how late the dispatcher runs an event
  NoTime        \* an attribute the item does not have, or no event

ASSUME DecayAssumption ==
  IsFiniteSet(Items) /\ MaxDuration \in Nat \ {0} /\ MaxDelay \in Nat /\ NoTime \notin Int

(* A type of each kind the code tells apart: a candle that burns, put out,   *)
(* burnt down, and what is left of one; and the type that ids out of range   *)
(* have. A worn ring or boots, and the ones taken off, are like the first    *)
(* two.                                                                      *)
Kinds == {"lit", "unlit", "stub", "ash", "invalid"}

\* ItemType::decayTime, decayTo (0 is "nothing", -1 "never") and stopTime.
DecayTime == [t \in Kinds |-> CASE t = "lit" -> 2 [] t = "stub" -> 1 [] OTHER -> 0]
DecayTo == [t \in Kinds |-> CASE t = "lit" -> "stub" [] t = "stub" -> "nothing" [] OTHER -> "never"]
StopTime == [t \in Kinds |-> t = "unlit"]

\* What scripts and equipment turn into what.
Becomes == {<<"unlit", "lit">>, <<"lit", "unlit">>, <<"lit", "ash">>, <<"ash", "lit">>}

VARIABLE decay  \* the items, decayMap, and the dispatcher's events for checkDecay

Nowhere == [type |-> "ash", state |-> "none", duration |-> NoTime, stamp |-> NoTime, placed |-> FALSE]

\* decayMap is the set of what is filed, and when; `event' is the event that
\* eventId names. An event whose id was overwritten is one of `others'.
DecayInit ==
  decay = [item |-> [i \in Items |-> Nowhere], decayMap |-> {}, event |-> NoTime, others |-> {}]

----------------------------------------------------------------------------
(* The parts of an operation. Each takes the state and returns the next.     *)

Filed(w, i) == {e \in w.decayMap : e.item = i}
First(entries) == Min({e.at : e \in entries})
Decaying(w, i) == w.item[i].state \in {"true", "stopping"}

\* ItemProperties::getDuration, where no attribute reads as 0.
GetDuration(w, i) ==
  LET time == IF Decaying(w, i) THEN w.item[i].stamp ELSE w.item[i].duration
  IN IF time = NoTime THEN 0 ELSE Max({0, time})

CanDecay(w, i) ==
  LET t == w.item[i].type
  IN DecayTo[t] # "never" /\ DecayTime[t] > 0 /\ w.item[i].placed

\* Mutant: the time that is left is not kept.
TimeLeftForgotten(w, i) == w.item[i].duration

\* What stopDecay leaves in the attribute DURATION, if there is one.
TimeLeft(w, i) == IF w.item[i].duration = NoTime THEN NoTime ELSE GetDuration(w, i)

\* An item that is not where its attributes say loses its timestamp, unless
\* the bucket holds one item, another one.
StopDecay(w, i) ==
  LET x == w.item[i]
      entry == [item |-> i, at |-> x.stamp]
      bucket == {e \in w.decayMap : e.at = x.stamp}
  IN IF x.state = "none" THEN w
     ELSE IF x.stamp = NoTime THEN [w EXCEPT !.item[i].state = "none"]
     ELSE IF entry \in bucket
     THEN [w EXCEPT !.decayMap = @ \ {entry},
                    !.item[i].state = "none", !.item[i].duration = TimeLeft(w, i)]
     ELSE IF Cardinality(bucket) = 1 THEN w ELSE [w EXCEPT !.item[i].stamp = NoTime]

\* scheduleEvent; the event eventId has named so far goes on without a name.
Schedule(w, time) ==
  [w EXCEPT !.event = time, !.others = @ \union ({w.event} \ {NoTime})]

\* stopEvent, which finds nothing when that event has run.
Unscheduled(w) == [w EXCEPT !.event = NoTime]

\* startDecay takes an item with a timestamp out of decayMap first.
Unfiled(w, i) == IF w.item[i].stamp # NoTime THEN StopDecay(w, i) ELSE w

\* The end of startDecay: the item is filed, and the event comes earlier.
File(w, i, time) ==
  LET scheduled == IF w.decayMap = {} THEN Schedule(w, time)
                   ELSE IF time < First(w.decayMap) THEN Schedule(Unscheduled(w), time)
                   ELSE w
  IN [scheduled EXCEPT !.item[i].state = "true", !.item[i].stamp = time,
                       !.decayMap = @ \union {[item |-> i, at |-> time]}]

Removed(w, i) == StopDecay([w EXCEPT !.item[i].placed = FALSE], i)

\* Item::setID.
SetID(w, i, t) ==
  LET x == w.item[i]
  IN [w EXCEPT !.item[i] =
       IF DecayTime[t] = 0 /\ ~StopTime[t] /\ DecayTo[t] = "never"
       THEN [x EXCEPT !.type = t, !.duration = NoTime,
                      !.state = IF @ = "none" THEN @ ELSE "stopping"]
       ELSE IF DecayTime[t] > 0 /\ (~StopTime[x.type] \/ x.duration = NoTime)
       THEN [x EXCEPT !.type = t, !.duration = DecayTime[t], !.state = "pending"]
       ELSE [x EXCEPT !.type = t]]

\* The type transformItem gives an item that should become t: when the item's
\* time is up (1 ms is left, or less), what t decays to, unless that is 0; a
\* decayTo of -1 is the id 65535.
TypeAfter(w, i, t) ==
  IF (Decaying(w, i) \/ w.item[i].state = "pending") /\ GetDuration(w, i) = 0 /\ DecayTo[t] # "nothing"
  THEN IF DecayTo[t] = "never" THEN "invalid" ELSE DecayTo[t]
  ELSE t

\* startDecay of an item whose duration is not 0.
Started(w, i) ==
  LET x == w.item[i]
  IN CASE x.state = "stopping" \/ (x.state = "true" /\ ~CanDecay(w, i)) -> StopDecay(w, i)
       [] x.state \in {"none", "false", "pending"} /\ CanDecay(w, i) /\ x.duration # NoTime ->
            File(Unfiled(w, i), i, x.duration)
       [] OTHER -> w

\* Whether transformItem goes on, and what it leaves to startDecay.
Transformable(w, i, t) == w.item[i].type # t /\ w.item[i].placed
Transformed(w, i, t) == SetID(w, i, TypeAfter(w, i, t))

\* What an item decays to has all its duration before it: the startDecay that
\* transformItem calls does not decay it again.
InternalDecayItem(w, i) ==
  LET to == DecayTo[w.item[i].type]
  IN IF to = "nothing" THEN Removed(w, i)
     ELSE IF Transformable(w, i, to) THEN Started(Transformed(w, i, to), i) ELSE w

TimeIsUp(w, i) ==
  w.item[i].state \in {"none", "false", "pending"} /\ CanDecay(w, i) /\ w.item[i].duration = 0

StartDecay(w, i) == IF TimeIsUp(w, i) THEN InternalDecayItem(w, i) ELSE Started(w, i)

\* Game::transformItem.
TransformItem(w, i, t) ==
  IF Transformable(w, i, t) THEN StartDecay(Transformed(w, i, t), i) ELSE w

\* checkDecay, for one of the items whose time is up. An item that cannot decay
\* any more, for it was in a container that is gone, is left as it is.
Expire(w, i) ==
  LET stopped == [w EXCEPT !.item[i].state = "false", !.item[i].stamp = NoTime]
  IN IF CanDecay(w, i) THEN InternalDecayItem(stopped, i)
     ELSE [stopped EXCEPT !.item[i].duration = GetDuration(w, i)]

\* One item after the other.
ExpireAll(w, due) ==
  LET expired[I \in SUBSET Items] ==
        IF I = {} THEN w
        ELSE LET i == CHOOSE i \in I : TRUE IN Expire(expired[I \ {i}], i)
  IN expired[due]

Due(w) == {e \in w.decayMap : e.at <= 0}

\* Mutant: the next bucket is left to an event of its own.
CheckDecayOnce(w) == ExpireAll([w EXCEPT !.decayMap = @ \ Due(w)], {e.item : e \in Due(w)})

CheckDecay(w) ==
  LET rest == w.decayMap \ Due(w)
      done == ExpireAll([w EXCEPT !.decayMap = rest], {e.item : e \in Due(w)})
  IN IF rest = {} THEN done ELSE Schedule(done, First(rest))

----------------------------------------------------------------------------
(* The actions.                                                              *)

\* An object that was removed is gone once decayMap does not refer to it.
Settle(w) ==
  [w EXCEPT !.item = [i \in Items |-> IF @[i].placed \/ Filed(w, i) # {} THEN @[i] ELSE Nowhere]]

Placed(i) == decay.item[i].placed

\* The durations an item may have been saved with.
Saved(t) == CASE t = "unlit" -> 0..DecayTime["lit"] \union {NoTime}
              [] t \in {"lit", "stub"} -> 0..DecayTime[t]
              [] OTHER -> {NoTime}

\* An item object is created, or loaded with the attributes it was saved with,
\* and starts to decay.
Appear(i) ==
  /\ ~Placed(i) /\ Filed(decay, i) = {}
  /\ \E t \in Kinds \ {"invalid"} : \E state \in {"none", "pending"}, time \in Saved(t) :
       /\ t = "ash" => state = "none"
       /\ LET x == [type |-> t, state |-> state, duration |-> time, stamp |-> NoTime, placed |-> TRUE]
          IN decay' = Settle(StartDecay([decay EXCEPT !.item[i] = x], i))

\* Equipment put on or taken off, item:transform.
Transform(i) ==
  /\ Placed(i)
  /\ \E t \in Kinds :
       <<decay.item[i].type, t>> \in Becomes /\ decay' = Settle(TransformItem(decay, i, t))

\* item:setAttribute(ITEM_ATTRIBUTE_DURATION).
LuaSetDuration(i) ==
  /\ Placed(i)
  /\ \E time \in 0..MaxDuration :
       LET set == [decay EXCEPT !.item[i].state = "pending", !.item[i].duration = time]
       IN decay' = Settle(StartDecay(set, i))

\* item:stopDecay and item:decay.
LuaStopDecay(i) == Placed(i) /\ decay' = StopDecay(decay, i)
LuaDecay(i) == Placed(i) /\ decay' = Settle(StartDecay(decay, i))

\* internalRemoveItem.
RemoveItem(i) == Placed(i) /\ decay' = Settle(Removed(decay, i))

\* What the item is in goes; decayMap still has the item.
RemoveContainer(i) == Placed(i) /\ decay' = Settle([decay EXCEPT !.item[i].placed = FALSE])

\* When the scheduled events are due.
Events == decay.others \union ({decay.event} \ {NoTime})

\* An event that is due runs checkDecay. Of events that no id names, equal ones
\* count as one: the second changes nothing but the number of such events.
RunEvent ==
  \/ /\ decay.event # NoTime /\ decay.event <= 0
     /\ decay' = Settle(CheckDecay([decay EXCEPT !.event = NoTime]))
  \/ \E e \in decay.others :
       e <= 0 /\ decay' = Settle(CheckDecay([decay EXCEPT !.others = @ \ {e}]))

\* What is longer ago than MaxDelay is as good as for ever.
Earlier(time) == IF time = NoTime THEN NoTime ELSE Max({time - 1, -MaxDelay - 1})

\* Time passes, and the dispatcher is not later than MaxDelay.
TimePasses ==
  /\ \A e \in Events : e > -MaxDelay
  /\ decay' = [item |-> [i \in Items |-> [decay.item[i] EXCEPT !.stamp = Earlier(@)]],
               decayMap |-> {[e EXCEPT !.at = Earlier(@)] : e \in decay.decayMap},
               event |-> Earlier(decay.event),
               others |-> {Earlier(e) : e \in decay.others}]

DecayNext ==
  \/ \E i \in Items :
       \/ Appear(i) \/ Transform(i) \/ RemoveItem(i) \/ RemoveContainer(i)
       \/ LuaSetDuration(i) \/ LuaStopDecay(i) \/ LuaDecay(i)
  \/ RunEvent \/ TimePasses

DecaySpec == DecayInit /\ [][DecayNext]_decay

----------------------------------------------------------------------------
(* Properties.                                                               *)

Times == -MaxDelay - 1 .. Max({MaxDuration, DecayTime["lit"]})

\* The type invariant. An event that has run has no time any more.
DecayTypeOK ==
  /\ decay.item \in [Items -> [type: Kinds, placed: BOOLEAN,
                              state: {"none", "false", "true", "pending", "stopping"},
                              duration: Times \union {NoTime}, stamp: Times \union {NoTime}]]
  /\ decay.decayMap \subseteq [item: Items, at: Times]
  /\ decay.event \in Times \union {NoTime} /\ decay.others \subseteq Times

\* An item is filed once, and exactly where its attributes say, however often
\* its type, its duration or its state changed in between: an item that says it
\* decays and is not filed would never decay, one that is filed elsewhere would
\* be decayed behind its back. And an event comes no later than the first
\* bucket, whatever ids were overwritten, so that an item waits no longer than
\* the dispatcher is late.
DecayMapSound ==
  /\ \A i \in Items :
       LET x == decay.item[i]
       IN Filed(decay, i) = IF x.state = "true" THEN {[item |-> i, at |-> x.stamp]} ELSE {}
  /\ decay.decayMap # {} => \E e \in Events : e <= First(decay.decayMap)
  /\ \A e \in decay.decayMap : e.at >= -MaxDelay

\* Putting an item out and lighting it again, or taking a ring off and on, does
\* not change how long it lasts, at whatever moment.
TimeIsKept ==
  [][\A i \in Items :
       LET x == decay.item[i]
           y == decay'.item[i]
       IN ({x.type, y.type} = {"lit", "unlit"} /\ x.placed /\ y.placed /\ x.duration # NoTime)
            => GetDuration(decay', i) = GetDuration(decay, i)]_decay
=============================================================================
