--------------------------- MODULE OcObserveProofs ---------------------------
(***************************************************************************)
(* Observations, for any number of clients, resources, observers and       *)
(* transactions: the list of observers and its counters agree, nobody      *)
(* observes what he may not read, and no change of a resource is forgotten *)
(* by one of its observers.                                                *)
(***************************************************************************)
EXTENDS OcObserve, OcListProofs

-----------------------------------------------------------------------------
(* The inductive invariant.                                                *)

Transaction == [c: Client, mid: Mid, counter: 0 .. MaxRetransmit - 1]
Notification == [c: Client, mid: Mid]

\* What the list and its counters promise, for the list at hand.
Once(list) ==
  \A i, j \in 1 .. Len(list) :
    list[i].c = list[j].c /\ list[i].r = list[j].r => i = j

OfResource(r) == {o \in Observer : o.r = r}

ListSound(list, num) ==
  /\ list \in Seq(Observer) /\ Len(list) <= MaxObservers
  /\ num \in [Resource -> 0 .. MaxObservers]
  /\ \A r \in Resource : num[r] = Cardinality(Positions(list, OfResource(r)))
  /\ Once(list)

\* A message ID is left for the next notification.
InFlight(open, flying) ==
  /\ IsFiniteSet(open) /\ Cardinality(open) <= MaxTransactions
  /\ IsFiniteSet(flying) /\ Cardinality(flying) <= MaxInFlight

IInv ==
  /\ ObserversAreSound
  /\ InFlight(transactions, sent)
  /\ AccessIsRevoked
  /\ EveryObserverIsNotified

\* Everything the invariant says of a list of observers besides ListSound.
ItemsFit(list) ==
  \A o \in Range(list) :
    /\ o.r \in resources
    /\ dos = "RFNOP" => <<o.c, o.r>> \notin denied
    /\ o.due => o.r \in delayed

Scalars ==
  /\ resources \subseteq Resource
  /\ delayed \subseteq resources
  /\ polled \subseteq Periodic
  /\ transactions \subseteq Transaction
  /\ sent \subseteq Notification
  /\ InFlight(transactions, sent)
  /\ gone \subseteq Client
  /\ dos \in {"RFNOP", "RFPRO"}
  /\ denied \subseteq Guarded

LEMMA RangeIs ==
  ASSUME NEW X, NEW list \in Seq(X)
  PROVE  Range(list) = {list[i] : i \in 1 .. Len(list)}
  BY DEF Range

LEMMA OfIs ==
  ASSUME observers \in Seq(Observer), NEW r
  PROVE  Of(r) = Positions(observers, OfResource(r))
<1>1. DOMAIN observers = 1 .. Len(observers)
      /\ \A i \in 1 .. Len(observers) : observers[i] \in Observer
  OBVIOUS
<1> HIDE DEF Observer
<1> QED
  BY <1>1 DEF Of, Positions, OfResource

\* The parts that the proof works with are the invariant.
LEMMA InvIs ==
  IInv <=> Scalars /\ ListSound(observers, num_observers) /\ ItemsFit(observers)
<1>1. ASSUME observers \in Seq(Observer)
      PROVE  /\ ObservesOnce <=> Once(observers)
             /\ \A r : Of(r) = Positions(observers, OfResource(r))
  <2>1. DOMAIN observers = 1 .. Len(observers)
    BY <1>1
  <2> QED
    BY <1>1, <2>1, OfIs DEF ObservesOnce, Once
<1>2. IInv => observers \in Seq(Observer)
  BY DEF IInv, ObserversAreSound, TypeOK
<1>3. ListSound(observers, num_observers) => observers \in Seq(Observer)
  BY DEF ListSound
<1>4. ASSUME observers \in Seq(Observer)
      PROVE  IInv <=> Scalars /\ ListSound(observers, num_observers)
                        /\ ItemsFit(observers)
  <2>1. Scalars /\ ListSound(observers, num_observers) /\ ItemsFit(observers)
          => IInv
    BY <1>1, <1>4 DEF IInv, ObserversAreSound, TypeOK, ObserversAreCounted,
      AccessIsRevoked, EveryObserverIsNotified, Scalars, ListSound, ItemsFit,
      InFlight, Transaction, Notification
  <2>2. IInv =>
          Scalars /\ ListSound(observers, num_observers) /\ ItemsFit(observers)
    BY <1>1, <1>4 DEF IInv, ObserversAreSound, TypeOK, ObserversAreCounted,
      AccessIsRevoked, EveryObserverIsNotified, Scalars, ListSound, ItemsFit,
      InFlight, Transaction, Notification
  <2> QED
    BY <2>1, <2>2
<1> QED
  BY <1>2, <1>3, <1>4

-----------------------------------------------------------------------------
(* The list of observers.                                                  *)

\* The counters once the observers in S have left.
Less(num, list, S) ==
  [r \in Resource |->
     num[r] - Cardinality(Positions(list, S \cap OfResource(r)))]

\* Observers leave and the counters follow.
LEMMA WithoutSound ==
  ASSUME NEW list, NEW num, ListSound(list, num), NEW S
  PROVE  /\ ListSound(Without(list, S), Less(num, list, S))
         /\ Range(Without(list, S)) = Range(list) \ S
<1> DEFINE new == Without(list, S)
<1>1. list \in Seq(Observer)
  BY DEF ListSound
<1>2. new \in Seq(Observer) /\ Range(new) = Range(list) \ S
  <2>1. new \in Seq(Observer) /\ ItemsOf(new) = ItemsOf(list) \ S
    BY <1>1, WithoutSelects, WithoutItems, Zenon
  <2> HIDE DEF new, Observer
  <2>2. Range(new) = ItemsOf(new) /\ Range(list) = ItemsOf(list)
    BY <1>1, <2>1 DEF Range, ItemsOf
  <2> QED
    BY <2>1, <2>2
<1>3. Len(new) <= MaxObservers
  <2>1. Len(new) \in 0 .. Len(list) /\ Len(list) \in Nat
    BY <1>1, WithoutShortens
  <2> QED
    BY <2>1, NumbersAssumption DEF ListSound
<1>4. Once(new)
  <2>1. PICK h : Enumerates(h, new, list, S, Len(list))
    BY <1>1, WithoutSelects, Zenon
  <2>2. SUFFICES ASSUME NEW i \in 1 .. Len(new), NEW j \in 1 .. Len(new),
                        new[i].c = new[j].c, new[i].r = new[j].r, i # j
                 PROVE  FALSE
    BY DEF Once
  <2>3. /\ h[i] \in 1 .. Len(list) /\ h[j] \in 1 .. Len(list)
        /\ new[i] = list[h[i]] /\ new[j] = list[h[j]]
        /\ h[i] # h[j]
    <3> HIDE DEF new
    <3>1. Len(new) \in Nat /\ Len(list) \in Nat
      BY <1>1, <1>2
    <3>2. i \in Nat /\ j \in Nat
      BY <3>1
    <3> QED
      BY <2>1, <2>2, <3>1, <3>2 DEF Enumerates, Left
  <2> QED
    BY <2>2, <2>3 DEF ListSound, Once
<1>5. ASSUME NEW r \in Resource
      PROVE  /\ Less(num, list, S)[r] =
                  Cardinality(Positions(new, OfResource(r)))
             /\ Less(num, list, S)[r] \in 0 .. MaxObservers
  <2>1. Cardinality(Positions(new, OfResource(r))) =
          Cardinality(Positions(list, OfResource(r)))
            - Cardinality(Positions(list, S \cap OfResource(r)))
    BY <1>1, WithoutLeaves
  <2>2. Less(num, list, S)[r] = Cardinality(Positions(new, OfResource(r)))
    BY <2>1 DEF ListSound, Less
  <2>3. Cardinality(Positions(new, OfResource(r))) \in 0 .. Len(new)
        /\ Len(new) \in Nat
    BY <1>2, PositionsAreFinite
  <2> QED
    BY <1>3, <2>2, <2>3, NumbersAssumption
<1>6. Less(num, list, S) \in [Resource -> 0 .. MaxObservers]
  <2>1. Less(num, list, S) = [r \in Resource |-> Less(num, list, S)[r]]
    BY DEF Less
  <2> QED
    BY <1>5, <2>1
<1> HIDE DEF new
<1>7. ListSound(new, Less(num, list, S))
  BY <1>2, <1>3, <1>4, <1>5, <1>6 DEF ListSound
<1> QED
  BY <1>2, <1>7 DEF new

\* coap_remove_observers_by_filter
LEMMA RemoveAllSound ==
  ASSUME ListSound(observers, num_observers), NEW S, RemoveAll(S)
  PROVE  /\ ListSound(observers', num_observers')
         /\ Range(observers') = Range(observers) \ S
<1>1. observers \in Seq(Observer)
  BY DEF ListSound
<1>2. ASSUME NEW r \in Resource
      PROVE  {i \in Of(r) : observers[i] \in S} =
               Positions(observers, S \cap OfResource(r))
  BY <1>1, OfIs DEF Positions
<1>3. observers' = Without(observers, S)
      /\ num_observers' = Less(num_observers, observers, S)
  BY <1>2 DEF RemoveAll, Less
<1> QED
  BY <1>3, WithoutSound, Zenon

\* An observer joins the list, which has no other for the same client and
\* resource.
LEMMA AppendSound ==
  ASSUME NEW list, NEW num, ListSound(list, num), Len(list) < MaxObservers,
         NEW o \in Observer,
         \A x \in Range(list) : ~(x.c = o.c /\ x.r = o.r)
  PROVE  /\ ListSound(Append(list, o), [num EXCEPT ![o.r] = @ + 1])
         /\ Range(Append(list, o)) = Range(list) \cup {o}
<1> DEFINE new == Append(list, o)
           n == Len(list)
<1>1. list \in Seq(Observer) /\ n \in Nat /\ o.r \in Resource
  BY DEF ListSound, Observer
<1>2. /\ new \in Seq(Observer) /\ Len(new) = n + 1
      /\ new[n + 1] = o
      /\ \A i \in 1 .. n : new[i] = list[i]
  <2> HIDE DEF Observer
  <2> QED
    BY <1>1
<1> HIDE DEF new
<1>3. Range(new) = Range(list) \cup {o}
  <2>1. Range(new) = {new[i] : i \in 1 .. n + 1}
    BY <1>2, RangeIs
  <2>2. Range(list) = {list[i] : i \in 1 .. n}
    BY <1>1, RangeIs
  <2> QED
    BY <1>1, <1>2, <2>1, <2>2
<1>4. Once(new)
  <2>1. \A i \in 1 .. n : ~(list[i].c = o.c /\ list[i].r = o.r)
    BY <1>1, RangeIs
  <2>2. SUFFICES ASSUME NEW i \in 1 .. n + 1, NEW j \in 1 .. n + 1,
                        new[i].c = new[j].c, new[i].r = new[j].r
                 PROVE  i = j
    BY <1>2 DEF Once
  <2>3. CASE i = n + 1 /\ j # n + 1
    <3>1. j \in 1 .. n
      BY <1>1, <2>3
    <3> QED
      BY <1>2, <2>1, <2>2, <2>3, <3>1
  <2>4. CASE j = n + 1 /\ i # n + 1
    <3>1. i \in 1 .. n
      BY <1>1, <2>4
    <3> QED
      BY <1>2, <2>1, <2>2, <2>4, <3>1
  <2>5. CASE i # n + 1 /\ j # n + 1
    <3>1. i \in 1 .. n /\ j \in 1 .. n
      BY <1>1, <2>5
    <3> QED
      BY <1>2, <2>2, <3>1 DEF ListSound, Once
  <2> QED
    BY <2>3, <2>4, <2>5
<1>5. ASSUME NEW r \in Resource
      PROVE  Cardinality(Positions(new, OfResource(r))) =
               IF r = o.r THEN num[r] + 1 ELSE num[r]
  <2> DEFINE old == Positions(list, OfResource(r))
  <2>1. IsFiniteSet(old) /\ n + 1 \notin old /\ num[r] = Cardinality(old)
    <3>1. n + 1 \notin old
      BY <1>1 DEF Positions
    <3> QED
      BY <1>1, <3>1, PositionsAreFinite DEF ListSound
  <2>2. Positions(new, OfResource(r)) =
          IF r = o.r THEN old \cup {n + 1} ELSE old
    <3>1. ASSUME NEW i
          PROVE  i \in 1 .. n + 1 <=> i \in 1 .. n \/ i = n + 1
      BY <1>1
    <3>2. new[n + 1] \in OfResource(r) <=> r = o.r
      BY <1>2 DEF OfResource
    <3> QED
      BY <1>1, <1>2, <3>1, <3>2 DEF Positions
  <2> HIDE DEF old
  <2> QED
    BY <2>1, <2>2, FS_AddElement
<1>6. ASSUME NEW r \in Resource
      PROVE  /\ [num EXCEPT ![o.r] = @ + 1][r] =
                  Cardinality(Positions(new, OfResource(r)))
             /\ Cardinality(Positions(new, OfResource(r))) \in 0 .. MaxObservers
  <2>1. num \in [Resource -> 0 .. MaxObservers]
    BY DEF ListSound
  <2>2. Cardinality(Positions(new, OfResource(r))) \in 0 .. n + 1
    BY <1>2, PositionsAreFinite
  <2> QED
    BY <1>1, <1>5, <2>1, <2>2, NumbersAssumption
<1>7. [num EXCEPT ![o.r] = @ + 1] \in [Resource -> 0 .. MaxObservers]
  <2>1. num \in [Resource -> 0 .. MaxObservers]
    BY DEF ListSound
  <2>2. num[o.r] + 1 \in 0 .. MaxObservers
    BY <1>1, <1>6, <2>1
  <2> QED
    BY <2>1, <2>2
<1>8. ListSound(new, [num EXCEPT ![o.r] = @ + 1])
  BY <1>1, <1>2, <1>4, <1>6, <1>7, NumbersAssumption DEF ListSound
<1> QED
  BY <1>3, <1>8 DEF new

\* coap_add_observer
LEMMA AddObserverSound ==
  ASSUME ListSound(observers, num_observers),
         NEW c \in Client, NEW r \in Resource, NEW n \in StartValue .. MaxValue,
         AddObserver(c, r, n)
  PROVE  /\ ListSound(observers', num_observers')
         /\ Range(observers') \subseteq
              Range(observers) \cup {NewObserver(c, r, n)}
<1> DEFINE same == {o \in Range(observers) : o.c = c /\ o.r = r}
           others == Without(observers, same)
           num == Less(num_observers, observers, same)
           o == NewObserver(c, r, n)
<1>1. observers \in Seq(Observer)
      /\ num_observers \in [Resource -> 0 .. MaxObservers]
  BY DEF ListSound
<1>2. ListSound(others, num) /\ Range(others) = Range(observers) \ same
  BY WithoutSound, Zenon
<1>3. ASSUME NEW q \in Resource
      PROVE  num[q] = IF q = r
                        THEN num_observers[q]
                          - Cardinality({i \in Of(r) : observers[i] \in same})
                        ELSE num_observers[q]
  <2>1. CASE q = r
    <3>1. {i \in Of(r) : observers[i] \in same} =
            Positions(observers, same \cap OfResource(r))
      <4> HIDE DEF same
      <4> QED
        BY <1>1, OfIs DEF Positions
    <3> HIDE DEF same
    <3> QED
      BY <2>1, <3>1 DEF Less
  <2>2. CASE q # r
    <3>1. Positions(observers, same \cap OfResource(q)) = {}
      BY <2>2 DEF Positions, OfResource
    <3>2. num[q] = num_observers[q] - 0
      BY <3>1, FS_EmptySet DEF Less
    <3>3. num_observers[q] \in Int
      BY <1>1
    <3> QED
      BY <2>2, <3>2, <3>3
  <2> QED
    BY <2>1, <2>2
<1> HIDE DEF num
<1>4. o \in Observer /\ o.c = c /\ o.r = r
  BY NumbersAssumption DEF NewObserver, Observer, Mid
<1>5. DOMAIN num = Resource /\ num \in [Resource -> 0 .. MaxObservers]
  BY <1>2 DEF ListSound
<1>6. CASE Len(others) < MaxObservers
  <2>1. \A x \in Range(others) : ~(x.c = o.c /\ x.r = o.r)
    BY <1>2, <1>4
  <2>2. /\ ListSound(Append(others, o), [num EXCEPT ![o.r] = @ + 1])
        /\ Range(Append(others, o)) = Range(others) \cup {o}
    <3> HIDE DEF o, others
    <3> QED
      BY <1>2, <1>4, <1>6, <2>1, AppendSound
  <2>3. observers' = Append(others, o)
    BY <1>6 DEF AddObserver
  <2>4. num_observers' = [num EXCEPT ![r] = @ + 1]
    <3>1. num_observers' = [num_observers EXCEPT ![r] = @
            - Cardinality({i \in Of(r) : observers[i] \in same}) + 1]
      BY <1>6 DEF AddObserver
    <3> HIDE DEF same, others, o
    <3> QED
      BY <1>1, <1>3, <1>5, <3>1
  <2> HIDE DEF others, o
  <2> QED
    BY <1>2, <1>4, <2>2, <2>3, <2>4 DEF o
<1>7. CASE ~(Len(others) < MaxObservers)
  <2>1. observers' = others
    BY <1>7 DEF AddObserver
  <2>2. num_observers' = num
    <3>1. num_observers' = [num_observers EXCEPT ![r] = @
            - Cardinality({i \in Of(r) : observers[i] \in same}) + 0]
      BY <1>7 DEF AddObserver
    <3> HIDE DEF same, others, o
    <3> QED
      BY <1>1, <1>3, <1>5, <3>1
  <2> HIDE DEF others, o
  <2> QED
    BY <1>2, <2>1, <2>2
<1> QED
  BY <1>6, <1>7

-----------------------------------------------------------------------------
(* The walk over the observers.                                            *)

LEMMA FunctionIsList ==
  ASSUME NEW X, NEW n \in Nat, NEW f \in [1 .. n -> X]
  PROVE  f \in Seq(X) /\ Len(f) = n /\ DOMAIN f = 1 .. n
  OBVIOUS

\* Client and resource of every observer stay, and none is due anew.
Relabels(new, list) ==
  /\ new \in Seq(Observer) /\ Len(new) = Len(list)
  /\ \A i \in 1 .. Len(list) :
       /\ new[i].c = list[i].c /\ new[i].r = list[i].r
       /\ new[i].due => list[i].due

\* There are enough message IDs.
LEMMA MidsAreFew ==
  ASSUME NEW S, IsFiniteSet(S)
  PROVE  IsFiniteSet(MidsOf(S)) /\ Cardinality(MidsOf(S)) <= Cardinality(S)
<1> DEFINE f == [m \in S |-> m.mid]
<1>1. f \in Surjection(S, MidsOf(S))
  BY DEF MidsOf, Surjection
<1> QED
  BY <1>1, FS_Surjection

LEMMA FreshMidIsMid ==
  ASSUME NEW s, InFlight(s.transactions, s.sent)
  PROVE  FreshMid(s) \in Mid
<1> DEFINE used == MidsOf(s.transactions) \cup MidsOf(s.sent)
           free == Mid \ used
<1>1. /\ IsFiniteSet(used)
      /\ Cardinality(used) <= MaxTransactions + MaxInFlight
      /\ Cardinality(used) \in Nat
  <2> DEFINE A == MidsOf(s.transactions)
             B == MidsOf(s.sent)
  <2>1. /\ IsFiniteSet(A) /\ IsFiniteSet(B)
        /\ Cardinality(A) <= Cardinality(s.transactions)
        /\ Cardinality(B) <= Cardinality(s.sent)
    BY MidsAreFew DEF InFlight
  <2> HIDE DEF A, B
  <2>2. /\ Cardinality(A) \in Nat /\ Cardinality(B) \in Nat
        /\ Cardinality(s.transactions) \in Nat /\ Cardinality(s.sent) \in Nat
    BY <2>1, FS_CardinalityType DEF InFlight
  <2>3. /\ IsFiniteSet(A \cap B)
        /\ Cardinality(A \cap B) \in Nat
    <3>1. A \cap B \in SUBSET A
      OBVIOUS
    <3> QED
      BY <2>1, <3>1, FS_Subset, FS_CardinalityType
  <2>4. /\ IsFiniteSet(A \cup B)
        /\ Cardinality(A \cup B) =
             Cardinality(A) + Cardinality(B) - Cardinality(A \cap B)
    BY <2>1, FS_Union, Zenon
  <2>5. Cardinality(A \cup B) <= MaxTransactions + MaxInFlight
    BY <2>1, <2>2, <2>3, <2>4, NumbersAssumption DEF InFlight
  <2>6. Cardinality(A \cup B) \in Nat
    BY <2>4, FS_CardinalityType
  <2> QED
    BY <2>4, <2>5, <2>6 DEF A, B
<1> HIDE DEF used
<1>2. free # {}
  <2>1. SUFFICES ASSUME Mid \subseteq used
                 PROVE  FALSE
    OBVIOUS
  <2>2. Cardinality(Mid) = MaxTransactions + MaxInFlight + 1
    BY NumbersAssumption, FS_Interval DEF Mid
  <2>3. Cardinality(Mid) <= Cardinality(used)
    BY <1>1, <2>1, FS_Subset
  <2> QED
    BY <1>1, <2>2, <2>3, NumbersAssumption
<1>3. free \subseteq Nat
  BY NumbersAssumption DEF Mid
<1>4. \E n \in free : \A m \in free : n <= m
  <2> HIDE DEF free
  <2> QED
    BY <1>2, <1>3, LeastOf
<1>5. Min(free) \in free
  <2> HIDE DEF free
  <2> QED
    BY <1>4 DEF Min
<1>6. FreshMid(s) = Min(free)
  BY DEF FreshMid, used
<1> QED
  BY <1>5, <1>6

\* The observer at i as a notification leaves it.
LEMMA CounterIsInRange ==
  ASSUME NEW n \in StartValue .. MaxValue
  PROVE  observe_increment_observe_counter(n) \in StartValue .. MaxValue
  BY NumbersAssumption DEF observe_increment_observe_counter, StartValue

LEMMA AdvanceRelabels ==
  ASSUME NEW list \in Seq(Observer), NEW i \in 1 .. Len(list)
  PROVE  LET new == [list EXCEPT ![i].due = FALSE,
                       ![i].obs_counter = observe_increment_observe_counter(@)]
         IN Relabels(new, list) /\ ~ new[i].due
<1> DEFINE new == [list EXCEPT ![i].due = FALSE,
                     ![i].obs_counter = observe_increment_observe_counter(@)]
           n == Len(list)
<1>1. n \in Nat /\ list \in [1 .. n -> Observer]
  <2> HIDE DEF Observer
  <2> QED
    OBVIOUS
<1>2. list[i] \in Observer
  <2> HIDE DEF Observer
  <2> QED
    BY <1>1
<1>3. new[i] = [c |-> list[i].c, r |-> list[i].r,
                last_mid |-> list[i].last_mid,
                obs_counter |->
                  observe_increment_observe_counter(list[i].obs_counter),
                due |-> FALSE]
  BY <1>1, <1>2 DEF Observer
<1>4. new[i] \in Observer
  <2>1. observe_increment_observe_counter(list[i].obs_counter)
          \in StartValue .. MaxValue
    BY <1>2, CounterIsInRange DEF Observer
  <2> HIDE DEF new
  <2> QED
    BY <1>2, <1>3, <2>1 DEF Observer
<1>5. \A j \in 1 .. n : j # i => new[j] = list[j]
  BY <1>1
<1>6. DOMAIN new = 1 .. n /\ new = [j \in 1 .. n |-> new[j]]
  BY <1>1
<1>7. new[i].c = list[i].c /\ new[i].r = list[i].r /\ ~ new[i].due
  BY <1>3
<1> HIDE DEF new, Observer
<1>8. new \in [1 .. n -> Observer]
  BY <1>1, <1>4, <1>5, <1>6
<1>9. new \in Seq(Observer) /\ Len(new) = n
  BY <1>1, <1>8, FunctionIsList
<1> QED
  BY <1>5, <1>7, <1>9 DEF Relabels, new

LEMMA ForgetRelabels ==
  ASSUME NEW list \in Seq(Observer), NEW mid
  PROVE  Relabels(Forget(mid, list), list)
<1> DEFINE n == Len(list)
<1>1. n \in Nat /\ DOMAIN list = 1 .. n
      /\ \A i \in 1 .. n : list[i] \in Observer
  <2> HIDE DEF Observer
  <2> QED
    OBVIOUS
<1>2. ASSUME NEW i \in 1 .. n
      PROVE  /\ Forget(mid, list)[i] \in Observer
             /\ Forget(mid, list)[i].c = list[i].c
             /\ Forget(mid, list)[i].r = list[i].r
             /\ Forget(mid, list)[i].due = list[i].due
  <2>1. list[i] \in Observer
    BY <1>1
  <2>2. Forget(mid, list)[i] =
          [list[i] EXCEPT !.last_mid = IF list[i].last_mid = mid THEN 0
                                       ELSE list[i].last_mid]
    BY <1>1 DEF Forget
  <2> QED
    BY <2>1, <2>2 DEF Observer
<1>3. Forget(mid, list) = [i \in 1 .. n |-> Forget(mid, list)[i]]
  BY <1>1 DEF Forget
<1> HIDE DEF Observer
<1>4. Forget(mid, list) \in [1 .. n -> Observer]
  BY <1>2, <1>3
<1>5. Forget(mid, list) \in Seq(Observer) /\ Len(Forget(mid, list)) = n
  BY <1>1, <1>4, FunctionIsList
<1> QED
  BY <1>2, <1>5 DEF Relabels

LEMMA MarkRelabels ==
  ASSUME NEW list \in Seq(Observer), NEW i \in 1 .. Len(list),
         NEW mid \in Mid
  PROVE  Relabels([list EXCEPT ![i].last_mid = mid], list)
<1> DEFINE n == Len(list)
           new == [list EXCEPT ![i].last_mid = mid]
<1>1. n \in Nat /\ list \in [1 .. n -> Observer]
  <2> HIDE DEF Observer
  <2> QED
    OBVIOUS
<1>2. list[i] \in Observer
  <2> HIDE DEF Observer
  <2> QED
    BY <1>1
<1>3. new[i] = [list[i] EXCEPT !.last_mid = mid]
  BY <1>1
<1>4. /\ new[i] \in Observer
      /\ new[i].c = list[i].c /\ new[i].r = list[i].r /\ new[i].due = list[i].due
  BY <1>2, <1>3 DEF Observer
<1>5. \A j \in 1 .. n : j # i => new[j] = list[j]
  BY <1>1
<1>6. new = [j \in 1 .. n |-> new[j]]
  BY <1>1
<1> HIDE DEF new, Observer
<1>7. new \in [1 .. n -> Observer]
  BY <1>1, <1>4, <1>5, <1>6
<1>8. new \in Seq(Observer) /\ Len(new) = n
  BY <1>1, <1>7, FunctionIsList
<1> QED
  BY <1>4, <1>5, <1>8 DEF Relabels, new

LEMMA SkipRelabels ==
  ASSUME NEW list \in Seq(Observer), NEW i \in 1 .. Len(list)
  PROVE  LET new == [list EXCEPT ![i].due = FALSE]
         IN Relabels(new, list) /\ ~ new[i].due
<1> DEFINE n == Len(list)
           new == [list EXCEPT ![i].due = FALSE]
<1>1. n \in Nat /\ list \in [1 .. n -> Observer]
  <2> HIDE DEF Observer
  <2> QED
    OBVIOUS
<1>2. list[i] \in Observer
  <2> HIDE DEF Observer
  <2> QED
    BY <1>1
<1>3. new[i] = [list[i] EXCEPT !.due = FALSE]
  BY <1>1
<1>4. /\ new[i] \in Observer
      /\ new[i].c = list[i].c /\ new[i].r = list[i].r /\ ~ new[i].due
  BY <1>2, <1>3 DEF Observer
<1>5. \A j \in 1 .. n : j # i => new[j] = list[j]
  BY <1>1
<1>6. new = [j \in 1 .. n |-> new[j]]
  BY <1>1
<1> HIDE DEF new, Observer
<1>7. new \in [1 .. n -> Observer]
  BY <1>1, <1>4, <1>5, <1>6
<1>8. new \in Seq(Observer) /\ Len(new) = n
  BY <1>1, <1>7, FunctionIsList
<1> QED
  BY <1>4, <1>5, <1>8 DEF Relabels, new

LEMMA RelabelsTwice ==
  ASSUME NEW a, NEW b, NEW list, Relabels(a, b), Relabels(b, list)
  PROVE  Relabels(a, list)
<1> HIDE DEF Observer
<1> QED
  BY DEF Relabels

LEMMA RelabelsNot ==
  ASSUME NEW list \in Seq(Observer)
  PROVE  Relabels(list, list)
<1> HIDE DEF Observer
<1> QED
  BY DEF Relabels

\* The states of a walk over the list.
WalkRecord ==
  [list: Seq(Observer), transactions: SUBSET Transaction,
   sent: SUBSET Notification, num: Nat, refused: BOOLEAN]
WalkStates(list) ==
  {s \in WalkRecord :
     Relabels(s.list, list) /\ InFlight(s.transactions, s.sent)}

LEMMA UpdateWalk ==
  ASSUME NEW A, NEW B, NEW C,
         NEW s \in [list: A, transactions: B, sent: C, num: Nat,
                    refused: BOOLEAN],
         NEW a \in A, NEW b \in B, NEW c \in C, NEW n \in Nat
  PROVE  LET t == [s EXCEPT !.num = n, !.list = a, !.transactions = b,
                            !.sent = c]
         IN /\ t \in [list: A, transactions: B, sent: C, num: Nat,
                      refused: BOOLEAN]
            /\ t.list = a /\ t.transactions = b /\ t.sent = c
  OBVIOUS

LEMMA OneMore ==
  ASSUME NEW S, IsFiniteSet(S), NEW max \in Nat, Cardinality(S) < max, NEW x
  PROVE  IsFiniteSet(S \cup {x}) /\ Cardinality(S \cup {x}) <= max
<1>1. Cardinality(S) \in Nat
  BY FS_CardinalityType
<1>2. /\ IsFiniteSet(S \cup {x})
      /\ Cardinality(S \cup {x}) =
           IF x \in S THEN Cardinality(S) ELSE Cardinality(S) + 1
  BY FS_AddElement, Zenon
<1> QED
  BY <1>1, <1>2

\* coap_send_notification_internal
LEMMA SendNotificationWalks ==
  ASSUME NEW list, NEW s \in WalkStates(list), NEW i \in 1 .. Len(list)
  PROVE  /\ SendNotification(s, i) \in WalkStates(list)
         /\ Relabels(SendNotification(s, i).list, s.list)
         /\ ~ SendNotification(s, i).list[i].due
<1> DEFINE o == s.list[i]
           mid == FreshMid(s)
           told == [s.list EXCEPT ![i].due = FALSE,
                      ![i].obs_counter = observe_increment_observe_counter(@)]
           marked == [Forget(mid, told) EXCEPT ![i].last_mid = mid]
<1>1. /\ s \in WalkRecord /\ s.list \in Seq(Observer)
      /\ s.transactions \subseteq Transaction /\ s.sent \subseteq Notification
      /\ s.num \in Nat /\ s.refused \in BOOLEAN
      /\ Len(s.list) = Len(list) /\ Relabels(s.list, list)
      /\ InFlight(s.transactions, s.sent)
  <2> HIDE DEF Observer, Transaction, Notification
  <2> QED
    BY DEF WalkStates, WalkRecord, Relabels
<1>2. o \in Observer /\ o.c \in Client
  <2>1. o \in Observer
    <3> HIDE DEF Observer
    <3> QED
      BY <1>1
  <2> QED
    BY <2>1 DEF Observer
<1>3. Relabels(told, s.list) /\ ~ told[i].due
  BY <1>1, AdvanceRelabels
<1>4. mid \in Mid
  BY <1>1, FreshMidIsMid
<1> HIDE DEF told, mid, o
<1>5. told \in Seq(Observer) /\ Len(told) = Len(list)
  BY <1>1, <1>3 DEF Relabels
<1>6. Relabels(Forget(mid, told), told)
  BY <1>5, ForgetRelabels
<1>7. /\ Forget(mid, told) \in Seq(Observer)
      /\ Len(Forget(mid, told)) = Len(list)
  BY <1>5, <1>6 DEF Relabels
<1>8. Relabels(marked, Forget(mid, told))
  BY <1>4, <1>7, MarkRelabels
<1> HIDE DEF marked
<1>9. Relabels(marked, s.list) /\ ~ marked[i].due
  <2>1. Relabels(marked, told)
    BY <1>6, <1>8, RelabelsTwice
  <2> QED
    BY <1>3, <1>5, <2>1, RelabelsTwice DEF Relabels
<1>10. CASE Cardinality(s.transactions) >= MaxTransactions
  <2> DEFINE t == [s EXCEPT !.list = told, !.refused = TRUE]
  <2>1. SendNotification(s, i) = t
    BY <1>10 DEF SendNotification, told
  <2>2. /\ t \in WalkRecord
        /\ t.list = told /\ t.transactions = s.transactions
        /\ t.sent = s.sent
    <3> HIDE DEF Observer, Transaction, Notification
    <3> QED
      BY <1>1, <1>5 DEF WalkRecord
  <2>3. Relabels(told, list)
    BY <1>1, <1>3, RelabelsTwice
  <2> HIDE DEF t
  <2> QED
    BY <1>1, <1>3, <2>1, <2>2, <2>3 DEF WalkStates
<1>11. CASE ~ (Cardinality(s.transactions) >= MaxTransactions)
  <2> DEFINE open == IF IsConfirmable(o)
                       THEN s.transactions \cup
                              {[c |-> o.c, mid |-> mid, counter |-> 0]}
                       ELSE s.transactions
             flying == IF Cardinality(s.sent) < MaxInFlight /\ o.c \notin gone
                         THEN s.sent \cup {[c |-> o.c, mid |-> mid]}
                         ELSE s.sent
             t == [s EXCEPT !.num = s.num + 1, !.list = marked,
                            !.transactions = open, !.sent = flying]
  <2>1. SendNotification(s, i) = t
    BY <1>11 DEF SendNotification, told, marked, mid, o
  <2>2. open \subseteq Transaction /\ IsFiniteSet(open)
        /\ Cardinality(open) <= MaxTransactions
    <3>1. [c |-> o.c, mid |-> mid, counter |-> 0] \in Transaction
      BY <1>2, <1>4, NumbersAssumption DEF Transaction
    <3>2. Cardinality(s.transactions) \in Nat /\ IsFiniteSet(s.transactions)
      BY <1>1, FS_CardinalityType DEF InFlight
    <3>3. Cardinality(s.transactions) < MaxTransactions
          /\ MaxTransactions \in Nat
      BY <1>11, <3>2, NumbersAssumption
    <3>4. CASE IsConfirmable(o)
      <4> DEFINE x == [c |-> o.c, mid |-> mid, counter |-> 0]
      <4>1. open = s.transactions \cup {x} /\ x \in Transaction
        BY <3>1, <3>4
      <4> HIDE DEF x, open, Transaction
      <4> QED
        BY <1>1, <3>2, <3>3, <4>1, OneMore
    <3>5. CASE ~ IsConfirmable(o)
      BY <1>1, <3>2, <3>3, <3>5
    <3> QED
      BY <3>4, <3>5
  <2>3. flying \subseteq Notification /\ IsFiniteSet(flying)
        /\ Cardinality(flying) <= MaxInFlight
    <3>1. [c |-> o.c, mid |-> mid] \in Notification
      BY <1>2, <1>4 DEF Notification
    <3>2. IsFiniteSet(s.sent) /\ Cardinality(s.sent) <= MaxInFlight
          /\ MaxInFlight \in Nat
      BY <1>1, NumbersAssumption DEF InFlight
    <3> HIDE DEF Notification
    <3> QED
      BY <1>1, <3>1, <3>2, OneMore
  <2> HIDE DEF open, flying
  <2>4. /\ t \in WalkRecord
        /\ t.list = marked /\ t.transactions = open /\ t.sent = flying
    <3>1. marked \in Seq(Observer)
      BY <1>9 DEF Relabels
    <3> HIDE DEF Observer, Transaction, Notification
    <3>2. s.num + 1 \in Nat
      BY <1>1
    <3> QED
      BY <1>1, <2>2, <2>3, <3>1, <3>2, UpdateWalk DEF WalkRecord
  <2>5. Relabels(marked, list)
    BY <1>1, <1>9, RelabelsTwice
  <2> HIDE DEF t
  <2> QED
    BY <1>9, <2>1, <2>2, <2>3, <2>4, <2>5 DEF WalkStates, InFlight
<1> QED
  BY <1>10, <1>11

\* One turn of the walk, which leaves no observer of r behind that is due.
LEMMA TellWalks ==
  ASSUME NEW list, NEW s \in WalkStates(list), NEW i \in 1 .. Len(list), NEW r
  PROVE  /\ Tell(r, s, i) \in WalkStates(list)
         /\ Relabels(Tell(r, s, i).list, s.list)
         /\ list[i].r = r => ~ Tell(r, s, i).list[i].due
<1>1. /\ s \in WalkRecord /\ s.list \in Seq(Observer)
      /\ Len(s.list) = Len(list) /\ Relabels(s.list, list)
      /\ s.list[i].r = list[i].r
      /\ InFlight(s.transactions, s.sent)
  <2> HIDE DEF Observer, Transaction, Notification
  <2> QED
    BY DEF WalkStates, WalkRecord, Relabels
<1>2. CASE list[i].r # r
  <2>1. Tell(r, s, i) = s
    BY <1>1, <1>2 DEF Tell
  <2> QED
    BY <1>1, <1>2, <2>1, RelabelsNot
<1>3. CASE list[i].r = r /\ s.refused
  <2> DEFINE l == [s.list EXCEPT ![i].due = FALSE]
             t == [s EXCEPT !.list = l]
  <2>1. Tell(r, s, i) = t
    BY <1>1, <1>3 DEF Tell, WalkRecord
  <2>2. Relabels(l, s.list) /\ ~ l[i].due
    BY <1>1, SkipRelabels
  <2> HIDE DEF l
  <2>3. Relabels(l, list) /\ l \in Seq(Observer)
    BY <1>1, <2>2, RelabelsTwice DEF Relabels
  <2>4. /\ t \in WalkRecord
        /\ t.list = l /\ t.transactions = s.transactions /\ t.sent = s.sent
    <3> HIDE DEF Observer, Transaction, Notification
    <3> QED
      BY <1>1, <2>3 DEF WalkRecord
  <2> HIDE DEF t
  <2> QED
    BY <1>1, <2>1, <2>2, <2>3, <2>4 DEF WalkStates
<1>4. CASE list[i].r = r /\ ~ s.refused
  <2>1. Tell(r, s, i) = SendNotification(s, i)
    BY <1>1, <1>4 DEF Tell
  <2> QED
    BY <2>1, SendNotificationWalks
<1> QED
  BY <1>2, <1>3, <1>4

LEMMA WalkBegins ==
  ASSUME Scalars, NEW list, NEW new, Relabels(new, list)
  PROVE  Walk(new) \in WalkStates(list) /\ Walk(new).list = new
<1>1. new \in Seq(Observer)
  BY DEF Relabels
<1> HIDE DEF Observer, Transaction, Notification
<1> QED
  BY <1>1 DEF Scalars, Walk, WalkStates, WalkRecord

\* coap_iterate_observers: no observer of r is due after the walk.
LEMMA IterateWalks ==
  ASSUME Scalars, NEW list \in Seq(Observer), NEW r
  PROVE  /\ Iterate(r, list) \in WalkStates(list)
         /\ \A i \in 1 .. Len(list) :
              list[i].r = r => ~ Iterate(r, list).list[i].due
<1> DEFINE N == Len(list)
           W == WalkStates(list)
           g == [n \in 1 .. N |-> [s \in W |-> Tell(r, s, n)]]
           Def(f) == [n \in 0 .. N |->
                        IF n = 0 THEN Walk(list) ELSE Tell(r, f[n - 1], n)]
           h == CHOOSE f : f = Def(f)
<1>1. N \in Nat
  OBVIOUS
<1>2. Walk(list) \in W
  BY WalkBegins, RelabelsNot
<1>3. ASSUME NEW n \in 1 .. N, NEW s \in W
      PROVE  /\ Tell(r, s, n) \in W
             /\ Relabels(Tell(r, s, n).list, s.list)
             /\ list[n].r = r => ~ Tell(r, s, n).list[n].due
  BY TellWalks
<1> HIDE DEF W, N
<1>4. g \in Steps(W, N)
  BY <1>3 DEF Steps
<1>5. PICK f : Walks(f, W, N, Walk(list), g)
  <2> HIDE DEF g
  <2> QED
    BY <1>1, <1>2, <1>4, WalkExists, Zenon
<1>6. f = Def(f)
  <2>1. f \in [0 .. N -> W] /\ f[0] = Walk(list)
    BY <1>5 DEF Walks
  <2>2. ASSUME NEW n \in 0 .. N, n # 0
        PROVE  f[n] = Tell(r, f[n - 1], n)
    <3>1. n \in 1 .. N /\ n - 1 \in 0 .. N
      BY <1>1, <2>2
    <3>2. f[n - 1] \in W
      BY <2>1, <3>1
    <3>3. f[n] = g[n][f[n - 1]]
      <4> HIDE DEF g
      <4> QED
        BY <1>5, <3>1 DEF Walks
    <3> QED
      BY <3>1, <3>2, <3>3
  <2>3. ASSUME NEW n \in 0 .. N
        PROVE  f[n] = Def(f)[n]
    <3>1. CASE n = 0
      BY <2>1, <3>1
    <3>2. CASE n # 0
      BY <2>2, <3>2
    <3> QED
      BY <3>1, <3>2
  <2>4. DOMAIN Def(f) = 0 .. N /\ Def(f) = [n \in 0 .. N |-> Def(f)[n]]
    OBVIOUS
  <2> HIDE DEF Def
  <2> QED
    BY <2>1, <2>3, <2>4
<1>7. Iterate(r, list) = h[N]
  BY Zenon DEF Iterate, N
<1>8. h = Def(h)
  <2> HIDE DEF Def
  <2> QED
    BY <1>6
<1>9. h[0] = Walk(list) /\ \A n \in 1 .. N : h[n] = Tell(r, h[n - 1], n)
  <2>1. Def(h)[0] = Walk(list)
        /\ \A n \in 1 .. N : Def(h)[n] = Tell(r, h[n - 1], n)
    <3> HIDE DEF h
    <3> QED
      BY <1>1
  <2> HIDE DEF Def, h
  <2> QED
    BY <1>8, <2>1
<1> HIDE DEF h
<1> DEFINE Done(s, n) ==
             \A i \in 1 .. n : list[i].r = r => ~ s.list[i].due
           P == {n \in 0 .. N : h[n] \in W /\ Done(h[n], n)}
<1>10. 0 .. N \subseteq P
  <2>1. 0 \in P
    BY <1>1, <1>2, <1>9
  <2>2. ASSUME NEW n \in 1 .. N, n - 1 \in P
        PROVE  n \in P
    <3>1. h[n - 1] \in W /\ Done(h[n - 1], n - 1)
      BY <2>2
    <3>2. h[n] = Tell(r, h[n - 1], n)
      BY <1>9
    <3>3. /\ h[n] \in W
          /\ Relabels(h[n].list, h[n - 1].list)
          /\ list[n].r = r => ~ h[n].list[n].due
      BY <1>3, <3>1, <3>2
    <3>4. Len(h[n - 1].list) = N
      BY <3>1 DEF W, N, WalkStates, Relabels
    <3>5. ASSUME NEW i \in 1 .. n, list[i].r = r
          PROVE  ~ h[n].list[i].due
      <4>1. CASE i = n
        BY <3>3, <3>5, <4>1
      <4>2. CASE i # n
        <5>1. i \in 1 .. n - 1 /\ i \in 1 .. N
          BY <1>1, <4>2
        <5>2. ~ h[n - 1].list[i].due
          BY <3>1, <3>5, <5>1
        <5> QED
          BY <3>3, <3>4, <5>1, <5>2 DEF Relabels
      <4> QED
        BY <4>1, <4>2
    <3> QED
      BY <1>1, <3>3, <3>5
  <2> HIDE DEF P
  <2> QED
    BY <1>1, <2>1, <2>2, SetInduction
<1>11. N \in P
  <2> HIDE DEF P
  <2> QED
    BY <1>1, <1>10
<1> QED
  BY <1>7, <1>11 DEF W, N

\* Client and resource are all that the counters depend on.
SameKeys(new, list) ==
  /\ new \in Seq(Observer) /\ Len(new) = Len(list)
  /\ \A i \in 1 .. Len(list) : new[i].c = list[i].c /\ new[i].r = list[i].r

LEMMA SameKeysSound ==
  ASSUME NEW list, NEW num, ListSound(list, num), NEW new, SameKeys(new, list)
  PROVE  ListSound(new, num)
<1>1. list \in Seq(Observer) /\ Len(list) \in Nat
  BY DEF ListSound
<1>2. ASSUME NEW r
      PROVE  Positions(new, OfResource(r)) = Positions(list, OfResource(r))
  <2>1. \A i \in 1 .. Len(list) : new[i] \in Observer /\ list[i] \in Observer
    <3> HIDE DEF Observer
    <3> QED
      BY <1>1 DEF SameKeys
  <2> HIDE DEF Observer
  <2> QED
    BY <1>1, <2>1 DEF SameKeys, Positions, OfResource
<1>3. Once(new)
  BY DEF ListSound, SameKeys, Once
<1> QED
  BY <1>2, <1>3 DEF ListSound, SameKeys

LEMMA SkippedRelabels ==
  ASSUME NEW list \in Seq(Observer), NEW r
  PROVE  /\ Relabels(Skipped(r, list), list)
         /\ \A i \in 1 .. Len(list) :
              list[i].r = r => ~ Skipped(r, list)[i].due
<1> DEFINE n == Len(list)
           new == Skipped(r, list)
<1>1. n \in Nat /\ DOMAIN list = 1 .. n
      /\ \A i \in 1 .. n : list[i] \in Observer
  <2> HIDE DEF Observer
  <2> QED
    OBVIOUS
<1>2. ASSUME NEW i \in 1 .. n
      PROVE  /\ new[i] \in Observer
             /\ new[i].c = list[i].c /\ new[i].r = list[i].r
             /\ new[i].due <=> list[i].due /\ list[i].r # r
  <2>1. list[i] \in Observer
    BY <1>1
  <2> DEFINE b == list[i].due /\ list[i].r # r
  <2>2. new[i] = [list[i] EXCEPT !.due = b]
    BY <1>1 DEF Skipped
  <2>3. b \in BOOLEAN
    OBVIOUS
  <2> HIDE DEF new, b
  <2>4. /\ new[i] \in Observer
        /\ new[i].c = list[i].c /\ new[i].r = list[i].r /\ new[i].due = b
    BY <2>1, <2>2, <2>3 DEF Observer
  <2> QED
    BY <2>4 DEF b
<1>3. new = [i \in 1 .. n |-> new[i]]
  BY <1>1 DEF Skipped
<1> HIDE DEF Observer, new
<1>4. new \in [1 .. n -> Observer]
  BY <1>2, <1>3
<1>5. new \in Seq(Observer) /\ Len(new) = n
  BY <1>1, <1>4, FunctionIsList
<1> QED
  BY <1>2, <1>5 DEF Relabels, new

LEMMA DueKeeps ==
  ASSUME observers \in Seq(Observer), NEW r
  PROVE  /\ SameKeys(Due(r), observers)
         /\ \A i \in 1 .. Len(observers) :
              Due(r)[i].due <=> observers[i].due \/ observers[i].r = r
<1> DEFINE n == Len(observers)
           new == Due(r)
<1>1. n \in Nat /\ DOMAIN observers = 1 .. n
      /\ \A i \in 1 .. n : observers[i] \in Observer
  <2> HIDE DEF Observer
  <2> QED
    OBVIOUS
<1>2. ASSUME NEW i \in 1 .. n
      PROVE  /\ new[i] \in Observer
             /\ new[i].c = observers[i].c /\ new[i].r = observers[i].r
             /\ new[i].due <=> observers[i].due \/ observers[i].r = r
  <2>1. observers[i] \in Observer
    BY <1>1
  <2> DEFINE b == observers[i].due \/ observers[i].r = r
  <2>2. new[i] = [observers[i] EXCEPT !.due = b]
    BY <1>1 DEF Due
  <2>3. b \in BOOLEAN
    OBVIOUS
  <2> HIDE DEF new, b
  <2>4. /\ new[i] \in Observer
        /\ new[i].c = observers[i].c /\ new[i].r = observers[i].r
        /\ new[i].due = b
    BY <2>1, <2>2, <2>3 DEF Observer
  <2> QED
    BY <2>4 DEF b
<1>3. new = [i \in 1 .. n |-> new[i]]
  BY <1>1 DEF Due
<1> HIDE DEF Observer, new
<1>4. new \in [1 .. n -> Observer]
  BY <1>2, <1>3
<1>5. new \in Seq(Observer) /\ Len(new) = n
  BY <1>1, <1>4, FunctionIsList
<1> QED
  BY <1>2, <1>5 DEF SameKeys, new

\* coap_notify_observers, whichever way it ends.
LEMMA NotifiedWalks ==
  ASSUME Scalars, NEW list, ListSound(list, num_observers), NEW r \in Resource
  PROVE  /\ Notified(r, list) \in WalkStates(list)
         /\ \A i \in 1 .. Len(list) :
              list[i].r = r => ~ Notified(r, list).list[i].due
<1>1. list \in Seq(Observer)
  BY DEF ListSound
<1>2. CASE dos # "RFNOP"
  <2>1. Notified(r, list) = Walk(Skipped(r, list))
    BY <1>2 DEF Notified
  <2>2. /\ Walk(Skipped(r, list)) \in WalkStates(list)
        /\ Walk(Skipped(r, list)).list = Skipped(r, list)
    BY <1>1, SkippedRelabels, WalkBegins
  <2> QED
    BY <1>1, <2>1, <2>2, SkippedRelabels
<1>3. CASE dos = "RFNOP" /\ num_observers[r] = 0
  <2>1. Notified(r, list) = Walk(list)
    BY <1>3 DEF Notified
  <2>2. Walk(list) \in WalkStates(list)
    BY <1>1, RelabelsNot, WalkBegins
  <2>3. Positions(list, OfResource(r)) = {}
    <3>1. Cardinality(Positions(list, OfResource(r))) = 0
      BY <1>3 DEF ListSound
    <3>2. IsFiniteSet(Positions(list, OfResource(r)))
      BY <1>1, PositionsAreFinite
    <3> QED
      BY <3>1, <3>2, FS_EmptySet, Zenon
  <2>4. ASSUME NEW i \in 1 .. Len(list)
        PROVE  list[i].r # r
    <3>1. list[i] \in Observer
      <4> HIDE DEF Observer
      <4> QED
        BY <1>1
    <3> HIDE DEF Observer
    <3> QED
      BY <2>3, <3>1 DEF Positions, OfResource
  <2> QED
    BY <2>1, <2>2, <2>4
<1>4. CASE dos = "RFNOP" /\ num_observers[r] # 0
  <2>1. Notified(r, list) = Iterate(r, list)
    BY <1>4 DEF Notified
  <2> QED
    BY <1>1, <2>1, IterateWalks
<1> QED
  BY <1>2, <1>3, <1>4

-----------------------------------------------------------------------------
(* Every step preserves the invariant.                                     *)

LEMMA InitInv == Init => IInv
<1> SUFFICES ASSUME Init
             PROVE  IInv
  OBVIOUS
<1>1. observers = << >> /\ observers \in Seq(Observer) /\ Len(observers) = 0
  BY DEF Init
<1>2. Range(observers) = {} /\ \A T : Positions(observers, T) = {}
  BY <1>1 DEF Range, Positions
<1>3. Scalars
  BY FS_EmptySet, NumbersAssumption DEF Init, Scalars, InFlight
<1>4. ListSound(observers, num_observers)
  <2>1. num_observers = [r \in Resource |-> 0] /\ Cardinality({}) = 0
    BY FS_EmptySet DEF Init
  <2>2. num_observers \in [Resource -> 0 .. MaxObservers]
    BY <2>1, NumbersAssumption
  <2>3. \A r \in Resource :
          num_observers[r] = Cardinality(Positions(observers, OfResource(r)))
    BY <1>2, <2>1
  <2>4. Once(observers) /\ Len(observers) <= MaxObservers
    BY <1>1, NumbersAssumption DEF Once
  <2> QED
    BY <1>1, <2>2, <2>3, <2>4 DEF ListSound
<1>5. ItemsFit(observers)
  BY <1>2 DEF ItemsFit
<1> QED
  BY <1>3, <1>4, <1>5, InvIs

\* A part of what is in flight is not more than all of it.
LEMMA FewerInFlight ==
  ASSUME NEW open, NEW flying, InFlight(open, flying),
         NEW open1 \in SUBSET open, NEW flying1 \in SUBSET flying
  PROVE  InFlight(open1, flying1)
<1>1. /\ IsFiniteSet(open1) /\ Cardinality(open1) <= Cardinality(open)
      /\ IsFiniteSet(flying1) /\ Cardinality(flying1) <= Cardinality(flying)
  BY FS_Subset DEF InFlight
<1>2. /\ Cardinality(open1) \in Nat /\ Cardinality(open) \in Nat
      /\ Cardinality(flying1) \in Nat /\ Cardinality(flying) \in Nat
  BY <1>1, FS_CardinalityType DEF InFlight
<1> QED
  BY <1>1, <1>2, NumbersAssumption DEF InFlight

LEMMA RequestsInv ==
  ASSUME Scalars, ListSound(observers, num_observers), ItemsFit(observers),
         Requests
  PROVE  Scalars' /\ ListSound(observers', num_observers')
         /\ ItemsFit(observers)'
<1>1. PICK c \in Client, r \in Resource :
        Register(c, r) \/ RegisterFails(c, r) \/ Deregister(c, r)
  BY DEF Requests
<1>2. CASE Register(c, r)
  <2>1. PICK n \in StartValue .. MaxValue : AddObserver(c, r, n)
    BY <1>2 DEF Register
  <2>2. /\ ListSound(observers', num_observers')
        /\ Range(observers') \subseteq
             Range(observers) \cup {NewObserver(c, r, n)}
    BY <2>1, AddObserverSound
  <2>3. Scalars'
    BY <1>2 DEF Register, Scalars
  <2>4. ItemsFit(observers)'
    <3> DEFINE new == NewObserver(c, r, n)
    <3>1. new.c = c /\ new.r = r /\ new.due = FALSE
      BY DEF NewObserver
    <3>2. /\ r \in resources /\ dos = "RFNOP" /\ <<c, r>> \notin denied
          /\ UNCHANGED <<resources, dos, denied, delayed>>
      BY <1>2 DEF Register, Permitted
    <3> HIDE DEF new
    <3>3. ASSUME NEW o \in Range(observers')
          PROVE  o \in Range(observers) \/ o = new
      BY <2>2 DEF new
    <3> QED
      BY <3>1, <3>2, <3>3 DEF ItemsFit
  <2> QED
    BY <2>2, <2>3, <2>4
<1>3. CASE RegisterFails(c, r)
  <2>1. /\ ListSound(observers', num_observers')
        /\ Range(observers') \subseteq Range(observers)
    BY <1>3, RemoveAllSound DEF RegisterFails
  <2>2. Scalars'
    BY <1>3 DEF RegisterFails, Scalars
  <2>3. ItemsFit(observers)'
    BY <1>3, <2>1 DEF RegisterFails, ItemsFit
  <2> QED
    BY <2>1, <2>2, <2>3
<1>4. CASE Deregister(c, r)
  <2>1. PICK S : RemoveAll(S)
    BY <1>4 DEF Deregister, RemoveMatch
  <2>2. /\ ListSound(observers', num_observers')
        /\ Range(observers') \subseteq Range(observers)
    BY <2>1, RemoveAllSound
  <2>3. Scalars'
    BY <1>4 DEF Deregister, Scalars
  <2>4. ItemsFit(observers)'
    BY <1>4, <2>2 DEF Deregister, ItemsFit
  <2> QED
    BY <2>2, <2>3, <2>4
<1> QED
  BY <1>1, <1>2, <1>3, <1>4

\* A notification of r leaves the list sound, and no observer of r due.
LEMMA NotifySound ==
  ASSUME Scalars, NEW list, ListSound(list, num_observers),
         NEW r \in Resource, Notify(Notified(r, list))
  PROVE  /\ ListSound(observers', num_observers')
         /\ transactions' \subseteq Transaction /\ sent' \subseteq Notification
         /\ InFlight(transactions', sent')
         /\ \A o \in Range(observers') : \E i \in 1 .. Len(list) :
              /\ o.c = list[i].c /\ o.r = list[i].r
              /\ o.due => list[i].due /\ list[i].r # r
<1> DEFINE s == Notified(r, list)
<1>1. /\ s \in WalkStates(list)
      /\ \A i \in 1 .. Len(list) : list[i].r = r => ~ s.list[i].due
  BY NotifiedWalks
<1>2. /\ observers' = s.list /\ transactions' = s.transactions
      /\ sent' = s.sent /\ num_observers' = num_observers
  BY DEF Notify
<1> HIDE DEF s
<1>3. /\ Relabels(s.list, list) /\ InFlight(s.transactions, s.sent)
      /\ s.transactions \subseteq Transaction /\ s.sent \subseteq Notification
  <2> HIDE DEF Observer, Transaction, Notification
  <2> QED
    BY <1>1 DEF WalkStates, WalkRecord
<1>4. ListSound(s.list, num_observers)
  BY <1>3, SameKeysSound DEF Relabels, SameKeys
<1>5. ASSUME NEW o \in Range(s.list)
      PROVE  \E i \in 1 .. Len(list) :
               /\ o.c = list[i].c /\ o.r = list[i].r
               /\ o.due => list[i].due /\ list[i].r # r
  <2>1. PICK i \in 1 .. Len(list) : o = s.list[i]
    BY <1>3, RangeIs DEF Relabels
  <2> QED
    BY <1>1, <1>3, <2>1 DEF Relabels
<1> QED
  BY <1>2, <1>3, <1>4, <1>5

LEMMA ApplicationInv ==
  ASSUME Scalars, ListSound(observers, num_observers), ItemsFit(observers),
         Application
  PROVE  Scalars' /\ ListSound(observers', num_observers')
         /\ ItemsFit(observers)'
<1>1. PICK r \in Resource :
        Change(r) \/ ChangeDelayed(r) \/ DeleteResource(r) \/ CreateResource(r)
  BY DEF Application
<1>2. /\ observers \in Seq(Observer)
      /\ \A i \in 1 .. Len(observers) : observers[i] \in Range(observers)
  BY RangeIs DEF ListSound
<1>3. /\ SameKeys(Due(r), observers) /\ ListSound(Due(r), num_observers)
      /\ \A i \in 1 .. Len(observers) :
           Due(r)[i].due <=> observers[i].due \/ observers[i].r = r
  BY <1>2, DueKeeps, SameKeysSound
<1>4. CASE Change(r)
  <2>1. Notify(Notified(r, Due(r))) /\ delayed' = delayed /\ polled' = polled
    BY <1>4 DEF Change
  <2>2. /\ ListSound(observers', num_observers')
        /\ transactions' \subseteq Transaction /\ sent' \subseteq Notification
        /\ InFlight(transactions', sent')
        /\ \A o \in Range(observers') : \E i \in 1 .. Len(Due(r)) :
              /\ o.c = Due(r)[i].c /\ o.r = Due(r)[i].r
              /\ o.due => Due(r)[i].due /\ Due(r)[i].r # r
    BY <1>3, <2>1, NotifySound
  <2>3. ASSUME NEW o \in Range(observers')
        PROVE  \E x \in Range(observers) :
                 o.c = x.c /\ o.r = x.r /\ (o.due => x.due)
    <3>1. PICK i \in 1 .. Len(observers) :
              /\ o.c = observers[i].c /\ o.r = observers[i].r
              /\ o.due => Due(r)[i].due /\ Due(r)[i].r # r
      BY <1>3, <2>2 DEF SameKeys
    <3> QED
      BY <1>2, <1>3, <3>1 DEF SameKeys
  <2>4. Scalars'
    BY <1>4, <2>1, <2>2 DEF Scalars, Notify
  <2>5. ItemsFit(observers)'
    BY <2>1, <2>3 DEF ItemsFit, Notify
  <2> QED
    BY <2>2, <2>4, <2>5
<1>5. CASE ChangeDelayed(r)
  <2>1. Scalars' /\ ListSound(observers', num_observers')
    BY <1>3, <1>5 DEF ChangeDelayed, Scalars
  <2>2. ASSUME NEW o \in Range(observers')
        PROVE  \E x \in Range(observers) :
                 o.c = x.c /\ o.r = x.r /\ (o.due => x.due \/ x.r = r)
    <3>1. PICK i \in 1 .. Len(observers) : o = Due(r)[i]
      BY <1>3, <1>5, RangeIs DEF ChangeDelayed, SameKeys
    <3> QED
      BY <1>2, <1>3, <3>1 DEF SameKeys
  <2>3. ItemsFit(observers)'
    BY <1>5, <2>2 DEF ItemsFit, ChangeDelayed
  <2> QED
    BY <2>1, <2>3
<1>6. CASE DeleteResource(r)
  <2>1. Scalars'
    BY <1>6 DEF DeleteResource, Scalars
  <2>2. /\ ListSound(observers', num_observers')
        /\ \A o \in Range(observers') : o \in Range(observers) /\ o.r # r
    <3>1. CASE num_observers[r] > 0
      BY <1>6, <3>1, RemoveAllSound DEF DeleteResource
    <3>2. CASE ~ (num_observers[r] > 0)
      <4>1. observers' = observers /\ num_observers' = num_observers
        BY <1>6, <3>2 DEF DeleteResource
      <4>2. num_observers[r] = 0
        BY <3>2, NumbersAssumption DEF ListSound
      <4>3. Positions(observers, OfResource(r)) = {}
        <5>1. IsFiniteSet(Positions(observers, OfResource(r)))
          BY <1>2, PositionsAreFinite
        <5>2. Cardinality(Positions(observers, OfResource(r))) = 0
          BY <4>2 DEF ListSound
        <5> QED
          BY <5>1, <5>2, FS_EmptySet, Zenon
      <4>4. ASSUME NEW o \in Range(observers)
            PROVE  o.r # r
        <5>1. PICK i \in 1 .. Len(observers) : o = observers[i]
          BY <1>2, RangeIs
        <5>2. observers[i] \in Observer
          <6> HIDE DEF Observer
          <6> QED
            BY <1>2
        <5> HIDE DEF Observer
        <5> QED
          BY <4>3, <5>1, <5>2 DEF Positions, OfResource
      <4> QED
        BY <4>1, <4>4
    <3> QED
      BY <3>1, <3>2
  <2>3. ItemsFit(observers)'
    BY <1>6, <2>2 DEF ItemsFit, DeleteResource
  <2> QED
    BY <2>1, <2>2, <2>3
<1>7. CASE CreateResource(r)
  <2>1. Scalars'
    BY <1>7 DEF CreateResource, Scalars
  <2>2. num_observers' = num_observers
    <3>1. Positions(observers, OfResource(r)) = {}
      BY <1>2, <1>7 DEF Positions, OfResource, ItemsFit, CreateResource
    <3>2. num_observers[r] = 0 /\ num_observers \in [Resource -> 0 .. MaxObservers]
      BY <3>1, FS_EmptySet DEF ListSound
    <3> QED
      BY <1>7, <3>2 DEF CreateResource
  <2>3. ItemsFit(observers)'
    BY <1>7 DEF ItemsFit, CreateResource
  <2>4. observers' = observers
    BY <1>7 DEF CreateResource
  <2> QED
    BY <2>1, <2>2, <2>3, <2>4
<1> QED
  BY <1>1, <1>4, <1>5, <1>6, <1>7

LEMMA EndSessionSound ==
  ASSUME Scalars, ListSound(observers, num_observers), NEW c, EndSession(c)
  PROVE  /\ ListSound(observers', num_observers')
         /\ Range(observers') \subseteq Range(observers)
         /\ transactions' \subseteq transactions
  BY RemoveAllSound DEF EndSession, RemoveByClient

LEMMA TimersInv ==
  ASSUME Scalars, ListSound(observers, num_observers), ItemsFit(observers),
         Timers
  PROVE  Scalars' /\ ListSound(observers', num_observers')
         /\ ItemsFit(observers)'
<1>1. /\ observers \in Seq(Observer)
      /\ \A i \in 1 .. Len(observers) : observers[i] \in Range(observers)
  BY RangeIs DEF ListSound
<1>2. ASSUME NEW r \in Resource, NotifyDelayed(r) \/ Poll(r)
      PROVE  Scalars' /\ ListSound(observers', num_observers')
             /\ ItemsFit(observers)'
  <2>1. /\ Notify(Notified(r, observers))
        /\ delayed' = delayed \/ delayed' = delayed \ {r}
        /\ polled' \subseteq polled
    BY <1>2 DEF NotifyDelayed, Poll
  <2>2. /\ ListSound(observers', num_observers')
        /\ transactions' \subseteq Transaction /\ sent' \subseteq Notification
        /\ InFlight(transactions', sent')
        /\ \A o \in Range(observers') : \E i \in 1 .. Len(observers) :
              /\ o.c = observers[i].c /\ o.r = observers[i].r
              /\ o.due => observers[i].due /\ observers[i].r # r
    BY <2>1, NotifySound
  <2>3. Scalars'
    BY <2>1, <2>2 DEF Scalars, Notify
  <2>4. ItemsFit(observers)'
    <3>1. UNCHANGED <<resources, dos, denied>>
      BY <2>1 DEF Notify
    <3>2. ASSUME NEW o \in Range(observers')
          PROVE  \E x \in Range(observers) :
                   o.c = x.c /\ o.r = x.r /\ (o.due => x.due /\ x.r # r)
      BY <1>1, <2>2
    <3> QED
      BY <2>1, <3>1, <3>2 DEF ItemsFit
  <2> QED
    BY <2>2, <2>3, <2>4
<1>3. ASSUME NEW m \in Mid, Timeout(m)
      PROVE  Scalars' /\ ListSound(observers', num_observers')
             /\ ItemsFit(observers)'
  <2>1. PICK t \in transactions :
          /\ t.mid = m
          /\ IF t.counter + 1 < MaxRetransmit
               THEN /\ transactions' = (transactions \ {t})
                         \cup {[t EXCEPT !.counter = t.counter + 1]}
                    /\ sent' = IF Cardinality(sent) < MaxInFlight
                                    /\ t.c \notin gone
                                 THEN sent \cup {[c |-> t.c, mid |-> m]}
                                 ELSE sent
                    /\ UNCHANGED <<observers, num_observers>>
               ELSE GiveUp(t) /\ UNCHANGED sent
          /\ UNCHANGED <<resources, delayed, polled, gone, dos, denied>>
    BY <1>3 DEF Timeout
  <2>2. t \in Transaction /\ IsFiniteSet(transactions) /\ IsFiniteSet(sent)
        /\ Cardinality(transactions) <= MaxTransactions
        /\ Cardinality(sent) <= MaxInFlight
        /\ sent \subseteq Notification /\ transactions \subseteq Transaction
    BY DEF Scalars, InFlight
  <2>3. CASE t.counter + 1 < MaxRetransmit
    <3> DEFINE x == [t EXCEPT !.counter = t.counter + 1]
               rest == transactions \ {t}
    <3>1. x \in Transaction
      BY <2>2, <2>3, NumbersAssumption DEF Transaction
    <3>2. [c |-> t.c, mid |-> m] \in Notification
      BY <2>2 DEF Transaction, Notification
    <3>3. transactions' = rest \cup {x}
      BY <2>1, <2>3
    <3>4. IsFiniteSet(rest) /\ Cardinality(rest) < MaxTransactions
      <4>1. /\ IsFiniteSet(rest)
            /\ Cardinality(rest) = Cardinality(transactions) - 1
        BY <2>2, FS_RemoveElement
      <4>2. Cardinality(transactions) \in Nat
        BY <2>2, FS_CardinalityType
      <4> HIDE DEF rest
      <4> QED
        BY <2>2, <4>1, <4>2, NumbersAssumption
    <3>5. /\ IsFiniteSet(transactions')
          /\ Cardinality(transactions') <= MaxTransactions
      <4> HIDE DEF rest, x
      <4> QED
        BY <3>3, <3>4, OneMore, NumbersAssumption
    <3>6. /\ IsFiniteSet(sent') /\ Cardinality(sent') <= MaxInFlight
          /\ sent' \subseteq Notification
      <4>1. CASE Cardinality(sent) < MaxInFlight /\ t.c \notin gone
        <5> DEFINE y == [c |-> t.c, mid |-> m]
        <5>1. sent' = sent \cup {y} /\ y \in Notification
          BY <2>1, <2>3, <3>2, <4>1
        <5> HIDE DEF y, Notification
        <5> QED
          BY <2>2, <4>1, <5>1, OneMore, NumbersAssumption
      <4>2. CASE ~ (Cardinality(sent) < MaxInFlight /\ t.c \notin gone)
        BY <2>1, <2>2, <2>3, <4>2
      <4> QED
        BY <4>1, <4>2
    <3>7. transactions' \subseteq Transaction
      <4> HIDE DEF x, Transaction
      <4> QED
        BY <2>2, <3>1, <3>3
    <3>8. Scalars'
      <4> HIDE DEF Transaction, Notification, rest, x
      <4> QED
        BY <2>1, <3>5, <3>6, <3>7 DEF Scalars, InFlight
    <3>9. observers' = observers /\ num_observers' = num_observers
      BY <2>1, <2>3
    <3> QED
      BY <2>1, <3>8, <3>9 DEF ItemsFit
  <2>4. CASE ~ (t.counter + 1 < MaxRetransmit)
    <3>1. EndSession(t.c) /\ sent' = sent
      BY <2>1, <2>4 DEF GiveUp
    <3>2. /\ ListSound(observers', num_observers')
          /\ Range(observers') \subseteq Range(observers)
          /\ transactions' \subseteq transactions
      BY <3>1, EndSessionSound
    <3>3. InFlight(transactions', sent')
      BY <3>1, <3>2, FewerInFlight DEF Scalars
    <3>4. Scalars'
      <4> HIDE DEF Transaction, Notification
      <4> QED
        BY <2>1, <3>1, <3>2, <3>3 DEF Scalars
    <3>5. ItemsFit(observers)'
      BY <2>1, <3>2 DEF ItemsFit
    <3> QED
      BY <3>2, <3>4, <3>5
  <2> QED
    BY <2>3, <2>4
<1> QED
  BY <1>2, <1>3 DEF Timers

LEMMA NetworkInv ==
  ASSUME Scalars, ListSound(observers, num_observers), ItemsFit(observers),
         Network
  PROVE  Scalars' /\ ListSound(observers', num_observers')
         /\ ItemsFit(observers)'
<1>1. ASSUME NEW n \in sent, Reject(n)
      PROVE  Scalars' /\ ListSound(observers', num_observers')
             /\ ItemsFit(observers)'
  <2>1. PICK S : RemoveAll(S)
    BY <1>1 DEF Reject, RemoveMatch
  <2>2. /\ ListSound(observers', num_observers')
        /\ Range(observers') \subseteq Range(observers)
    BY <2>1, RemoveAllSound
  <2>3. transactions' \subseteq transactions /\ sent' \subseteq sent
    BY <1>1 DEF Reject, ClearTransaction
  <2>4. InFlight(transactions', sent')
    BY <2>3, FewerInFlight DEF Scalars
  <2>5. Scalars'
    <3> HIDE DEF Transaction, Notification
    <3> QED
      BY <1>1, <2>3, <2>4 DEF Scalars, Reject
  <2>6. ItemsFit(observers)'
    BY <1>1, <2>2 DEF ItemsFit, Reject
  <2> QED
    BY <2>2, <2>5, <2>6
<1>2. ASSUME NEW n \in sent, NEW m \in {0, n.mid}, Acknowledge(n, m)
      PROVE  Scalars' /\ ListSound(observers', num_observers')
             /\ ItemsFit(observers)'
  <2>1. transactions' \subseteq transactions /\ sent' \subseteq sent
    BY <1>2 DEF Acknowledge, ClearTransaction
  <2>2. InFlight(transactions', sent')
    BY <2>1, FewerInFlight DEF Scalars
  <2>3. Scalars'
    <3> HIDE DEF Transaction, Notification
    <3> QED
      BY <1>2, <2>1, <2>2 DEF Scalars, Acknowledge
  <2> QED
    BY <1>2, <2>3 DEF ItemsFit, Acknowledge
<1>3. ASSUME NEW c \in Client, SessionCloses(c)
      PROVE  Scalars' /\ ListSound(observers', num_observers')
             /\ ItemsFit(observers)'
  <2>1. /\ ListSound(observers', num_observers')
        /\ Range(observers') \subseteq Range(observers)
        /\ transactions' \subseteq transactions /\ sent' = sent
    BY <1>3, EndSessionSound DEF SessionCloses
  <2>2. InFlight(transactions', sent')
    BY <2>1, FewerInFlight DEF Scalars
  <2>3. Scalars'
    <3> HIDE DEF Transaction, Notification
    <3> QED
      BY <1>3, <2>1, <2>2 DEF Scalars, SessionCloses
  <2>4. ItemsFit(observers)'
    BY <1>3, <2>1 DEF ItemsFit, SessionCloses
  <2> QED
    BY <2>1, <2>3, <2>4
<1>4. ASSUME NEW c \in Client, Vanish(c)
      PROVE  Scalars' /\ ListSound(observers', num_observers')
             /\ ItemsFit(observers)'
  <2>1. transactions' \subseteq transactions /\ sent' \subseteq sent
    BY <1>4 DEF Vanish
  <2>2. InFlight(transactions', sent')
    BY <2>1, FewerInFlight DEF Scalars
  <2>3. Scalars'
    <3> HIDE DEF Transaction, Notification
    <3> QED
      BY <1>4, <2>1, <2>2, SetsAssumption DEF Scalars, Vanish
  <2> QED
    BY <1>4, <2>3 DEF ItemsFit, Vanish
<1> QED
  BY <1>1, <1>2, <1>3, <1>4 DEF Network

LEMMA ProvisioningInv ==
  ASSUME Scalars, ListSound(observers, num_observers), ItemsFit(observers),
         Provisioning
  PROVE  Scalars' /\ ListSound(observers', num_observers')
         /\ ItemsFit(observers)'
<1>1. CASE EnterRFPRO
  BY <1>1 DEF EnterRFPRO, Scalars, ItemsFit
<1>2. CASE EnterRFNOP
  <2>1. /\ ListSound(observers', num_observers')
        /\ Range(observers') = Range(observers) \
             {o \in Range(observers) : <<o.c, o.r>> \in denied}
    BY <1>2, RemoveAllSound DEF EnterRFNOP
  <2>2. Scalars'
    BY <1>2 DEF EnterRFNOP, Scalars
  <2>3. ItemsFit(observers)'
    BY <1>2, <2>1 DEF EnterRFNOP, ItemsFit
  <2> QED
    BY <2>1, <2>2, <2>3
<1>3. CASE Reset
  <2>1. ListSound(observers', num_observers') /\ Range(observers') = {}
    BY <1>3, RemoveAllSound DEF Reset
  <2>2. Scalars'
    BY <1>3 DEF Reset, Scalars
  <2> QED
    BY <2>1, <2>2 DEF ItemsFit
<1>4. ASSUME NEW p \in Guarded, ProvisionAcl(p)
      PROVE  Scalars' /\ ListSound(observers', num_observers')
             /\ ItemsFit(observers)'
  BY <1>4 DEF ProvisionAcl, Scalars, ItemsFit
<1> QED
  BY <1>1, <1>2, <1>3, <1>4 DEF Provisioning

LEMMA NextInv == IInv /\ [Next]_vars => IInv'
<1> SUFFICES ASSUME IInv, [Next]_vars
             PROVE  IInv'
  OBVIOUS
<1>1. Scalars /\ ListSound(observers, num_observers) /\ ItemsFit(observers)
  BY InvIs
<1>2. Scalars' /\ ListSound(observers', num_observers') /\ ItemsFit(observers)'
  <2>1. CASE Requests
    BY <1>1, <2>1, RequestsInv
  <2>2. CASE Application
    BY <1>1, <2>2, ApplicationInv
  <2>3. CASE Timers
    BY <1>1, <2>3, TimersInv
  <2>4. CASE Network
    BY <1>1, <2>4, NetworkInv
  <2>5. CASE Provisioning
    BY <1>1, <2>5, ProvisioningInv
  <2>6. CASE UNCHANGED vars
    BY <1>1, <2>6 DEF vars, Scalars, ItemsFit
  <2> QED
    BY <2>1, <2>2, <2>3, <2>4, <2>5, <2>6 DEF Next
<1>3. (Scalars /\ ListSound(observers, num_observers) /\ ItemsFit(observers))'
  BY <1>2
<1>4. (Scalars /\ ListSound(observers, num_observers) /\ ItemsFit(observers))'
        => IInv'
  BY InvIs, PTL
<1> QED
  BY <1>3, <1>4

LEMMA Invariance == Spec => []IInv
  BY InitInv, NextInv, PTL DEF Spec

-----------------------------------------------------------------------------
(* The theorems.                                                           *)

\* However registrations, cancellations, resets, timeouts, ends of sessions,
\* deletions and changes of the provisioning state follow each other, the
\* counter of every resource is the number of its observers in the list, no
\* observer and no delayed notification refers to a resource that was freed,
\* no client observes a resource twice, and the pools keep their bounds.
THEOREM ObserversStaySound == Spec => []ObserversAreSound
<1>1. IInv => ObserversAreSound
  BY DEF IInv
<1> QED
  BY <1>1, Invariance, PTL

\* In normal operation no client observes what it may not read, whatever the
\* access control list has become since it registered
\* (coap_remove_observers_on_dos_change).
THEOREM NobodyReadsWhatIsDenied == Spec => []AccessIsRevoked
<1>1. IInv => AccessIsRevoked
  BY DEF IInv
<1> QED
  BY <1>1, Invariance, PTL

\* No change of a resource passes one of its observers by: the walk of
\* coap_iterate_observers leaves none behind, for a list of any length, but
\* when it is refused a transaction.
THEOREM NoObserverIsPassedBy == Spec => []EveryObserverIsNotified
<1>1. IInv => EveryObserverIsNotified
  BY DEF IInv
<1> QED
  BY <1>1, Invariance, PTL
=============================================================================
