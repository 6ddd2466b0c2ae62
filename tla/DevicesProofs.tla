---------------------------- MODULE DevicesProofs ----------------------------
(***************************************************************************)
(* Proofs about Devices, for every geometry of the disk, any number of     *)
(* clients and any times: the list of pending interrupts stays in order    *)
(* and nothing in it is late (NothingOverdue), SynchDisk's requests and    *)
(* the disk's answers come in pairs (OneRequestOneAnswer), ComputeLatency  *)
(* is right about the head (HeadPassesSector), and the console echoes what *)
(* is typed (EchoInOrder).                                                 *)
(*                                                                         *)
(* In this order: division with remainder; List::SortedInsert, position by *)
(* position, and what it keeps; the head of the disk; the inductive        *)
(* invariant DInv, one lemma for each action; the theorems.                *)
(***************************************************************************)
EXTENDS Devices, FiniteSetTheorems, TLAPS

-----------------------------------------------------------------------------
(* Numbers.                                                                *)

(* The constants are positive.                                             *)
LEMMA Constants ==
    /\ SystemTick \in Nat \ {0} /\ TimerTicks \in Nat \ {0} /\ ConsoleTime \in Nat \ {0}
    /\ RotationTime \in Nat \ {0} /\ SeekTime \in Nat \ {0}
    /\ SectorsPerTrack \in Nat \ {0} /\ NumTracks \in Nat \ {0}
BY DevicesAssumption

(* The product of two positive numbers is positive.                        *)
LEMMA Product ==
    ASSUME NEW a \in Nat \ {0}, NEW b \in Nat \ {0}
    PROVE  a * b \in Nat \ {0}
OBVIOUS

(* The product of two natural numbers is one.                              *)
LEMMA ProductNat ==
    ASSUME NEW a \in Nat, NEW b \in Nat
    PROVE  a * b \in Nat
OBVIOUS

(* A turn of the disk takes time.                                          *)
LEMMA TurnType == Turn \in Nat \ {0}
BY Constants, Product DEF Turn

(* Division with remainder.                                                *)
LEMMA Division ==
    ASSUME NEW a \in Int, NEW b \in Nat \ {0}
    PROVE  /\ a \div b \in Int
           /\ a % b \in 0..(b - 1)
           /\ a = b * (a \div b) + (a % b)
<1>1. a \div b \in Int /\ a % b \in 0..(b - 1)
    OBVIOUS
<1>2. a % b = a - b * (a \div b)
    BY SMTT(20)
<1>3. PICK q \in Int : q = a \div b
    BY <1>1
<1>4. a % b = a - b * q
    BY <1>2, <1>3
<1>5. b * q \in Int
    OBVIOUS
<1>6. a = b * q + (a % b)
    BY <1>1, <1>4, <1>5
<1> QED
    BY <1>1, <1>3, <1>6

(* There is one quotient and one remainder.                                *)
LEMMA DivisionUnique ==
    ASSUME NEW a \in Int, NEW b \in Nat \ {0}, NEW q \in Int, NEW c \in 0..(b - 1),
           a = b * q + c
    PROVE  q = a \div b /\ c = a % b
BY SMTT(20)

(* A larger quotient makes a larger number.                                *)
LEMMA MultiplesApart ==
    ASSUME NEW b \in Nat \ {0}, NEW p \in Int, NEW q \in Int, b * p < b * q
    PROVE  p < q
<1>1. SUFFICES ASSUME q <= p PROVE FALSE
    OBVIOUS
<1>2. PICK k \in Nat : p = q + k
    BY <1>1
<1>3. b * p = b * q + b * k
    BY <1>2
<1>4. b * k \in Nat
    BY ProductNat
<1>5. b * q \in Int /\ b * p \in Int
    OBVIOUS
<1> QED
    BY <1>3, <1>4, <1>5

(* What is added to a multiple of b is all of the remainder.               *)
LEMMA AddMultiple ==
    ASSUME NEW a \in Int, NEW b \in Nat \ {0}, NEW k \in Int
    PROVE  (a + b * k) % b = a % b
<1>1. PICK q \in Int, c \in 0..(b - 1) : a = b * q + c /\ c = a % b
    BY Division, Zenon
<1>2. b * (q + k) = b * q + b * k
    OBVIOUS
<1>3. b * q \in Int /\ b * k \in Int /\ q + k \in Int
    OBVIOUS
<1>4. a + b * k = b * (q + k) + c
    BY <1>1, <1>2, <1>3
<1>5. PICK n \in Int : n = a + b * k
    BY <1>3
<1>6. PICK m \in Int : m = q + k
    OBVIOUS
<1>7. n = b * m + c
    BY <1>4, <1>5, <1>6
<1>8. c = n % b
    BY <1>7, DivisionUnique, Zenon
<1>9. c = (a + b * k) % b
    BY <1>5, <1>8, Zenon
<1> QED
    BY <1>1, <1>9, Zenon

(* A multiple of b is b times its quotient.                                *)
LEMMA Multiple ==
    ASSUME NEW a \in Int, NEW b \in Nat \ {0}, a % b = 0
    PROVE  \E q \in Int : a = b * q /\ q = a \div b
<1>1. a \div b \in Int /\ a = b * (a \div b) + (a % b)
    BY Division
<1>2. PICK q \in Int : q = a \div b
    BY <1>1
<1>3. a = b * q + 0
    BY <1>1, <1>2
<1>4. a = b * q
    BY <1>3
<1> QED
    BY <1>2, <1>4

(* b times a number is a multiple of b.                                    *)
LEMMA IsMultiple ==
    ASSUME NEW b \in Nat \ {0}, NEW q \in Int
    PROVE  b * q \in Int /\ (b * q) % b = 0 /\ (b * q) \div b = q
<1>1. b * q \in Int /\ 0 \in 0..(b - 1) /\ b * q = b * q + 0
    OBVIOUS
<1> QED
    BY <1>1, DivisionUnique

(* The smaller of two numbers.                                             *)
LEMMA MinOfTwo ==
    ASSUME NEW a \in Int, NEW b \in Int
    PROVE  Min({a, b}) = IF a <= b THEN a ELSE b
BY DEF Min

(* The larger of two numbers.                                              *)
LEMMA MaxOfTwo ==
    ASSUME NEW a \in Int, NEW b \in Int
    PROVE  Max({a, b}) = IF a >= b THEN a ELSE b
BY DEF Max

(* A set of natural numbers that is not empty has a smallest one.          *)
LEMMA MinOf ==
    ASSUME NEW S \in SUBSET Nat, S # {}
    PROVE  Min(S) \in S /\ \A y \in S : Min(S) <= y
<1>1. \E x \in S : \A y \in S : <<y, x>> \notin OpToRel(<, Nat)
    BY NatLessThanWellFounded, WFMin, Zenon
<1>2. PICK x \in S : \A y \in S : <<y, x>> \notin OpToRel(<, Nat)
    BY <1>1, Zenon
<1>3. \A y \in S : ~(y < x)
    BY <1>2, Zenon DEF OpToRel
<1>4. \A y \in S : x =< y
    BY <1>3
<1> QED
    BY <1>4, Zenon DEF Min

-----------------------------------------------------------------------------
(* The list of pending interrupts.                                         *)

Types == {"Disk", "Timer", "ConsoleRead", "ConsoleWrite"}
Item == [type : Types, in : Int]

Sorted(list) == \A i, j \in DOMAIN list : i < j => list[i].in <= list[j].in

Has(list, type) == \E i \in DOMAIN list : list[i].type = type

Once(list, type) ==
    \A i, j \in DOMAIN list : list[i].type = type /\ list[j].type = type => i = j

(* `new' is `list' with `item' at position k.                              *)
Inserted(list, item, k, new) ==
    /\ new \in Seq(Item) /\ Len(new) = Len(list) + 1
    /\ \A i \in 1..(k - 1) : new[i] = list[i]
    /\ new[k] = item
    /\ \A i \in (k + 1)..Len(new) : new[i] = list[i - 1]

(* The same, seen from each side.                                          *)
Shifted(list, item, k, new) ==
    /\ k \in DOMAIN new /\ DOMAIN list = 1..Len(list)
    /\ \A i \in DOMAIN new : \/ i < k /\ i \in DOMAIN list /\ new[i] = list[i]
                             \/ i = k /\ new[i] = item
                             \/ i > k /\ i - 1 \in DOMAIN list /\ new[i] = list[i - 1]
    /\ \A i \in DOMAIN list : \/ i < k /\ i \in DOMAIN new /\ new[i] = list[i]
                              \/ i >= k /\ i + 1 \in DOMAIN new /\ new[i + 1] = list[i]

(* Where List::SortedInsert puts an item: behind those that are not later, *)
(* and before the later ones.                                              *)
InOrder(list, item, k) ==
    /\ k \in 1..(Len(list) + 1)
    /\ \A i \in 1..(k - 1) : list[i].in <= item.in
    /\ \A i \in k..Len(list) : item.in < list[i].in

(* An interrupt and the list of them.                                      *)
LEMMA ItemTypes ==
    ASSUME NEW list \in Seq(Item)
    PROVE  /\ Len(list) \in Nat /\ DOMAIN list = 1..Len(list)
           /\ \A i \in DOMAIN list : list[i] \in Item /\ list[i].in \in Int
           /\ \A item \in Item : item.in \in Int
<1>1. Len(list) \in Nat /\ DOMAIN list = 1..Len(list) /\ \A i \in DOMAIN list : list[i] \in Item
    OBVIOUS
<1>2. \A item \in Item : item.in \in Int
    BY DEF Item
<1> QED
    BY <1>1, <1>2, Zenon

(* Two sequences in a row.                                                 *)
LEMMA InARow ==
    ASSUME NEW S, NEW a \in Seq(S), NEW b \in Seq(S)
    PROVE  /\ a \o b \in Seq(S)
           /\ Len(a \o b) = Len(a) + Len(b)
           /\ \A i \in 1..Len(a) : (a \o b)[i] = a[i]
           /\ \A i \in (Len(a) + 1)..(Len(a) + Len(b)) : (a \o b)[i] = b[i - Len(a)]
OBVIOUS

(* SortedInsert, position by position.                                     *)
LEMMA SortedInsertAt ==
    ASSUME NEW list \in Seq(Item), NEW item \in Item, Sorted(list)
    PROVE  \E k \in 1..(Len(list) + 1) :
              InOrder(list, item, k) /\ Inserted(list, item, k, SortedInsert(list, item))
<1> DEFINE later == {i \in DOMAIN list : item.in < list[i].in}
           Put(k) == SubSeq(list, 1, k - 1) \o <<item>> \o SubSeq(list, k, Len(list))
<1>0. /\ Len(list) \in Nat /\ DOMAIN list = 1..Len(list)
      /\ \A i \in 1..Len(list) : list[i].in \in Int
      /\ item.in \in Int
    BY ItemTypes, Zenon
<1>1. CASE later = {}
    <2>1. SortedInsert(list, item) = Append(list, item)
        BY <1>1, Zenon DEF SortedInsert
    <2>2. InOrder(list, item, Len(list) + 1)
        BY <1>0, <1>1 DEF InOrder
    <2>3. Inserted(list, item, Len(list) + 1, Append(list, item))
        BY <1>0 DEF Inserted
    <2> QED
        BY <1>0, <2>1, <2>2, <2>3
<1>2. CASE later # {}
    <2>1. later \in SUBSET Nat
        BY <1>0
    <2>2. PICK k : k = Min(later)
        BY Zenon
    <2>3. k \in later /\ \A i \in later : k <= i
        BY <1>2, <2>1, <2>2, MinOf, Zenon
    <2>4. k \in 1..Len(list) /\ item.in < list[k].in
        BY <1>0, <2>3
    <2>5. SortedInsert(list, item) = Put(k)
        BY <1>2, <2>2, Zenon DEF SortedInsert
    <2>6. InOrder(list, item, k)
        <3>1. ASSUME NEW i \in 1..(k - 1) PROVE list[i].in <= item.in
            BY <1>0, <2>3, <2>4
        <3>2. ASSUME NEW i \in k..Len(list) PROVE item.in < list[i].in
            BY <1>0, <2>4 DEF Sorted
        <3> QED
            BY <1>0, <2>4, <3>1, <3>2 DEF InOrder
    <2>7. Inserted(list, item, k, Put(k))
        <3>1. PICK a : a = SubSeq(list, 1, k - 1)
            BY Zenon
        <3>2. /\ a \in Seq(Item) /\ Len(a) = k - 1
              /\ \A i \in 1..(k - 1) : a[i] = list[i]
            BY <1>0, <2>4, <3>1
        <3>3. PICK b : b = SubSeq(list, k, Len(list))
            BY Zenon
        <3>4. /\ b \in Seq(Item) /\ Len(b) = Len(list) - k + 1
              /\ \A i \in 1..(Len(list) - k + 1) : b[i] = list[k + i - 1]
            BY <1>0, <2>4, <3>3
        <3>5. PICK c : c = a \o <<item>>
            BY Zenon
        <3>6. /\ c \in Seq(Item) /\ Len(c) = k /\ c[k] = item
              /\ \A i \in 1..(k - 1) : c[i] = list[i]
            BY <2>4, <3>2, <3>5
        <3>7. Put(k) = c \o b
            BY <3>1, <3>3, <3>5
        <3>8. /\ c \o b \in Seq(Item) /\ Len(c \o b) = Len(c) + Len(b)
              /\ \A i \in 1..Len(c) : (c \o b)[i] = c[i]
              /\ \A i \in (Len(c) + 1)..(Len(c) + Len(b)) : (c \o b)[i] = b[i - Len(c)]
            BY <3>4, <3>6, InARow, ZenonT(60)
        <3>9. PICK d : d = c \o b
            BY Zenon
        <3>10. /\ d \in Seq(Item) /\ Len(d) = Len(list) + 1
               /\ \A i \in 1..k : d[i] = c[i]
               /\ \A i \in (k + 1)..(Len(list) + 1) : d[i] = b[i - k]
            BY <1>0, <2>4, <3>4, <3>6, <3>8, <3>9
        <3>11. ASSUME NEW i \in (k + 1)..(Len(list) + 1)
               PROVE  d[i] = list[i - 1]
            <4>1. i - k \in 1..(Len(list) - k + 1) /\ k + (i - k) - 1 = i - 1
                BY <1>0, <2>4
            <4>2. b[i - k] = list[k + (i - k) - 1]
                BY <3>4, <4>1
            <4> QED
                BY <3>10, <4>1, <4>2
        <3>12. Inserted(list, item, k, d)
            BY <1>0, <2>4, <3>6, <3>10, <3>11 DEF Inserted
        <3> QED
            BY <3>7, <3>9, <3>12, Zenon
    <2> QED
        BY <1>0, <2>4, <2>5, <2>6, <2>7
<1> QED
    BY <1>1, <1>2, Zenon

(* What is inserted is there, and nothing else is new, or lost.            *)
LEMMA InsertedItems ==
    ASSUME NEW list \in Seq(Item), NEW item \in Item, NEW k \in 1..(Len(list) + 1), NEW new,
           Inserted(list, item, k, new)
    PROVE  Shifted(list, item, k, new)
<1>0. Len(list) \in Nat /\ DOMAIN list = 1..Len(list) /\ DOMAIN new = 1..(Len(list) + 1)
    BY DEF Inserted
<1>1. ASSUME NEW i \in DOMAIN new
      PROVE  \/ i < k /\ i \in DOMAIN list /\ new[i] = list[i]
             \/ i = k /\ new[i] = item
             \/ i > k /\ i - 1 \in DOMAIN list /\ new[i] = list[i - 1]
    BY <1>0 DEF Inserted
<1>2. ASSUME NEW i \in DOMAIN list
      PROVE  \/ i < k /\ i \in DOMAIN new /\ new[i] = list[i]
             \/ i >= k /\ i + 1 \in DOMAIN new /\ new[i + 1] = list[i]
    <2>1. CASE i < k
        BY <1>0, <2>1 DEF Inserted
    <2>2. CASE i >= k
        <3>1. i + 1 \in (k + 1)..Len(new)
            BY <1>0, <2>2 DEF Inserted
        <3>2. new[i + 1] = list[(i + 1) - 1]
            BY <3>1 DEF Inserted
        <3> QED
            BY <1>0, <2>2, <3>2
    <2> QED
        BY <1>0, <2>1, <2>2
<1>3. k \in DOMAIN new
    BY <1>0
<1> QED
    BY <1>0, <1>1, <1>2, <1>3, Zenon DEF Shifted

(* `new' holds what `list' holds and the item, and its types are kept track*)
(* of.                                                                     *)
With(list, item, new) ==
    /\ new \in Seq(Item) /\ Sorted(new)
    /\ \A i \in DOMAIN new : new[i] = item \/ \E j \in DOMAIN list : new[i] = list[j]
    /\ \A type : Has(new, type) <=> Has(list, type) \/ item.type = type
    /\ \A type : Once(list, type) /\ (item.type # type \/ ~Has(list, type)) => Once(new, type)

(* SortedInsert keeps the list in order and adds the item to it.           *)
LEMMA InsertWith ==
    ASSUME NEW list \in Seq(Item), NEW item \in Item, Sorted(list)
    PROVE  With(list, item, SortedInsert(list, item))
<1>1. PICK new : new = SortedInsert(list, item)
    OBVIOUS
<1>2. PICK k \in 1..(Len(list) + 1) : InOrder(list, item, k) /\ Inserted(list, item, k, new)
    BY <1>1, SortedInsertAt, Zenon
<1>3. /\ k \in DOMAIN new /\ DOMAIN list = 1..Len(list)
      /\ \A i \in DOMAIN new : \/ i < k /\ i \in DOMAIN list /\ new[i] = list[i]
                               \/ i = k /\ new[i] = item
                               \/ i > k /\ i - 1 \in DOMAIN list /\ new[i] = list[i - 1]
      /\ \A i \in DOMAIN list : \/ i < k /\ i \in DOMAIN new /\ new[i] = list[i]
                                \/ i >= k /\ i + 1 \in DOMAIN new /\ new[i + 1] = list[i]
    <2>1. Shifted(list, item, k, new)
        BY <1>2, InsertedItems, Zenon
    <2> QED
        BY <2>1, Zenon DEF Shifted
<1>4. new \in Seq(Item) /\ Len(new) = Len(list) + 1 /\ DOMAIN new = 1..(Len(list) + 1)
    BY <1>2 DEF Inserted
<1>5. /\ Len(list) \in Nat
      /\ \A i \in DOMAIN list : list[i] \in Item /\ list[i].in \in Int
      /\ item.in \in Int
    BY ItemTypes
<1>6. /\ \A i \in 1..(k - 1) : list[i].in <= item.in
      /\ \A i \in k..Len(list) : item.in < list[i].in
    BY <1>2, Zenon DEF InOrder
<1>7. Sorted(new)
    <2>1. SUFFICES ASSUME NEW i \in DOMAIN new, NEW j \in DOMAIN new, i < j
                   PROVE  new[i].in <= new[j].in
        BY Zenon DEF Sorted
    <2>2. \A a, b \in DOMAIN list : a < b => list[a].in <= list[b].in
        BY Zenon DEF Sorted
    <2>3. CASE i < k /\ j < k
        BY <1>3, <1>4, <2>1, <2>2, <2>3
    <2>4. CASE i < k /\ j = k
        BY <1>3, <1>4, <1>6, <2>1, <2>4
    <2>5. CASE i < k /\ j > k
        <3>1. new[i] = list[i] /\ new[j] = list[j - 1] /\ i \in DOMAIN list /\ j - 1 \in DOMAIN list
            BY <1>3, <1>4, <2>5
        <3>2. i < j - 1
            BY <1>4, <2>5
        <3> QED
            BY <2>2, <3>1, <3>2
    <2>6. CASE i = k /\ j > k
        <3>1. new[i] = item /\ new[j] = list[j - 1] /\ j - 1 \in DOMAIN list
            BY <1>3, <1>4, <2>6
        <3>2. j - 1 \in k..Len(list)
            BY <1>4, <1>5, <2>6
        <3>3. item.in < list[j - 1].in
            BY <1>6, <3>2
        <3> QED
            BY <1>5, <3>1, <3>3
    <2>7. CASE i > k /\ j > k
        <3>1. new[i] = list[i - 1] /\ new[j] = list[j - 1]
              /\ i - 1 \in DOMAIN list /\ j - 1 \in DOMAIN list
            BY <1>3, <1>4, <2>7
        <3>2. i - 1 < j - 1
            BY <1>4, <2>1
        <3> QED
            BY <2>2, <3>1, <3>2
    <2> QED
        BY <1>4, <2>1, <2>3, <2>4, <2>5, <2>6, <2>7
<1>8. \A i \in DOMAIN new : new[i] = item \/ \E j \in DOMAIN list : new[i] = list[j]
    BY <1>3, Zenon
<1>9. ASSUME NEW type PROVE Has(new, type) <=> Has(list, type) \/ item.type = type
    <2>1. ASSUME Has(new, type) PROVE Has(list, type) \/ item.type = type
        BY <1>8, <2>1, Zenon DEF Has
    <2>2. ASSUME Has(list, type) PROVE Has(new, type)
        BY <1>3, <2>2, Zenon DEF Has
    <2>3. ASSUME item.type = type PROVE Has(new, type)
        <3>1. new[k] = item
            BY <1>2, Zenon DEF Inserted
        <3> QED
            BY <1>3, <2>3, <3>1, Zenon DEF Has
    <2> QED
        BY <2>1, <2>2, <2>3, Zenon
<1>10. ASSUME NEW type, Once(list, type), item.type # type \/ ~Has(list, type)
       PROVE  Once(new, type)
    <2>1. SUFFICES ASSUME NEW i \in DOMAIN new, NEW j \in DOMAIN new,
                          new[i].type = type, new[j].type = type
                   PROVE  i = j
        BY Zenon DEF Once
    <2>2. \A a, b \in DOMAIN list : list[a].type = type /\ list[b].type = type => a = b
        BY <1>10, Zenon DEF Once
    <2>3. CASE item.type = type
        <3>1. \A a \in DOMAIN list : list[a].type # type
            BY <1>10, <2>3, Zenon DEF Has
        <3>2. i = k /\ j = k
            BY <1>3, <2>1, <3>1, ZenonT(60)
        <3> QED
            BY <3>2, Zenon
    <2>4. CASE item.type # type
        <3>1. \/ i < k /\ i \in DOMAIN list /\ new[i] = list[i]
              \/ i > k /\ i - 1 \in DOMAIN list /\ new[i] = list[i - 1]
            BY <1>3, <2>1, <2>4, Zenon
        <3>2. \/ j < k /\ j \in DOMAIN list /\ new[j] = list[j]
              \/ j > k /\ j - 1 \in DOMAIN list /\ new[j] = list[j - 1]
            BY <1>3, <2>1, <2>4, Zenon
        <3>3. i \in Nat /\ j \in Nat /\ k \in Nat
            BY <1>4, <1>5
        <3>4. CASE i < k /\ j < k
            <4>1. i \in DOMAIN list /\ j \in DOMAIN list /\ list[i].type = type /\ list[j].type = type
                BY <2>1, <3>1, <3>2, <3>3, <3>4
            <4> QED
                BY <2>2, <4>1, Zenon
        <3>5. CASE i > k /\ j > k
            <4>1. i - 1 \in DOMAIN list /\ j - 1 \in DOMAIN list
                  /\ list[i - 1].type = type /\ list[j - 1].type = type
                BY <2>1, <3>1, <3>2, <3>3, <3>5
            <4>2. i - 1 = j - 1
                BY <2>2, <4>1, Zenon
            <4> QED
                BY <3>3, <4>2
        <3>6. CASE i < k /\ j > k
            <4>1. i \in DOMAIN list /\ j - 1 \in DOMAIN list
                  /\ list[i].type = type /\ list[j - 1].type = type
                BY <2>1, <3>1, <3>2, <3>3, <3>6
            <4>2. i = j - 1
                BY <2>2, <4>1, Zenon
            <4> QED
                BY <3>3, <3>6, <4>2
        <3>7. CASE i > k /\ j < k
            <4>1. i - 1 \in DOMAIN list /\ j \in DOMAIN list
                  /\ list[i - 1].type = type /\ list[j].type = type
                BY <2>1, <3>1, <3>2, <3>3, <3>7
            <4>2. i - 1 = j
                BY <2>2, <4>1, Zenon
            <4> QED
                BY <3>3, <3>7, <4>2
        <3> QED
            BY <3>1, <3>2, <3>4, <3>5, <3>6, <3>7, Zenon
    <2> QED
        BY <2>3, <2>4, Zenon
<1>11. With(list, item, new)
    BY <1>4, <1>7, <1>8, <1>9, <1>10, Zenon DEF With
<1> QED
    BY <1>1, <1>11, Zenon

(* A list is its first interrupt with the rest.                            *)
LEMMA HeadAndRest ==
    ASSUME NEW list \in Seq(Item), list # <<>>, Sorted(list)
    PROVE  /\ Head(list) = list[1] /\ Head(list) \in Item /\ 1 \in DOMAIN list
           /\ Tail(list) \in Seq(Item) /\ Sorted(Tail(list))
           /\ \A i \in DOMAIN Tail(list) : i + 1 \in DOMAIN list /\ Tail(list)[i] = list[i + 1]
           /\ \A i \in DOMAIN list : i = 1 \/ (i - 1 \in DOMAIN Tail(list) /\ list[i] = Tail(list)[i - 1])
           /\ \A i \in DOMAIN list : Head(list).in <= list[i].in
<1>1. PICK rest : rest = Tail(list)
    BY Zenon
<1>2. /\ Len(list) \in Nat \ {0} /\ DOMAIN list = 1..Len(list)
      /\ Head(list) = list[1] /\ Head(list) \in Item
    OBVIOUS
<1>3. /\ rest \in Seq(Item) /\ Len(rest) = Len(list) - 1
      /\ DOMAIN rest = 1..(Len(list) - 1)
      /\ \A i \in 1..(Len(list) - 1) : rest[i] = list[i + 1]
    BY <1>1
<1>4. \A i \in DOMAIN rest : i + 1 \in DOMAIN list /\ rest[i] = list[i + 1]
    BY <1>2, <1>3
<1>5. ASSUME NEW i \in DOMAIN list, i # 1
      PROVE  i - 1 \in DOMAIN rest /\ list[i] = rest[i - 1]
    <2>1. i - 1 \in 1..(Len(list) - 1)
        BY <1>2, <1>5
    <2>2. rest[i - 1] = list[(i - 1) + 1]
        BY <1>3, <2>1
    <2> QED
        BY <1>2, <1>3, <2>1, <2>2
<1>6. Sorted(rest)
    <2>1. SUFFICES ASSUME NEW i \in DOMAIN rest, NEW j \in DOMAIN rest, i < j
                   PROVE  rest[i].in <= rest[j].in
        BY Zenon DEF Sorted
    <2>2. i + 1 < j + 1 /\ i + 1 \in DOMAIN list /\ j + 1 \in DOMAIN list
        BY <1>3, <1>4, <2>1
    <2>3. list[i + 1].in <= list[j + 1].in
        BY <2>2, Zenon DEF Sorted
    <2> QED
        BY <1>4, <2>1, <2>3, Zenon
<1>7. ASSUME NEW i \in DOMAIN list PROVE Head(list).in <= list[i].in
    <2>1. CASE i = 1
        <3>1. list[1].in \in Int
            BY <1>2, ItemTypes, <2>1, Zenon
        <3> QED
            BY <1>2, <2>1, <3>1
    <2>2. CASE i # 1
        <3>1. 1 < i /\ 1 \in DOMAIN list
            BY <1>2, <2>2
        <3> QED
            BY <1>2, <3>1, Zenon DEF Sorted
    <2> QED
        BY <2>1, <2>2, Zenon
<1>8. 1 \in DOMAIN list
    BY <1>2
<1> QED
    BY <1>1, <1>2, <1>3, <1>4, <1>5, <1>6, <1>7, <1>8, Zenon

-----------------------------------------------------------------------------
(* The invariant of the list.                                              *)

(* The list is in order; there is an interrupt on its way from the disk    *)
(* exactly when it is active, and from the display when it is busy, and    *)
(* never two.                                                              *)
Listed(list, act, busy) ==
    /\ list \in Seq(Item) /\ Sorted(list)
    /\ Once(list, "Disk") /\ Once(list, "ConsoleWrite")
    /\ Has(list, "Disk") <=> act
    /\ Has(list, "ConsoleWrite") <=> busy

(* No device is late.                                                      *)
NotDue(list) == \A i \in DOMAIN list : list[i].in > 0 \/ list[i].type = "Timer"

(* An interrupt of the disk does not come before the track buffer of its   *)
(* seek is started.                                                        *)
AfterSeek(list, age) ==
    \A i \in DOMAIN list : list[i].type = "Disk" => age = Turn \/ age + list[i].in >= 0

(* PendingInterrupt makes an interrupt.                                    *)
LEMMA InterruptType ==
    ASSUME NEW type \in Types, NEW from \in Int
    PROVE  /\ PendingInterrupt(type, from) \in Item
           /\ PendingInterrupt(type, from).type = type
           /\ PendingInterrupt(type, from).in = from
BY DEF PendingInterrupt, Item, Types

(* Schedule, of an interrupt that is not on its way yet.                   *)
LEMMA ScheduleListed ==
    ASSUME NEW list, NEW act \in BOOLEAN, NEW busy \in BOOLEAN, Listed(list, act, busy),
           NEW type \in Types, NEW from \in Int,
           type = "Disk" => ~act, type = "ConsoleWrite" => ~busy
    PROVE  Listed(Schedule(list, type, from), act \/ type = "Disk", busy \/ type = "ConsoleWrite")
<1>1. PICK item : item = PendingInterrupt(type, from)
    BY Zenon
<1>2. item \in Item /\ item.type = type
    BY <1>1, InterruptType, Zenon
<1>3. PICK new : new = Schedule(list, type, from)
    BY Zenon
<1>4. With(list, item, new)
    BY <1>1, <1>2, <1>3, InsertWith, Zenon DEF Schedule, Listed
<1>5. Listed(new, act \/ type = "Disk", busy \/ type = "ConsoleWrite")
    BY <1>2, <1>4, Zenon DEF Listed, With
<1> QED
    BY <1>3, <1>5, Zenon

(* Schedule, of an interrupt in the future.                                *)
LEMMA ScheduleNotDue ==
    ASSUME NEW list, NEW act \in BOOLEAN, NEW busy \in BOOLEAN, Listed(list, act, busy),
           NEW type \in Types, NEW from \in Int, from > 0,
           NotDue(list)
    PROVE  NotDue(Schedule(list, type, from))
<1>1. PICK item : item = PendingInterrupt(type, from)
    BY Zenon
<1>2. item \in Item /\ item.type = type /\ item.in > 0
    BY <1>1, InterruptType, Zenon
<1>3. PICK new : new = Schedule(list, type, from)
    BY Zenon
<1>4. With(list, item, new)
    BY <1>1, <1>2, <1>3, InsertWith, Zenon DEF Schedule, Listed
<1>5. NotDue(new)
    BY <1>2, <1>4, Zenon DEF NotDue, With
<1> QED
    BY <1>3, <1>5, Zenon

(* Schedule, and the track buffer.                                         *)
LEMMA ScheduleAfterSeek ==
    ASSUME NEW list, NEW act \in BOOLEAN, NEW busy \in BOOLEAN, Listed(list, act, busy),
           NEW type \in Types, NEW from \in Int,
           NEW age \in Int, AfterSeek(list, age),
           type = "Disk" => age = Turn \/ age + from >= 0
    PROVE  AfterSeek(Schedule(list, type, from), age)
<1>1. PICK item : item = PendingInterrupt(type, from)
    BY Zenon
<1>2. item \in Item /\ item.type = type /\ item.in = from
    BY <1>1, InterruptType, Zenon
<1>3. PICK new : new = Schedule(list, type, from)
    BY Zenon
<1>4. With(list, item, new)
    BY <1>1, <1>2, <1>3, InsertWith, Zenon DEF Schedule, Listed
<1>5. AfterSeek(new, age)
    BY <1>2, <1>4, Zenon DEF AfterSeek, With
<1> QED
    BY <1>3, <1>5, Zenon

(* CheckIfDue removes the first interrupt.                                 *)
LEMMA RestListed ==
    ASSUME NEW list, NEW act \in BOOLEAN, NEW busy \in BOOLEAN, Listed(list, act, busy), list # <<>>
    PROVE  /\ Listed(Tail(list), act /\ Head(list).type # "Disk",
                     busy /\ Head(list).type # "ConsoleWrite")
           /\ Head(list).type = "Disk" => act
           /\ Head(list).type = "ConsoleWrite" => busy
<1>1. PICK rest : rest = Tail(list)
    BY Zenon
<1>2. PICK first : first = Head(list)
    BY Zenon
<1>3. list \in Seq(Item) /\ Sorted(list)
    BY Zenon DEF Listed
<1>4. /\ first = list[1] /\ first \in Item /\ 1 \in DOMAIN list
      /\ rest \in Seq(Item) /\ Sorted(rest)
      /\ \A i \in DOMAIN rest : i + 1 \in DOMAIN list /\ rest[i] = list[i + 1]
      /\ \A i \in DOMAIN list : i = 1 \/ (i - 1 \in DOMAIN rest /\ list[i] = rest[i - 1])
    BY <1>1, <1>2, <1>3, HeadAndRest, Zenon
<1>5. DOMAIN rest \subseteq Nat \ {0}
    BY <1>4, ItemTypes
<1>6. ASSUME NEW type, Once(list, type)
      PROVE  /\ Once(rest, type)
             /\ Has(rest, type) <=> Has(list, type) /\ first.type # type
             /\ first.type = type => Has(list, type)
    <2>1. Once(rest, type)
        <3>1. SUFFICES ASSUME NEW i \in DOMAIN rest, NEW j \in DOMAIN rest,
                              rest[i].type = type, rest[j].type = type
                       PROVE  i = j
            BY Zenon DEF Once
        <3>2. i + 1 = j + 1
            BY <1>4, <1>6, <3>1, Zenon DEF Once
        <3>3. i \in Nat /\ j \in Nat
            BY <1>5, Zenon
        <3> QED
            BY <3>2, <3>3
    <2>2. ASSUME Has(rest, type) PROVE Has(list, type) /\ first.type # type
        <3>1. PICK i \in DOMAIN rest : rest[i].type = type
            BY <2>2, Zenon DEF Has
        <3>2. i + 1 \in DOMAIN list /\ list[i + 1].type = type
            BY <1>4, <3>1, Zenon
        <3>3. i + 1 # 1
            BY <1>5
        <3>4. list[1].type # type
            BY <1>4, <1>6, <3>2, <3>3, Zenon DEF Once
        <3> QED
            BY <1>4, <3>2, <3>4, Zenon DEF Has
    <2>3. ASSUME Has(list, type), first.type # type PROVE Has(rest, type)
        BY <1>4, <2>3, Zenon DEF Has
    <2>4. ASSUME first.type = type PROVE Has(list, type)
        BY <1>4, <2>4, Zenon DEF Has
    <2> QED
        BY <2>1, <2>2, <2>3, <2>4, Zenon
<1>7. Once(list, "Disk") /\ Once(list, "ConsoleWrite")
    BY Zenon DEF Listed
<1>8. /\ Once(rest, "Disk") /\ Once(rest, "ConsoleWrite")
      /\ Has(rest, "Disk") <=> Has(list, "Disk") /\ first.type # "Disk"
      /\ Has(rest, "ConsoleWrite") <=> Has(list, "ConsoleWrite") /\ first.type # "ConsoleWrite"
      /\ first.type = "Disk" => Has(list, "Disk")
      /\ first.type = "ConsoleWrite" => Has(list, "ConsoleWrite")
    BY <1>6, <1>7, Zenon
<1>9. (Has(list, "Disk") <=> act) /\ (Has(list, "ConsoleWrite") <=> busy)
    BY Zenon DEF Listed
<1>10. Listed(rest, act /\ first.type # "Disk", busy /\ first.type # "ConsoleWrite")
    BY <1>4, <1>8, <1>9, Zenon DEF Listed
<1> QED
    BY <1>1, <1>2, <1>8, <1>9, <1>10, Zenon

(* Everything in `new' is in `list'.                                       *)
From(list, new) == \A i \in DOMAIN new : \E j \in DOMAIN list : new[i] = list[j]

(* CheckIfDue puts the first interrupt back, behind those due with it.     *)
LEMMA Reinsert ==
    ASSUME NEW list, NEW act \in BOOLEAN, NEW busy \in BOOLEAN, Listed(list, act, busy), list # <<>>,
           NEW new, new = SortedInsert(Tail(list), Head(list))
    PROVE  Listed(new, act, busy) /\ From(list, new)
<1>1. PICK rest : rest = Tail(list)
    BY Zenon
<1>2. PICK first : first = Head(list)
    BY Zenon
<1>3. /\ Listed(rest, act /\ first.type # "Disk", busy /\ first.type # "ConsoleWrite")
      /\ first.type = "Disk" => act
      /\ first.type = "ConsoleWrite" => busy
    BY <1>1, <1>2, RestListed, Zenon
<1>4. list \in Seq(Item) /\ Sorted(list)
    BY Zenon DEF Listed
<1>5. /\ first = list[1] /\ first \in Item /\ 1 \in DOMAIN list
      /\ rest \in Seq(Item) /\ Sorted(rest)
      /\ \A i \in DOMAIN rest : i + 1 \in DOMAIN list /\ rest[i] = list[i + 1]
    BY <1>1, <1>2, <1>4, HeadAndRest, Zenon
<1>6. With(rest, first, new)
    BY <1>1, <1>2, <1>5, InsertWith, Zenon
<1>7. From(list, new)
    <2>1. SUFFICES ASSUME NEW i \in DOMAIN new PROVE \E j \in DOMAIN list : new[i] = list[j]
        BY Zenon DEF From
    <2>2. new[i] = first \/ \E j \in DOMAIN rest : new[i] = rest[j]
        BY <1>6, Zenon DEF With
    <2>3. CASE new[i] = first
        BY <1>5, <2>3, Zenon
    <2>4. CASE \E j \in DOMAIN rest : new[i] = rest[j]
        <3>1. PICK j \in DOMAIN rest : new[i] = rest[j]
            BY <2>4, Zenon
        <3>2. j + 1 \in DOMAIN list /\ new[i] = list[j + 1]
            BY <1>5, <3>1, Zenon
        <3> QED
            BY <3>2, Zenon
    <2> QED
        BY <2>2, <2>3, <2>4, Zenon
<1>8. Listed(new, act, busy)
    <2>1. /\ Once(rest, "Disk") /\ Once(rest, "ConsoleWrite")
          /\ Has(rest, "Disk") <=> act /\ first.type # "Disk"
          /\ Has(rest, "ConsoleWrite") <=> busy /\ first.type # "ConsoleWrite"
        BY <1>3, Zenon DEF Listed
    <2>2. Once(new, "Disk") /\ Once(new, "ConsoleWrite")
        BY <1>6, <2>1, Zenon DEF With
    <2>3. Has(new, "Disk") <=> act
        BY <1>3, <1>6, <2>1, Zenon DEF With
    <2>4. Has(new, "ConsoleWrite") <=> busy
        BY <1>3, <1>6, <2>1, Zenon DEF With
    <2>5. new \in Seq(Item) /\ Sorted(new)
        BY <1>6, Zenon DEF With
    <2> QED
        BY <2>2, <2>3, <2>4, <2>5, Zenon DEF Listed
<1> QED
    BY <1>7, <1>8, Zenon

(* PutBack changes nothing that matters; and if the first interrupt is not *)
(* due, or is a timer's and alone, no device is late.                      *)
LEMMA PutBackListed ==
    ASSUME NEW act \in BOOLEAN, NEW busy \in BOOLEAN, Listed(pending, act, busy)
    PROVE  /\ Listed(PutBack, act, busy)
           /\ \A age : AfterSeek(pending, age) => AfterSeek(PutBack, age)
           /\ ~Due \/ OnlyTimer => NotDue(PutBack)
<1>0. pending \in Seq(Item) /\ Sorted(pending)
    BY Zenon DEF Listed
<1>1. CASE pending = <<>>
    <2>1. PutBack = pending
        BY <1>1, Zenon DEF PutBack
    <2>2. DOMAIN pending = {}
        BY <1>1
    <2> QED
        BY <2>1, <2>2, Zenon DEF NotDue
<1>2. CASE pending # <<>>
    <2>1. PICK new : new = SortedInsert(Tail(pending), Head(pending))
        BY Zenon
    <2>2. Listed(new, act, busy) /\ From(pending, new)
        BY <1>2, <2>1, Reinsert, Zenon
    <2>3. PutBack = new
        BY <1>2, <2>1, Zenon DEF PutBack
    <2>4. ASSUME NEW age, AfterSeek(pending, age) PROVE AfterSeek(new, age)
        BY <2>2, <2>4, Zenon DEF AfterSeek, From
    <2>5. ASSUME ~Due PROVE NotDue(new)
        <3>1. \A i \in DOMAIN pending : Head(pending).in <= pending[i].in
            BY <1>0, <1>2, HeadAndRest, Zenon
        <3>2. ~(Head(pending).in <= 0) /\ Head(pending) \in Item
            BY <1>0, <1>2, <2>5, HeadAndRest, Zenon DEF Due
        <3>3. Head(pending).in \in Int /\ \A i \in DOMAIN pending : pending[i].in \in Int
            BY <1>0, <3>2, ItemTypes
        <3>4. \A i \in DOMAIN pending : pending[i].in > 0
            BY <3>1, <3>2, <3>3
        <3> QED
            BY <2>2, <3>4, Zenon DEF NotDue, From
    <2>6. ASSUME OnlyTimer PROVE NotDue(new)
        <3>1. DOMAIN pending = 1..1
            BY <1>0, <2>6 DEF OnlyTimer
        <3>2. pending[1] = Head(pending)
            BY <1>0, <1>2, HeadAndRest, Zenon
        <3>3. \A i \in DOMAIN pending : pending[i].type = "Timer"
            BY <2>6, <3>1, <3>2 DEF OnlyTimer
        <3> QED
            BY <2>2, <3>3, Zenon DEF NotDue, From
    <2> QED
        BY <2>2, <2>3, <2>4, <2>5, <2>6, Zenon
<1> QED
    BY <1>1, <1>2, Zenon

(* The list after some time: each interrupt is nearer.                     *)
Nearer(list, ticks) == [i \in DOMAIN list |-> [list[i] EXCEPT !.in = @ - ticks]]

(* A function on 1..n is a sequence.                                       *)
LEMMA IsSequence ==
    ASSUME NEW S, NEW n \in Nat, NEW f \in [1..n -> S]
    PROVE  f \in Seq(S)
OBVIOUS

(* Time goes by.                                                           *)
LEMMA NearerListed ==
    ASSUME NEW list, NEW act \in BOOLEAN, NEW busy \in BOOLEAN, Listed(list, act, busy),
           NEW ticks \in Int
    PROVE  /\ Listed(Nearer(list, ticks), act, busy)
           /\ DOMAIN Nearer(list, ticks) = DOMAIN list
           /\ \A i \in DOMAIN list : /\ Nearer(list, ticks)[i].type = list[i].type
                                     /\ Nearer(list, ticks)[i].in = list[i].in - ticks
<1>1. PICK new : new = Nearer(list, ticks)
    BY Zenon
<1>2. list \in Seq(Item) /\ Sorted(list)
    BY Zenon DEF Listed
<1>3. /\ Len(list) \in Nat /\ DOMAIN list = 1..Len(list)
      /\ \A i \in DOMAIN list : list[i] \in Item /\ list[i].in \in Int
    BY <1>2, ItemTypes
<1>4. DOMAIN new = DOMAIN list
    BY <1>1, Zenon DEF Nearer
<1>5. ASSUME NEW i \in DOMAIN list
      PROVE  new[i] \in Item /\ new[i].type = list[i].type /\ new[i].in = list[i].in - ticks
    <2>1. PICK item \in Item : item = list[i]
        BY <1>3, Zenon
    <2>2. new[i] = [item EXCEPT !.in = @ - ticks]
        BY <1>1, <2>1, Zenon DEF Nearer
    <2>3. item = [type |-> item.type, in |-> item.in] /\ item.type \in Types /\ item.in \in Int
        BY DEF Item
    <2>4. new[i] = [type |-> item.type, in |-> item.in - ticks]
        BY <2>2, <2>3
    <2> QED
        BY <2>1, <2>3, <2>4 DEF Item
<1>6. new \in Seq(Item)
    <2>1. new \in [DOMAIN list -> Item]
        BY <1>1, <1>4, <1>5, Zenon DEF Nearer
    <2> QED
        BY <1>3, <2>1, IsSequence, Zenon
<1>7. Sorted(new)
    BY <1>2, <1>3, <1>4, <1>5 DEF Sorted
<1>8. \A type : Once(list, type) => Once(new, type)
    BY <1>4, <1>5, Zenon DEF Once
<1>9. \A type : Has(new, type) <=> Has(list, type)
    BY <1>4, <1>5, Zenon DEF Has
<1>10. Listed(new, act, busy)
    BY <1>6, <1>7, <1>8, <1>9, Zenon DEF Listed
<1> QED
    BY <1>1, <1>4, <1>5, <1>10, Zenon

-----------------------------------------------------------------------------
(* The head of the disk.                                                   *)

(* Where the track is, and for how long the track buffer has been filled   *)
(* (a negative time before the end of the seek): it was started where a    *)
(* sector begins.                                                          *)
HeadAt(act, sp, age) ==
    /\ sp \in 0..(Turn - 1)
    /\ age \in Int /\ age <= Turn
    /\ age < Turn => (sp - age) % RotationTime = 0
    /\ ~act => age >= 0

(* The track turns.                                                        *)
LEMMA HeadAdvance ==
    ASSUME NEW act \in BOOLEAN, NEW sp, NEW age, HeadAt(act, sp, age), NEW ticks \in Nat
    PROVE  HeadAt(act, (sp + ticks) % Turn, Min({age + ticks, Turn}))
<1>1. PICK sp2 : sp2 = (sp + ticks) % Turn
    BY Zenon
<1>2. PICK age2 : age2 = Min({age + ticks, Turn})
    BY Zenon
<1>3. sp \in Int /\ age \in Int /\ Turn \in Nat \ {0} /\ age <= Turn /\ sp + ticks \in Int
    BY TurnType DEF HeadAt
<1>4. sp2 \in 0..(Turn - 1)
    BY <1>1, <1>3, Division
<1>5. age2 = IF age + ticks <= Turn THEN age + ticks ELSE Turn
    BY <1>2, <1>3, MinOfTwo
<1>6. age2 \in Int /\ age2 <= Turn /\ (~act => age2 >= 0)
    BY <1>3, <1>5 DEF HeadAt
<1>7. ASSUME age2 < Turn PROVE (sp2 - age2) % RotationTime = 0
    <2>1. age2 = age + ticks /\ age < Turn
        BY <1>3, <1>5, <1>7
    <2>2. PICK q \in Int : q = (sp + ticks) \div Turn
        BY <1>3, Division, Zenon
    <2>3. sp + ticks = Turn * q + sp2
        BY <1>1, <1>3, <2>2, Division, Zenon
    <2>4. PICK k \in Int : k = SectorsPerTrack * q
        BY Constants
    <2>5. Turn * q = RotationTime * k
        BY <2>4, Constants DEF Turn
    <2>6. RotationTime * (-k) = -(RotationTime * k) /\ RotationTime * k \in Int /\ -k \in Int
        BY Constants
    <2>7. sp2 - age2 = (sp - age) + RotationTime * (-k)
        BY <1>3, <1>4, <2>1, <2>3, <2>5, <2>6
    <2>8. (sp - age) % RotationTime = 0 /\ sp - age \in Int
        BY <1>3, <2>1 DEF HeadAt
    <2>9. ((sp - age) + RotationTime * (-k)) % RotationTime = (sp - age) % RotationTime
        BY <2>6, <2>8, AddMultiple, Constants, Zenon
    <2> QED
        BY <2>7, <2>8, <2>9
<1>8. HeadAt(act, sp2, age2)
    BY <1>4, <1>6, <1>7, Zenon DEF HeadAt
<1> QED
    BY <1>1, <1>2, <1>8, Zenon

(* Time goes by, and an interrupt of the disk still waits for the seek.    *)
LEMMA NearerAfterSeek ==
    ASSUME NEW list, NEW act \in BOOLEAN, NEW busy \in BOOLEAN, Listed(list, act, busy),
           NEW sp, NEW age, HeadAt(act, sp, age), AfterSeek(list, age), NEW ticks \in Nat
    PROVE  AfterSeek(Nearer(list, ticks), Min({age + ticks, Turn}))
<1>1. PICK new : new = Nearer(list, ticks)
    BY Zenon
<1>2. /\ DOMAIN new = DOMAIN list
      /\ \A i \in DOMAIN list : new[i].type = list[i].type /\ new[i].in = list[i].in - ticks
    BY <1>1, NearerListed
<1>3. PICK age2 : age2 = Min({age + ticks, Turn})
    BY Zenon
<1>4. age \in Int /\ Turn \in Nat \ {0} /\ age <= Turn
    BY TurnType DEF HeadAt
<1>5. age2 = IF age + ticks <= Turn THEN age + ticks ELSE Turn
    BY <1>3, <1>4, MinOfTwo
<1>6. \A i \in DOMAIN list : list[i].in \in Int
    BY ItemTypes DEF Listed
<1>7. ASSUME NEW i \in DOMAIN new, new[i].type = "Disk"
      PROVE  age2 = Turn \/ age2 + new[i].in >= 0
    <2>1. i \in DOMAIN list /\ list[i].type = "Disk" /\ new[i].in = list[i].in - ticks
        BY <1>2, <1>7, Zenon
    <2>2. age = Turn \/ age + list[i].in >= 0
        BY <2>1, Zenon DEF AfterSeek
    <2>3. list[i].in \in Int
        BY <1>6, <2>1, Zenon
    <2> QED
        BY <1>4, <1>5, <2>1, <2>2, <2>3
<1>8. AfterSeek(new, age2)
    BY <1>7, Zenon DEF AfterSeek
<1> QED
    BY <1>1, <1>3, <1>8, Zenon

(* A seek takes no negative time.                                          *)
LEMMA SeekType ==
    ASSUME lastSector \in Sectors, NEW sector \in Sectors
    PROVE  Seek(sector) \in Nat /\ sector \in Int
<1>1. PICK a : a = sector \div SectorsPerTrack
    BY Zenon
<1>2. PICK b : b = lastSector \div SectorsPerTrack
    BY Zenon
<1>3. sector \in Int /\ lastSector \in Int
    BY Constants, Product DEF Sectors
<1>4. a \in Int /\ b \in Int
    BY <1>1, <1>2, <1>3, Constants, Division
<1>5. Abs(a - b) \in Nat
    BY <1>4 DEF Abs
<1>6. Abs(a - b) * SeekTime \in Nat
    BY <1>5, Constants, ProductNat
<1> QED
    BY <1>1, <1>2, <1>3, <1>6, Zenon DEF Seek

(* TimeToSeek's rotation ends at the next beginning of a sector, the first *)
(* one after the seek.                                                     *)
LEMMA RotationAligns ==
    ASSUME spin \in Int, NEW sector, Seek(sector) \in Nat
    PROVE  /\ Rotation(sector) \in 0..(RotationTime - 1)
           /\ \E k \in Int :
                 /\ spin + Seek(sector) + Rotation(sector) = RotationTime * k
                 /\ k = (spin + Seek(sector) + Rotation(sector)) \div RotationTime
                 /\ \A m \in Int : spin + Seek(sector) <= RotationTime * m => k <= m
<1>0. RotationTime \in Nat \ {0}
    BY Constants
<1>1. PICK n \in Int : n = spin + Seek(sector)
    OBVIOUS
<1>2. PICK q \in Int, c \in 0..(RotationTime - 1) : n = RotationTime * q + c /\ c = n % RotationTime
    BY <1>0, Division, Zenon
<1>3. PICK rot : rot = Rotation(sector)
    BY Zenon
<1>4. rot = IF c > 0 THEN RotationTime - c ELSE 0
    BY <1>1, <1>2, <1>3, Zenon DEF Rotation
<1>5. rot \in 0..(RotationTime - 1)
    BY <1>0, <1>4
<1>6. PICK k \in Int : k = IF c > 0 THEN q + 1 ELSE q
    OBVIOUS
<1>7. n + rot = RotationTime * k
    <2>1. RotationTime * q \in Int /\ RotationTime * (q + 1) = RotationTime * q + RotationTime
        BY <1>0
    <2> QED
        BY <1>0, <1>2, <1>4, <1>6, <2>1
<1>8. k = (n + rot) \div RotationTime
    BY <1>0, <1>7, IsMultiple
<1>9. ASSUME NEW m \in Int, n <= RotationTime * m PROVE k <= m
    <2>0. RotationTime * m \in Int /\ RotationTime * q \in Int
        BY <1>0
    <2>1. CASE c > 0
        <3>1. RotationTime * q < RotationTime * m
            BY <1>2, <1>9, <2>0, <2>1
        <3>2. q < m
            BY <1>0, <3>1, MultiplesApart, Zenon
        <3> QED
            BY <1>6, <2>1, <3>2
    <2>2. CASE c = 0
        <3>1. RotationTime * q <= RotationTime * m
            BY <1>2, <1>9, <2>0, <2>2
        <3>2. SUFFICES ASSUME m < q PROVE FALSE
            BY <1>6, <2>2
        <3>3. PICK d \in Nat \ {0} : q = m + d
            BY <3>2
        <3>4. RotationTime * q = RotationTime * m + RotationTime * d
            BY <1>0, <3>3
        <3>5. RotationTime * d \in Nat \ {0}
            BY <1>0, Product
        <3> QED
            BY <2>0, <3>1, <3>4, <3>5
    <2> QED
        BY <2>1, <2>2
<1>10. n + rot = spin + Seek(sector) + Rotation(sector) /\ n = spin + Seek(sector)
    BY <1>1, <1>3
<1> QED
    BY <1>3, <1>5, <1>7, <1>8, <1>9, <1>10

(* ModuloDiff: how many sectors further on a track the one with the number *)
(* `to' comes, and that it does not come sooner.                           *)
LEMMA ModuloDiffType ==
    ASSUME NEW to \in Int, NEW from \in Int
    PROVE  /\ ModuloDiff(to, from) \in 0..(SectorsPerTrack - 1)
           /\ (from + ModuloDiff(to, from)) % SectorsPerTrack = to % SectorsPerTrack
           /\ \A j \in Nat : (from + j) % SectorsPerTrack = to % SectorsPerTrack
                             => ModuloDiff(to, from) <= j
<1>0. SectorsPerTrack \in Nat \ {0}
    BY Constants
<1> DEFINE S == SectorsPerTrack
<1>1. PICK p \in Int, a \in 0..(S - 1) : to = S * p + a /\ a = to % S
    BY <1>0, Division, Zenon
<1>2. PICK q \in Int, b \in 0..(S - 1) : from = S * q + b /\ b = from % S
    BY <1>0, Division, Zenon
<1>3. PICK d : d = ModuloDiff(to, from)
    BY Zenon
<1>4. d = ((a - b) + S) % S
    BY <1>1, <1>2, <1>3, Zenon DEF ModuloDiff
<1>5. d = IF a >= b THEN a - b ELSE a - b + S
    <2>1. CASE a >= b
        <3>1. (a - b) + S = S * 1 + (a - b) /\ a - b \in 0..(S - 1) /\ (a - b) + S \in Int
            BY <1>0, <2>1
        <3>2. a - b = ((a - b) + S) % S
            BY <1>0, <3>1, DivisionUnique
        <3> QED
            BY <1>4, <2>1, <3>2
    <2>2. CASE a < b
        <3>1. (a - b) + S = S * 0 + (a - b + S) /\ a - b + S \in 0..(S - 1) /\ (a - b) + S \in Int
            BY <1>0, <2>2
        <3>2. a - b + S = ((a - b) + S) % S
            BY <1>0, <3>1, DivisionUnique
        <3> QED
            BY <1>0, <1>4, <2>2, <3>2
    <2> QED
        BY <1>0, <2>1, <2>2
<1>6. d \in 0..(S - 1)
    BY <1>0, <1>5
<1>7. (from + d) % S = a
    <2>1. PICK e \in Int : e = IF a >= b THEN q ELSE q + 1
        OBVIOUS
    <2>2. S * (q + 1) = S * q + S /\ S * q \in Int
        BY <1>0
    <2>3. from + d = S * e + a
        BY <1>0, <1>2, <1>5, <2>1, <2>2
    <2>4. PICK n \in Int : n = from + d
        BY <1>6
    <2>5. n = S * e + a
        BY <2>3, <2>4
    <2>6. a = n % S
        BY <1>0, <2>5, DivisionUnique, Zenon
    <2> QED
        BY <2>4, <2>6, Zenon
<1>8. ASSUME NEW j \in Nat, (from + j) % S = a PROVE d <= j
    <2>1. SUFFICES ASSUME j < d PROVE FALSE
        BY <1>6
    <2>a. from + j \in Int /\ from + d \in Int
        BY <1>6
    <2>2. PICK e \in Int : from + j = S * e + a
        BY <1>0, <1>8, <2>a, Division, Zenon
    <2>3. PICK f \in Int : from + d = S * f + a
        BY <1>0, <1>7, <2>a, Division, Zenon
    <2>4. S * e \in Int /\ S * f \in Int
        BY <1>0
    <2>5. S * e < S * f
        BY <1>6, <2>1, <2>2, <2>3, <2>4
    <2>6. e < f
        BY <1>0, <2>5, MultiplesApart, Zenon
    <2>7. PICK g \in Nat : f = e + 1 + g
        BY <2>6
    <2>8. S * f = S * e + S + S * g
        BY <1>0, <2>7
    <2>9. S * g \in Nat
        BY <1>0, ProductNat
    <2> QED
        BY <1>0, <1>6, <2>2, <2>3, <2>4, <2>8, <2>9
<1> QED
    BY <1>1, <1>3, <1>6, <1>7, <1>8, Zenon

(* At the time `from' the head begins to pass over the sector.             *)
PassesOver(sector, from) ==
    /\ from % RotationTime = 0
    /\ (from \div RotationTime) % SectorsPerTrack = sector % SectorsPerTrack

(* Sectors begin at the multiples of RotationTime.                         *)
LEMMA PassesAt ==
    ASSUME NEW sector, NEW m \in Int, m % SectorsPerTrack = sector % SectorsPerTrack
    PROVE  PassesOver(sector, RotationTime * m)
<1>1. (RotationTime * m) % RotationTime = 0 /\ (RotationTime * m) \div RotationTime = m
    BY Constants, IsMultiple, Zenon
<1> QED
    BY <1>1, Zenon DEF PassesOver

(* From the end of the seek to the sector.                                 *)
Far(sector) ==
    Rotation(sector)
       + ModuloDiff(sector, (spin + Seek(sector) + Rotation(sector)) \div RotationTime) * RotationTime

(* The head comes to the sector after Far, and not before; no sector is    *)
(* further than a turn.                                                    *)
LEMMA HeadComesRound ==
    ASSUME spin \in Int, NEW sector \in Int, Seek(sector) \in Nat
    PROVE  /\ Far(sector) \in Nat
           /\ Rotation(sector) <= Far(sector)
           /\ Far(sector) <= Rotation(sector) + Turn - RotationTime
           /\ PassesOver(sector, spin + Seek(sector) + Far(sector))
           /\ \A from \in (spin + Seek(sector))..(spin + Seek(sector) + Far(sector) - 1) :
                 ~PassesOver(sector, from)
<1>0. RotationTime \in Nat \ {0} /\ SectorsPerTrack \in Nat \ {0}
    BY Constants
<1>1. PICK ready \in Int : ready = spin + Seek(sector)
    OBVIOUS
<1>2. PICK rot \in 0..(RotationTime - 1) : rot = Rotation(sector)
    BY RotationAligns, Zenon
<1>3. PICK k \in Int : /\ ready + rot = RotationTime * k
                       /\ k = (ready + rot) \div RotationTime
                       /\ \A m \in Int : ready <= RotationTime * m => k <= m
    BY <1>1, <1>2, RotationAligns, Zenon
<1>4. PICK md : md = ModuloDiff(sector, k)
    BY Zenon
<1>5. /\ md \in 0..(SectorsPerTrack - 1)
      /\ (k + md) % SectorsPerTrack = sector % SectorsPerTrack
      /\ \A j \in Nat : (k + j) % SectorsPerTrack = sector % SectorsPerTrack => md <= j
    BY <1>4, ModuloDiffType
<1>6. PICK far : far = Far(sector)
    BY Zenon
<1>7. far = rot + md * RotationTime
    BY <1>1, <1>2, <1>3, <1>4, <1>6, Zenon DEF Far
<1>8. md * RotationTime = RotationTime * md /\ RotationTime * md \in Nat
    BY <1>0, <1>5, ProductNat
<1>9. RotationTime * md <= Turn - RotationTime /\ Turn \in Int
    <2>1. PICK e \in Nat : SectorsPerTrack - 1 = md + e
        BY <1>0, <1>5
    <2>2. RotationTime * (SectorsPerTrack - 1) = RotationTime * md + RotationTime * e
        BY <1>0, <1>5, <2>1
    <2>3. RotationTime * (SectorsPerTrack - 1) = SectorsPerTrack * RotationTime - RotationTime
        BY <1>0
    <2>4. RotationTime * e \in Nat /\ SectorsPerTrack * RotationTime \in Nat
        BY <1>0, ProductNat
    <2> QED
        BY <1>0, <1>8, <2>2, <2>3, <2>4 DEF Turn
<1>10. far \in Nat /\ rot <= far /\ far <= rot + Turn - RotationTime
    BY <1>0, <1>7, <1>8, <1>9
<1>11. ready + far = RotationTime * (k + md) /\ k + md \in Int
    <2>1. RotationTime * (k + md) = RotationTime * k + RotationTime * md /\ RotationTime * k \in Int
        BY <1>0, <1>5
    <2> QED
        BY <1>3, <1>5, <1>7, <1>8, <2>1
<1>12. PassesOver(sector, ready + far)
    BY <1>5, <1>11, PassesAt
<1>13. ASSUME NEW from \in ready..(ready + far - 1), PassesOver(sector, from) PROVE FALSE
    <2>1. from \in Int /\ ready <= from /\ from < ready + far
        BY <1>10
    <2>2. from % RotationTime = 0
        BY <1>13, Zenon DEF PassesOver
    <2>3. PICK m \in Int : from = RotationTime * m /\ m = from \div RotationTime
        BY <1>0, <2>1, <2>2, Multiple, Zenon
    <2>4. m % SectorsPerTrack = sector % SectorsPerTrack
        BY <1>13, <2>3, Zenon DEF PassesOver
    <2>5. k <= m
        BY <1>3, <2>1, <2>3
    <2>6. RotationTime * m < RotationTime * (k + md)
        BY <1>11, <2>1, <2>3, Zenon
    <2>7. m < k + md
        BY <1>0, <1>11, <2>6, MultiplesApart, Zenon
    <2>8. PICK j \in Nat : m = k + j
        BY <2>5
    <2>9. md <= j
        BY <1>5, <2>4, <2>8, Zenon
    <2> QED
        BY <1>5, <2>7, <2>8, <2>9
<1> QED
    BY <1>1, <1>2, <1>6, <1>10, <1>12, <1>13, Zenon

(* What InTrackBuffer finds has been under the head since the track buffer *)
(* was started.                                                            *)
LEMMA BufferHasSeen ==
    ASSUME HeadAt(FALSE, spin, bufferAge), NEW sector \in Int, Seek(sector) = 0, InTrackBuffer(sector)
    PROVE  \E from \in (spin + Turn - bufferAge)..(spin + Rotation(sector) + Turn - RotationTime) :
              PassesOver(sector, from)
<1>0. /\ RotationTime \in Nat \ {0} /\ SectorsPerTrack \in Nat \ {0} /\ Turn \in Nat \ {0}
      /\ spin \in Int /\ bufferAge \in Int /\ bufferAge <= Turn /\ bufferAge >= 0
    BY Constants, TurnType DEF HeadAt
<1>1. PICK rot \in 0..(RotationTime - 1) : rot = Rotation(sector)
    BY <1>0, RotationAligns
<1>2. CASE bufferAge = Turn
    <2>1. PICK far : far = Far(sector)
        BY Zenon
    <2>2. /\ far \in Nat /\ far <= rot + Turn - RotationTime
          /\ PassesOver(sector, spin + 0 + far)
        BY <1>0, <1>1, <2>1, HeadComesRound
    <2>3. spin + 0 + far \in (spin + Turn - bufferAge)..(spin + rot + Turn - RotationTime)
        BY <1>0, <1>1, <1>2, <2>2
    <2> QED
        BY <1>1, <2>2, <2>3, Zenon
<1>3. CASE bufferAge < Turn
    <2>1. (spin - bufferAge) % RotationTime = 0 /\ spin - bufferAge \in Int
        BY <1>0, <1>3 DEF HeadAt
    <2>2. PICK a \in Int : spin - bufferAge = RotationTime * a
        BY <1>0, <2>1, Multiple, Zenon
    <2>3. PICK n \in Int : n = a + SectorsPerTrack
        BY <1>0
    <2>4. PICK started \in Int : started = spin + Turn - bufferAge
        BY <1>0
    <2>5. started = RotationTime * n
        <3>1. RotationTime * n = RotationTime * a + SectorsPerTrack * RotationTime
            BY <1>0, <2>3
        <3>2. RotationTime * a \in Int
            BY <1>0
        <3> QED
            BY <1>0, <2>2, <2>4, <3>1, <3>2 DEF Turn
    <2>a. /\ started \div Turn \in Int /\ started % Turn \in 0..(Turn - 1)
          /\ started = Turn * (started \div Turn) + (started % Turn)
        BY <1>0, Division, Zenon
    <2>b. started % Turn \in Int
        BY <1>0, <2>a
    <2>6. PICK q \in Int : started = Turn * q + (started % Turn) /\ started % Turn \in Int
        BY <2>a, <2>b, Zenon
    <2>7. PICK e \in Int : e = n - SectorsPerTrack * q
        BY <1>0
    <2>8. started % Turn = RotationTime * e
        <3>1. RotationTime * e = RotationTime * n - SectorsPerTrack * RotationTime * q
            BY <1>0, <2>7
        <3>2. SectorsPerTrack * RotationTime * q = Turn * q /\ Turn * q \in Int
            BY <1>0 DEF Turn
        <3> QED
            BY <2>5, <2>6, <3>1, <3>2
    <2>9. (started % Turn) \div RotationTime = e
        BY <1>0, <2>8, IsMultiple, Zenon
    <2>10. PICK d : d = ModuloDiff(sector, e)
        BY Zenon
    <2>11. d \in 0..(SectorsPerTrack - 1) /\ (e + d) % SectorsPerTrack = sector % SectorsPerTrack
        BY <2>10, ModuloDiffType
    <2>12. (n + d) % SectorsPerTrack = sector % SectorsPerTrack /\ n + d \in Int
        <3>1. n + d = (e + d) + SectorsPerTrack * q /\ e + d \in Int
            <4>1. SectorsPerTrack * q \in Int
                BY <1>0
            <4> QED
                BY <2>7, <2>11, <4>1
        <3>2. ((e + d) + SectorsPerTrack * q) % SectorsPerTrack = (e + d) % SectorsPerTrack
            BY <1>0, <3>1, AddMultiple, Zenon
        <3>3. n + d \in Int
            BY <2>11
        <3> QED
            BY <2>11, <3>1, <3>2, <3>3, Zenon
    <2>13. PassesOver(sector, RotationTime * (n + d))
        BY <2>12, PassesAt, Zenon
    <2>14. PICK seen \in Int : seen = (bufferAge + rot) \div RotationTime
        BY <1>0, <1>1, Division
    <2>15. seen > d
        <3>1. bufferAge # Turn
            BY <1>0, <1>3
        <3> QED
            BY <1>1, <2>4, <2>9, <2>10, <2>14, <3>1, Zenon DEF InTrackBuffer
    <2>16. RotationTime * seen <= bufferAge + rot
        <3>1. PICK m \in Int : m = bufferAge + rot
            BY <1>0
        <3>2. m % RotationTime \in 0..(RotationTime - 1) /\ m = RotationTime * seen + (m % RotationTime)
            BY <1>0, <2>14, <3>1, Division, Zenon
        <3>3. RotationTime * seen \in Int
            BY <1>0
        <3> QED
            BY <1>0, <3>1, <3>2, <3>3
    <2>17. PICK g \in Nat : seen = d + 1 + g
        BY <2>11, <2>15
    <2>18. RotationTime * seen = RotationTime * d + RotationTime + RotationTime * g
        BY <1>0, <2>11, <2>17
    <2>19. RotationTime * g \in Nat /\ RotationTime * d \in Nat
        BY <1>0, <2>11, ProductNat
    <2>20. RotationTime * (n + d) = started + RotationTime * d
        BY <1>0, <2>5, <2>11
    <2>21. RotationTime * (n + d) \in started..(spin + rot + Turn - RotationTime)
        BY <1>0, <2>4, <2>16, <2>18, <2>19, <2>20
    <2> QED
        BY <1>1, <2>4, <2>13, <2>21, Zenon
<1> QED
    BY <1>0, <1>2, <1>3

(* The latency of a request, with and without the track buffer.            *)
LEMMA LatencyType ==
    ASSUME spin \in Int, NEW sector \in Int, Seek(sector) \in Nat, NEW writing \in BOOLEAN
    PROVE  /\ ComputeLatency(sector, writing) \in Nat \ {0}
           /\ Seek(sector) # 0 =>
                 ComputeLatency(sector, writing) >= Seek(sector) + Rotation(sector)
           /\ ~(~writing /\ InTrackBuffer(sector)) =>
                 ComputeLatency(sector, writing) = Seek(sector) + Far(sector) + RotationTime
           /\ ~writing /\ InTrackBuffer(sector) =>
                 ComputeLatency(sector, writing) = RotationTime /\ Seek(sector) = 0
<1>0. RotationTime \in Nat \ {0}
    BY Constants
<1>1. Far(sector) \in Nat /\ Rotation(sector) <= Far(sector)
    BY HeadComesRound, Zenon
<1>2. Rotation(sector) \in 0..(RotationTime - 1)
    BY RotationAligns, Zenon
<1>3. CASE ~writing /\ InTrackBuffer(sector)
    <2>1. ComputeLatency(sector, writing) = RotationTime
        BY <1>3, Zenon DEF ComputeLatency
    <2>2. Seek(sector) = 0
        BY <1>3, Zenon DEF InTrackBuffer
    <2> QED
        BY <1>0, <1>3, <2>1, <2>2
<1>4. CASE ~(~writing /\ InTrackBuffer(sector))
    <2>1. PICK md : md = ModuloDiff(sector, (spin + Seek(sector) + Rotation(sector)) \div RotationTime)
                            * RotationTime
        BY Zenon
    <2>2. Far(sector) = Rotation(sector) + md
        BY <2>1, Zenon DEF Far
    <2>3. ComputeLatency(sector, writing) = Seek(sector) + Rotation(sector) + md + RotationTime
        BY <1>4, <2>1, Zenon DEF ComputeLatency
    <2>4. md \in Int
        <3>1. (spin + Seek(sector) + Rotation(sector)) \div RotationTime \in Int
            BY <1>0, <1>2, Division
        <3>2. ModuloDiff(sector, (spin + Seek(sector) + Rotation(sector)) \div RotationTime) \in Nat
            BY <3>1, ModuloDiffType, Constants
        <3> QED
            BY <1>0, <2>1, <3>2, ProductNat
    <2>5. ComputeLatency(sector, writing) = Seek(sector) + Far(sector) + RotationTime
        BY <1>0, <1>2, <2>2, <2>3, <2>4
    <2> QED
        BY <1>0, <1>1, <1>2, <1>4, <2>5
<1> QED
    BY <1>3, <1>4, Zenon

(* The arithmetic of ComputeLatency is right wherever the head is.         *)
LEMMA HeadPasses ==
    ASSUME active \in BOOLEAN, HeadAt(active, spin, bufferAge), lastSector \in Sectors
    PROVE  HeadPassesSector
<1>1. SUFFICES ASSUME ~active, NEW sector \in Sectors, NEW writing \in BOOLEAN
               PROVE  LET latency == ComputeLatency(sector, writing)
                          ready == spin + Seek(sector)
                          started == spin + Turn - bufferAge
                      IN  \/ /\ PassesOver(sector, ready + latency - Seek(sector) - RotationTime)
                             /\ \A from \in ready..(ready + latency - Seek(sector) - RotationTime - 1) :
                                   ~PassesOver(sector, from)
                          \/ /\ ~writing /\ Seek(sector) = 0 /\ latency = RotationTime
                             /\ \E from \in started..(spin + Rotation(sector) + Turn - RotationTime) :
                                   PassesOver(sector, from)
    BY Zenon DEF HeadPassesSector, PassesOver
<1>2. spin \in Int /\ RotationTime \in Nat \ {0}
    BY TurnType, Constants DEF HeadAt
<1>3. Seek(sector) \in Nat /\ sector \in Int
    BY SeekType, Zenon
<1>4. PICK latency : latency = ComputeLatency(sector, writing)
    BY Zenon
<1>5. CASE ~(~writing /\ InTrackBuffer(sector))
    <2>1. latency = Seek(sector) + Far(sector) + RotationTime
        BY <1>2, <1>3, <1>4, <1>5, LatencyType, Zenon
    <2>2. /\ Far(sector) \in Nat
          /\ PassesOver(sector, spin + Seek(sector) + Far(sector))
          /\ \A from \in (spin + Seek(sector))..(spin + Seek(sector) + Far(sector) - 1) :
                ~PassesOver(sector, from)
        BY <1>2, <1>3, HeadComesRound, Zenon
    <2>3. spin + Seek(sector) + latency - Seek(sector) - RotationTime
             = spin + Seek(sector) + Far(sector)
        BY <1>2, <1>3, <2>1, <2>2
    <2>4. PassesOver(sector, spin + Seek(sector) + latency - Seek(sector) - RotationTime)
        BY <2>2, <2>3
    <2>5. spin + Seek(sector) + latency - Seek(sector) - RotationTime - 1
             = spin + Seek(sector) + Far(sector) - 1
        BY <1>2, <1>3, <2>1, <2>2
    <2>6. ASSUME NEW from \in (spin + Seek(sector))
                               ..(spin + Seek(sector) + latency - Seek(sector) - RotationTime - 1)
          PROVE  ~PassesOver(sector, from)
        <3>1. from \in (spin + Seek(sector))..(spin + Seek(sector) + Far(sector) - 1)
            BY <2>5, <2>6
        <3> QED
            BY <2>2, <3>1, Zenon
    <2> QED
        BY <1>4, <2>4, <2>6, Zenon
<1>6. CASE ~writing /\ InTrackBuffer(sector)
    <2>1. latency = RotationTime /\ Seek(sector) = 0
        BY <1>2, <1>3, <1>4, <1>6, LatencyType, Zenon
    <2>2. HeadAt(FALSE, spin, bufferAge)
        BY <1>1 DEF HeadAt
    <2>3. \E from \in (spin + Turn - bufferAge)..(spin + Rotation(sector) + Turn - RotationTime) :
             PassesOver(sector, from)
        BY <1>3, <1>6, <2>1, <2>2, BufferHasSeen, Zenon
    <2> QED
        BY <1>4, <1>6, <2>1, <2>3, Zenon
<1> QED
    BY <1>5, <1>6, Zenon

-----------------------------------------------------------------------------
(* The inductive invariant.                                                *)

Labels ==
    {"code", "lock->Acquire", "request", "semaphore->P", "lock->Release", "finished",
     "readAvail->P", "GetChar", "writeDone->P", "last writeDone->P", "Halt"}

TypeInv ==
    /\ active \in BOOLEAN /\ putBusy \in BOOLEAN
    /\ lastSector \in Sectors
    /\ wants \in [Clients -> [sector : Sectors, writing : BOOLEAN]]
    /\ value \in [Semaphores -> Nat]
    /\ pc \in [Clients \cup {Echo} -> Labels]
    /\ incoming \in Chars \cup {"q", "EOF"}
    /\ typed \in Seq(Chars \cup {"q"})

(* The list, and the head of the disk.                                     *)
TimeInv ==
    /\ Listed(pending, active, putBusy)
    /\ HeadAt(active, spin, bufferAge)
    /\ AfterSeek(pending, bufferAge)

(* While a thread runs, or asks who is next, no device is late.            *)
DueInv == cpu \in {"IntOn", "Sleep"} => NotDue(pending)

Inside == {"request", "semaphore->P", "lock->Release"}

(* The lock is free and the disk rests, or one client holds the lock; the  *)
(* answer to its request is on its way or in the semaphore, exactly while  *)
(* it waits for it.                                                        *)
DiskFree ==
    /\ value["lock"] = 1 /\ value["disk"] = 0 /\ ~active
    /\ \A t \in Clients : pc[t] \notin Inside

DiskHeld(h) ==
    /\ value["lock"] = 0
    /\ \A t \in Clients : pc[t] \in Inside <=> t = h
    /\ active => pc[h] = "semaphore->P" /\ value["disk"] = 0
    /\ ~active => value["disk"] = IF pc[h] = "semaphore->P" THEN 1 ELSE 0

DiskInv == DiskFree \/ \E h \in Clients : DiskHeld(h)

Waiting == {"writeDone->P", "last writeDone->P"}

(* What is owed is in the console's buffer or not read yet.  The unit of   *)
(* readAvail, or the thread that took it, stands for the character in the  *)
(* buffer; the display is busy, or its unit is in writeDone, exactly while *)
(* ConsoleTest waits for it.                                               *)
EchoInv ==
    /\ owed = (IF incoming = "EOF" THEN <<>> ELSE <<incoming>>) \o typed
    /\ value["readAvail"] + (IF pc[Echo] = "GetChar" THEN 1 ELSE 0) = IF incoming # "EOF" THEN 1 ELSE 0
    /\ (IF putBusy THEN 1 ELSE 0) + value["writeDone"] = IF pc[Echo] \in Waiting THEN 1 ELSE 0

DInv == TypeInv /\ TimeInv /\ DueInv /\ DiskInv /\ EchoInv

(* A step that leaves the list and the head alone keeps TimeInv.           *)
LEMMA TimeUnchanged ==
    ASSUME TimeInv, UNCHANGED <<pending, active, putBusy, spin, bufferAge>>
    PROVE  TimeInv'
BY Zenon DEF TimeInv

(* Advance keeps TimeInv.                                                  *)
LEMMA TimeAdvances ==
    ASSUME TypeInv, NEW list, Listed(list, active, putBusy), AfterSeek(list, bufferAge),
           HeadAt(active, spin, bufferAge), NEW ticks \in Nat,
           Advance(ticks, list), UNCHANGED <<active, putBusy>>
    PROVE  TimeInv'
<1>1. pending' = Nearer(list, ticks) /\ spin' = (spin + ticks) % Turn
      /\ bufferAge' = Min({bufferAge + ticks, Turn})
    BY Zenon DEF Advance, Nearer
<1>2. active \in BOOLEAN /\ putBusy \in BOOLEAN
    BY Zenon DEF TypeInv
<1>3. ticks \in Int
    OBVIOUS
<1>4. Listed(pending', active, putBusy)
    BY <1>1, <1>2, <1>3, NearerListed, Zenon
<1>5. HeadAt(active, spin', bufferAge')
    BY <1>1, <1>2, HeadAdvance, Zenon
<1>6. AfterSeek(pending', bufferAge')
    BY <1>1, <1>2, NearerAfterSeek, Zenon
<1> QED
    BY <1>4, <1>5, <1>6, Zenon DEF TimeInv

(* OneTick keeps TimeInv, and DueInv says nothing of its loop.             *)
LEMMA OneTickKeeps ==
    ASSUME TypeInv, TimeInv, OneTick, UNCHANGED <<active, putBusy>>
    PROVE  TimeInv' /\ DueInv'
<1>1. Advance(SystemTick, pending) /\ cpu' = "OneTick"
    BY Zenon DEF OneTick
<1>2. SystemTick \in Nat
    BY Constants
<1>3. TimeInv'
    BY <1>1, <1>2, TimeAdvances, Zenon DEF TimeInv
<1>4. DueInv'
    BY <1>1 DEF DueInv
<1> QED
    BY <1>3, <1>4, Zenon

Threads == Clients \cup {Echo}

(* The thread t goes on to `next', and no other thread moves.              *)
Moves(t, next) ==
    /\ pc' \in [Threads -> Labels]
    /\ pc'[t] = next
    /\ \A u \in Threads : u # t => pc'[u] = pc[u]

(* The semaphore s has the value n, and the others have theirs.            *)
Becomes(s, n) ==
    /\ value' \in [Semaphores -> Nat]
    /\ value'[s] = n
    /\ \A x \in Semaphores : x # s => value'[x] = value[x]

(* A step of a thread.                                                     *)
LEMMA MovesTo ==
    ASSUME TypeInv, NEW t \in Threads, NEW next \in Labels, pc' = [pc EXCEPT ![t] = next]
    PROVE  Moves(t, next)
<1>1. pc \in [Threads -> Labels]
    BY Zenon DEF TypeInv, Threads
<1> QED
    BY <1>1, Zenon DEF Moves

(* P keeps the list in order and nothing late, and either takes a unit or  *)
(* leaves the thread where it is.                                          *)
LEMMA PStep ==
    ASSUME TypeInv, TimeInv, DueInv, cpu = "IntOn", NEW t \in Threads, NEW s \in Semaphores,
           NEW next \in Labels, P(t, s, next), UNCHANGED putBusy
    PROVE  /\ TimeInv' /\ DueInv'
           /\ UNCHANGED <<active, lastSector>>
           /\ \/ value[s] > 0 /\ Becomes(s, value[s] - 1) /\ Moves(t, next)
              \/ UNCHANGED <<value, pc>>
<1>1. UNCHANGED <<active, lastSector>>
    BY Zenon DEF P
<1>2. value \in [Semaphores -> Nat]
    BY Zenon DEF TypeInv
<1>3. CASE /\ value[s] > 0 /\ value' = [value EXCEPT ![s] = @ - 1]
           /\ pc' = [pc EXCEPT ![t] = next] /\ SetLevelOn
    <2>1. TimeInv' /\ DueInv'
        BY <1>1, <1>3, OneTickKeeps, Zenon DEF SetLevelOn
    <2>2. Moves(t, next)
        BY <1>3, MovesTo, Zenon
    <2>3. value[s] - 1 \in Nat
        BY <1>2, <1>3
    <2>4. Becomes(s, value[s] - 1)
        BY <1>2, <1>3, <2>3, Zenon DEF Becomes
    <2> QED
        BY <1>1, <1>3, <2>1, <2>2, <2>4, Zenon
<1>4. CASE cpu' = "Sleep" /\ UNCHANGED <<value, pc, pending, spin, bufferAge>>
    <2>1. TimeInv'
        BY <1>1, <1>4, TimeUnchanged, Zenon
    <2>2. NotDue(pending)
        BY Zenon DEF DueInv
    <2>3. DueInv'
        BY <1>4, <2>2, Zenon DEF DueInv
    <2> QED
        BY <1>1, <1>4, <2>1, <2>3, Zenon
<1> QED
    BY <1>3, <1>4, Zenon DEF P

(* V adds a unit.                                                          *)
LEMMA VStep ==
    ASSUME TypeInv, NEW s \in Semaphores, V(s)
    PROVE  Becomes(s, value[s] + 1)
<1>1. value \in [Semaphores -> Nat] /\ value' = [value EXCEPT ![s] = @ + 1]
    BY Zenon DEF TypeInv, V
<1>2. value[s] + 1 \in Nat
    BY <1>1
<1> QED
    BY <1>1, <1>2, Zenon DEF Becomes

(* DiskInv is about the two semaphores of SynchDisk, the disk, and the     *)
(* clients.                                                                *)
LEMMA DiskUnchanged ==
    ASSUME DiskInv, value'["lock"] = value["lock"], value'["disk"] = value["disk"],
           active' = active, \A t \in Clients : pc'[t] = pc[t]
    PROVE  DiskInv'
<1>1. CASE DiskFree
    BY <1>1, Zenon DEF DiskInv, DiskFree
<1>2. CASE \E h \in Clients : DiskHeld(h)
    <2>1. PICK h \in Clients : DiskHeld(h)
        BY <1>2, Zenon
    <2>2. DiskHeld(h)'
        BY <2>1, Zenon DEF DiskHeld
    <2> QED
        BY <2>2, Zenon DEF DiskInv
<1> QED
    BY <1>1, <1>2, Zenon DEF DiskInv

(* EchoInv is about the console, its two semaphores, and ConsoleTest.      *)
LEMMA EchoUnchanged ==
    ASSUME EchoInv, value'["readAvail"] = value["readAvail"],
           value'["writeDone"] = value["writeDone"], UNCHANGED consoleVars, pc'[Echo] = pc[Echo]
    PROVE  EchoInv'
BY Zenon DEF EchoInv, consoleVars

(* The names of the semaphores and of the threads are different.           *)
LEMMA Names ==
    /\ "lock" \in Semaphores /\ "disk" \in Semaphores
    /\ "readAvail" \in Semaphores /\ "writeDone" \in Semaphores
    /\ Echo \in Threads /\ Echo \notin Clients
    /\ \A t \in Clients : t \in Threads /\ t # Echo
BY DevicesAssumption DEF Semaphores, Threads

(* The labels are different.                                               *)
LEMMA LabelNames ==
    /\ {"code", "lock->Acquire", "request", "semaphore->P", "lock->Release", "finished",
        "readAvail->P", "GetChar", "writeDone->P", "last writeDone->P", "Halt"} \subseteq Labels
    /\ {"request", "semaphore->P", "lock->Release"} \subseteq Inside
    /\ "code" \notin Inside /\ "lock->Acquire" \notin Inside /\ "finished" \notin Inside
    /\ "writeDone->P" \in Waiting /\ "last writeDone->P" \in Waiting
    /\ "GetChar" \notin Waiting /\ "readAvail->P" \notin Waiting /\ "Halt" \notin Waiting
BY DEF Labels, Inside, Waiting

-----------------------------------------------------------------------------
(* The steps of a client.                                                  *)

(* Most steps of a thread move it and change a semaphore.                  *)
LEMMA TypeKeeps ==
    ASSUME TypeInv, UNCHANGED <<active, lastSector, wants, consoleVars>>,
           (\E t \in Threads, next \in Labels : Moves(t, next)) \/ UNCHANGED pc,
           (\E s \in Semaphores, n \in Nat : Becomes(s, n)) \/ UNCHANGED value
    PROVE  TypeInv'
<1>1. value' \in [Semaphores -> Nat]
    BY Zenon DEF TypeInv, Becomes
<1>2. pc' \in [Clients \cup {Echo} -> Labels]
    BY Zenon DEF TypeInv, Moves, Threads
<1> QED
    BY <1>1, <1>2, Zenon DEF TypeInv, consoleVars

(* A client that stays outside SynchDisk.                                  *)
LEMMA OutsideMoves ==
    ASSUME DiskInv, NEW t \in Clients, NEW next, pc[t] \notin Inside, next \notin Inside,
           Moves(t, next), UNCHANGED <<value, active>>
    PROVE  DiskInv'
<1>0. \A u \in Clients : u \in Threads
    BY Zenon DEF Threads
<1>1. \A u \in Clients : pc'[u] \in Inside <=> pc[u] \in Inside
    BY <1>0, Zenon DEF Moves
<1>2. CASE DiskFree
    BY <1>1, <1>2, Zenon DEF DiskInv, DiskFree
<1>3. CASE \E h \in Clients : DiskHeld(h)
    <2>1. PICK h \in Clients : DiskHeld(h)
        BY <1>3, Zenon
    <2>2. h # t
        BY <2>1, Zenon DEF DiskHeld
    <2>3. pc'[h] = pc[h]
        BY <1>0, <2>2, Zenon DEF Moves
    <2>4. DiskHeld(h)'
        BY <1>1, <2>1, <2>3, Zenon DEF DiskHeld
    <2> QED
        BY <2>4, Zenon DEF DiskInv
<1> QED
    BY <1>2, <1>3, Zenon DEF DiskInv

(* ReadSector or WriteSector is called.                                    *)
LEMMA CallKeeps ==
    ASSUME DInv, NEW t \in Clients, CallSynchDisk(t)
    PROVE  DInv'
<1>0. TypeInv /\ TimeInv /\ DueInv /\ DiskInv /\ EchoInv
    BY Zenon DEF DInv
<1>1. /\ cpu = "IntOn" /\ pc[t] = "code" /\ pc' = [pc EXCEPT ![t] = "lock->Acquire"]
      /\ UNCHANGED <<cpu, value, pending>> /\ UNCHANGED diskVars /\ UNCHANGED consoleVars
    BY Zenon DEF CallSynchDisk, At, semVars
<1>2. PICK sector \in Sectors, writing \in BOOLEAN :
         wants' = [wants EXCEPT ![t] = [sector |-> sector, writing |-> writing]]
    BY Zenon DEF CallSynchDisk
<1>3. Moves(t, "lock->Acquire")
    BY <1>0, <1>1, MovesTo, Names, LabelNames, Zenon
<1>4. wants' \in [Clients -> [sector : Sectors, writing : BOOLEAN]]
    BY <1>0, <1>2 DEF TypeInv
<1>5. TypeInv'
    BY <1>0, <1>1, <1>3, <1>4, Zenon DEF TypeInv, diskVars, consoleVars, Moves, Threads
<1>6. TimeInv'
    BY <1>0, <1>1, TimeUnchanged, Zenon DEF diskVars, consoleVars
<1>7. DueInv'
    BY <1>0, <1>1, Zenon DEF DueInv
<1>8. DiskInv'
    BY <1>0, <1>1, <1>3, OutsideMoves, LabelNames, Zenon DEF diskVars
<1>9. EchoInv'
    BY <1>0, <1>1, <1>3, EchoUnchanged, Names, Zenon DEF Moves
<1> QED
    BY <1>5, <1>6, <1>7, <1>8, <1>9, Zenon DEF DInv

(* A client ends.                                                          *)
LEMMA FinishKeeps ==
    ASSUME DInv, NEW t \in Clients, Finish(t)
    PROVE  DInv'
<1>0. TypeInv /\ TimeInv /\ DueInv /\ DiskInv /\ EchoInv
    BY Zenon DEF DInv
<1>1. /\ cpu = "IntOn" /\ pc[t] = "code" /\ pc' = [pc EXCEPT ![t] = "finished"]
      /\ UNCHANGED <<value, pending, wants>> /\ UNCHANGED diskVars /\ UNCHANGED consoleVars
    BY Zenon DEF Finish, At, semVars
<1>2. "finished" \in Labels /\ "finished" \notin Inside /\ "code" \notin Inside
    BY LabelNames, Zenon
<1>3. Moves(t, "finished")
    BY <1>0, <1>1, <1>2, MovesTo, Names, Zenon
<1>5. TypeInv'
    BY <1>0, <1>1, <1>3, Zenon DEF TypeInv, diskVars, consoleVars, Moves, Threads
<1>6. TimeInv'
    BY <1>0, <1>1, TimeUnchanged, Zenon DEF diskVars, consoleVars
<1>7. DueInv'
    <2>1. NotDue(pending)
        BY <1>0, <1>1, Zenon DEF DueInv
    <2> QED
        BY <1>1, <2>1, Zenon DEF DueInv
<1>8. DiskInv'
    BY <1>0, <1>1, <1>2, <1>3, OutsideMoves, Zenon DEF diskVars
<1>9. EchoInv'
    BY <1>0, <1>1, <1>3, EchoUnchanged, Names, Zenon DEF Moves
<1> QED
    BY <1>5, <1>6, <1>7, <1>8, <1>9, Zenon DEF DInv

(* A client takes the lock: DiskFree becomes DiskHeld.                     *)
LEMMA AcquireKeeps ==
    ASSUME DInv, NEW t \in Clients, Acquire(t)
    PROVE  DInv'
<1>0. TypeInv /\ TimeInv /\ DueInv /\ DiskInv /\ EchoInv
    BY Zenon DEF DInv
<1>1. /\ cpu = "IntOn" /\ pc[t] = "lock->Acquire" /\ P(t, "lock", "request")
      /\ UNCHANGED wants /\ UNCHANGED consoleVars
    BY Zenon DEF Acquire, At
<1>2. "request" \in Labels /\ "request" \in Inside /\ "lock->Acquire" \notin Inside
    BY LabelNames, Zenon
<1>3. /\ TimeInv' /\ DueInv' /\ UNCHANGED <<active, lastSector>>
      /\ \/ value["lock"] > 0 /\ Becomes("lock", value["lock"] - 1) /\ Moves(t, "request")
         \/ UNCHANGED <<value, pc>>
    BY <1>0, <1>1, <1>2, PStep, Names, Zenon DEF consoleVars
<1>4. CASE value["lock"] > 0 /\ Becomes("lock", value["lock"] - 1) /\ Moves(t, "request")
    <2>1. DiskFree
        BY <1>0, <1>4 DEF DiskInv, DiskHeld
    <2>2. Becomes("lock", 0)
        BY <1>4, <2>1 DEF DiskFree
    <2>3. TypeInv'
        BY <1>0, <1>1, <1>2, <1>3, <1>4, <2>2, TypeKeeps, Names, 0 \in Nat, Zenon
    <2>4. value'["lock"] = 0 /\ value'["disk"] = 0 /\ active' = active /\ ~active
        BY <1>3, <2>1, <2>2, Names, Zenon DEF Becomes, DiskFree
    <2>5. \A u \in Clients : pc'[u] \in Inside <=> u = t
        BY <1>2, <1>4, <2>1, Names, Zenon DEF Moves, DiskFree
    <2>6. pc'[t] = "request"
        BY <1>4, Zenon DEF Moves
    <2>7. DiskHeld(t)'
        BY <2>4, <2>5, <2>6 DEF DiskHeld
    <2>8. DiskInv'
        BY <2>7, Zenon DEF DiskInv
    <2>9. EchoInv'
        BY <1>0, <1>1, <1>4, <2>2, EchoUnchanged, Names, Zenon DEF Moves, Becomes
    <2> QED
        BY <1>3, <2>3, <2>8, <2>9, Zenon DEF DInv
<1>5. CASE UNCHANGED <<value, pc>>
    <2>1. TypeInv'
        BY <1>0, <1>1, <1>3, <1>5, TypeKeeps, Zenon
    <2>2. DiskInv'
        BY <1>0, <1>3, <1>5, DiskUnchanged, Zenon
    <2>3. EchoInv'
        BY <1>0, <1>1, <1>5, EchoUnchanged, Zenon
    <2> QED
        BY <1>3, <2>1, <2>2, <2>3, Zenon DEF DInv
<1> QED
    BY <1>3, <1>4, <1>5, Zenon

(* A request starts the track buffer again at the end of its seek, where a *)
(* sector begins, and its interrupt comes later.                           *)
LEMMA RequestHead ==
    ASSUME ~active, HeadAt(active, spin, bufferAge), lastSector \in Sectors,
           NEW sector \in Sectors, NEW writing \in BOOLEAN,
           NEW age, age = IF Seek(sector) = 0 THEN bufferAge ELSE -(Seek(sector) + Rotation(sector))
    PROVE  /\ HeadAt(TRUE, spin, age)
           /\ age \in Int /\ age + ComputeLatency(sector, writing) >= 0
           /\ ComputeLatency(sector, writing) \in Nat \ {0}
<1>0. /\ RotationTime \in Nat \ {0} /\ Turn \in Nat \ {0}
      /\ spin \in 0..(Turn - 1) /\ bufferAge \in Int /\ bufferAge >= 0 /\ bufferAge <= Turn
      /\ bufferAge < Turn => (spin - bufferAge) % RotationTime = 0
    BY Constants, TurnType DEF HeadAt
<1>1. Seek(sector) \in Nat /\ sector \in Int /\ spin \in Int
    BY <1>0, SeekType
<1>2. PICK latency : latency = ComputeLatency(sector, writing)
    BY Zenon
<1>3. latency \in Nat \ {0} /\ (Seek(sector) # 0 => latency >= Seek(sector) + Rotation(sector))
    BY <1>1, <1>2, LatencyType, Zenon
<1>4. CASE Seek(sector) = 0
    <2>1. age = bufferAge
        BY <1>4
    <2> QED
        BY <1>0, <1>2, <1>3, <2>1 DEF HeadAt
<1>5. CASE Seek(sector) # 0
    <2>1. age = -(Seek(sector) + Rotation(sector))
        BY <1>5
    <2>2. Rotation(sector) \in 0..(RotationTime - 1)
        BY <1>1, RotationAligns, Zenon
    <2>3. PICK k \in Int : spin + Seek(sector) + Rotation(sector) = RotationTime * k
        BY <1>1, RotationAligns, Zenon
    <2>4. (RotationTime * k) % RotationTime = 0
        BY <1>0, IsMultiple, Zenon
    <2>5. spin - age = spin + Seek(sector) + Rotation(sector)
        BY <1>0, <1>1, <2>1, <2>2
    <2>6. (spin - age) % RotationTime = 0
        BY <2>3, <2>4, <2>5, Zenon
    <2>7. age \in Int /\ age <= Turn /\ age + latency >= 0
        BY <1>0, <1>1, <1>3, <1>5, <2>1, <2>2
    <2> QED
        BY <1>0, <1>2, <1>3, <2>6, <2>7, Zenon DEF HeadAt
<1> QED
    BY <1>4, <1>5, Zenon

(* A client that holds the lock makes its request: the disk is idle.       *)
LEMMA RequestKeeps ==
    ASSUME DInv, NEW t \in Clients, Request(t)
    PROVE  DInv'
<1>0. TypeInv /\ TimeInv /\ DueInv /\ DiskInv /\ EchoInv
    BY Zenon DEF DInv
<1>1. PICK sector, writing : sector = wants[t].sector /\ writing = wants[t].writing
    BY Zenon
<1>2. sector \in Sectors /\ writing \in BOOLEAN
    BY <1>0, <1>1 DEF TypeInv
<1>3. PICK latency : latency = ComputeLatency(sector, writing)
    BY Zenon
<1>4. /\ cpu = "IntOn" /\ cpu' = cpu /\ pc[t] = "request" /\ pc' = [pc EXCEPT ![t] = "semaphore->P"]
      /\ pending' = Schedule(pending, "Disk", latency) /\ active' = TRUE
      /\ UNCHANGED <<value, wants, spin>> /\ UNCHANGED consoleVars
      /\ lastSector' = sector
      /\ bufferAge' = IF Seek(sector) = 0 THEN bufferAge ELSE -(Seek(sector) + Rotation(sector))
    BY <1>1, <1>3, Zenon DEF Request, At, semVars, UpdateLast
<1>5. "semaphore->P" \in Labels /\ "semaphore->P" \in Inside /\ "request" \in Inside
      /\ "request" # "semaphore->P"
    BY LabelNames, Zenon
<1>6. Moves(t, "semaphore->P")
    BY <1>0, <1>4, <1>5, MovesTo, Names, Zenon
<1>7. ~active /\ DiskHeld(t)
    <2>1. PICK h \in Clients : DiskHeld(h)
        BY <1>0, <1>4, <1>5, Zenon DEF DiskInv, DiskFree
    <2>2. h = t
        BY <1>4, <1>5, <2>1, Zenon DEF DiskHeld
    <2> QED
        BY <1>4, <1>5, <2>1, <2>2, Zenon DEF DiskHeld
<1>8. /\ HeadAt(TRUE, spin, bufferAge')
      /\ bufferAge' \in Int /\ bufferAge' + latency >= 0
      /\ latency \in Nat \ {0}
    <2>1. PICK age : age = bufferAge'
        BY Zenon
    <2>2. /\ HeadAt(TRUE, spin, age)
          /\ age \in Int /\ age + latency >= 0
          /\ latency \in Nat \ {0}
        BY <1>0, <1>2, <1>3, <1>4, <1>7, <2>1, RequestHead, Zenon DEF TypeInv, TimeInv
    <2> QED
        BY <2>1, <2>2, Zenon
<1>9. latency \in Int /\ latency > 0 /\ "Disk" \in Types /\ "Disk" # "ConsoleWrite"
    BY <1>8 DEF Types
<1>10. /\ Listed(pending, active, putBusy) /\ active \in BOOLEAN /\ putBusy \in BOOLEAN
    BY <1>0, Zenon DEF TimeInv, TypeInv
<1>11. Listed(pending', TRUE, putBusy)
    <2>1. Listed(pending', active \/ "Disk" = "Disk", putBusy \/ "Disk" = "ConsoleWrite")
        BY <1>4, <1>7, <1>9, <1>10, ScheduleListed, Zenon
    <2> QED
        BY <1>9, <1>10, <2>1, Zenon DEF Listed
<1>12. AfterSeek(pending', bufferAge')
    <2>1. PICK age : age = bufferAge'
        BY Zenon
    <2>2. AfterSeek(pending, age)
        BY <1>7, <1>10, Zenon DEF AfterSeek, Listed, Has
    <2>3. AfterSeek(Schedule(pending, "Disk", latency), age)
        BY <1>8, <1>9, <1>10, <2>1, <2>2, ScheduleAfterSeek, Zenon
    <2> QED
        BY <1>4, <2>1, <2>3, Zenon
<1>13. TimeInv'
    BY <1>4, <1>8, <1>11, <1>12, Zenon DEF TimeInv, consoleVars
<1>14. DueInv'
    <2>1. NotDue(pending)
        BY <1>0, <1>4, Zenon DEF DueInv
    <2>2. NotDue(pending')
        BY <1>4, <1>9, <1>10, <2>1, ScheduleNotDue, Zenon
    <2> QED
        BY <2>2, Zenon DEF DueInv
<1>15. TypeInv'
    BY <1>0, <1>2, <1>4, <1>6, Zenon DEF TypeInv, consoleVars, Moves, Threads
<1>16. DiskInv'
    <2>1. value["lock"] = 0 /\ value["disk"] = 0 /\ \A u \in Clients : pc[u] \in Inside <=> u = t
        BY <1>4, <1>5, <1>7, Zenon DEF DiskHeld
    <2>2. pc'[t] = "semaphore->P" /\ \A u \in Clients : pc'[u] \in Inside <=> u = t
        BY <1>5, <1>6, <2>1, Names, Zenon DEF Moves
    <2>3. DiskHeld(t)'
        BY <1>4, <2>1, <2>2, Zenon DEF DiskHeld
    <2> QED
        BY <2>3, Zenon DEF DiskInv
<1>17. EchoInv'
    BY <1>0, <1>4, <1>6, EchoUnchanged, Names, Zenon DEF Moves
<1> QED
    BY <1>13, <1>14, <1>15, <1>16, <1>17, Zenon DEF DInv

(* A client takes the answer to its request.                               *)
LEMMA WaitForDiskKeeps ==
    ASSUME DInv, NEW t \in Clients, WaitForDisk(t)
    PROVE  DInv'
<1>0. TypeInv /\ TimeInv /\ DueInv /\ DiskInv /\ EchoInv
    BY Zenon DEF DInv
<1>1. /\ cpu = "IntOn" /\ pc[t] = "semaphore->P" /\ P(t, "disk", "lock->Release")
      /\ UNCHANGED wants /\ UNCHANGED consoleVars
    BY Zenon DEF WaitForDisk, At
<1>2. "lock->Release" \in Labels /\ "lock->Release" \in Inside /\ "semaphore->P" \in Inside
      /\ "semaphore->P" # "lock->Release"
    BY LabelNames, Zenon
<1>3. /\ TimeInv' /\ DueInv' /\ UNCHANGED <<active, lastSector>>
      /\ \/ value["disk"] > 0 /\ Becomes("disk", value["disk"] - 1) /\ Moves(t, "lock->Release")
         \/ UNCHANGED <<value, pc>>
    BY <1>0, <1>1, <1>2, PStep, Names, Zenon DEF consoleVars
<1>4. CASE value["disk"] > 0 /\ Becomes("disk", value["disk"] - 1) /\ Moves(t, "lock->Release")
    <2>1. DiskHeld(t)
        <3>1. PICK h \in Clients : DiskHeld(h)
            BY <1>0, <1>1, <1>2, Zenon DEF DiskInv, DiskFree
        <3> QED
            BY <1>1, <1>2, <3>1, Zenon DEF DiskHeld
    <2>2. ~active /\ value["disk"] = 1 /\ value["lock"] = 0
        BY <1>1, <1>4, <2>1 DEF DiskHeld
    <2>3. Becomes("disk", 0)
        BY <1>4, <2>2
    <2>4. TypeInv'
        BY <1>0, <1>1, <1>2, <1>3, <1>4, <2>3, TypeKeeps, Names, 0 \in Nat, Zenon
    <2>5. value'["lock"] = 0 /\ value'["disk"] = 0 /\ active' = active /\ ~active
        BY <1>3, <2>2, <2>3, Names, Zenon DEF Becomes
    <2>6. pc'[t] = "lock->Release" /\ \A u \in Clients : pc'[u] \in Inside <=> u = t
        BY <1>2, <1>4, <2>1, Names, Zenon DEF Moves, DiskHeld
    <2>7. DiskHeld(t)'
        BY <2>5, <2>6 DEF DiskHeld
    <2>8. DiskInv'
        BY <2>7, Zenon DEF DiskInv
    <2>9. EchoInv'
        BY <1>0, <1>1, <1>4, <2>3, EchoUnchanged, Names, Zenon DEF Moves, Becomes
    <2> QED
        BY <1>3, <2>4, <2>8, <2>9, Zenon DEF DInv
<1>5. CASE UNCHANGED <<value, pc>>
    <2>1. TypeInv'
        BY <1>0, <1>1, <1>3, <1>5, TypeKeeps, Zenon
    <2>2. DiskInv'
        BY <1>0, <1>3, <1>5, DiskUnchanged, Zenon
    <2>3. EchoInv'
        BY <1>0, <1>1, <1>5, EchoUnchanged, Zenon
    <2> QED
        BY <1>3, <2>1, <2>2, <2>3, Zenon DEF DInv
<1> QED
    BY <1>3, <1>4, <1>5, Zenon

(* A client gives the lock back: DiskHeld becomes DiskFree.                *)
LEMMA ReleaseKeeps ==
    ASSUME DInv, NEW t \in Clients, Release(t)
    PROVE  DInv'
<1>0. TypeInv /\ TimeInv /\ DueInv /\ DiskInv /\ EchoInv
    BY Zenon DEF DInv
<1>1. /\ pc[t] = "lock->Release" /\ V("lock") /\ OneTick /\ pc' = [pc EXCEPT ![t] = "code"]
      /\ UNCHANGED <<wants, active, lastSector>> /\ UNCHANGED consoleVars
    BY Zenon DEF Release, At, SetLevelOn
<1>2. "lock->Release" \in Inside /\ "code" \notin Inside /\ "code" \in Labels
      /\ "semaphore->P" # "lock->Release"
    BY LabelNames, Zenon
<1>3. Moves(t, "code")
    BY <1>0, <1>1, <1>2, MovesTo, Names, Zenon
<1>4. TimeInv' /\ DueInv'
    BY <1>0, <1>1, OneTickKeeps, Zenon DEF consoleVars
<1>5. DiskHeld(t)
    <2>1. PICK h \in Clients : DiskHeld(h)
        BY <1>0, <1>1, <1>2, Zenon DEF DiskInv, DiskFree
    <2> QED
        BY <1>1, <1>2, <2>1, Zenon DEF DiskHeld
<1>6. ~active /\ value["disk"] = 0 /\ value["lock"] = 0
    BY <1>1, <1>2, <1>5, Zenon DEF DiskHeld
<1>7. Becomes("lock", 1)
    <2>1. Becomes("lock", value["lock"] + 1)
        BY <1>0, <1>1, VStep, Names, Zenon
    <2> QED
        BY <1>6, <2>1
<1>8. TypeInv'
    BY <1>0, <1>1, <1>2, <1>3, <1>7, TypeKeeps, Names, 1 \in Nat, Zenon
<1>9. DiskInv'
    <2>1. value'["lock"] = 1 /\ value'["disk"] = 0 /\ active' = active /\ ~active
        BY <1>1, <1>6, <1>7, Names, Zenon DEF Becomes
    <2>2. \A u \in Clients : pc'[u] \notin Inside
        BY <1>2, <1>3, <1>5, Names, Zenon DEF Moves, DiskHeld
    <2> QED
        BY <2>1, <2>2, Zenon DEF DiskInv, DiskFree
<1>10. EchoInv'
    BY <1>0, <1>1, <1>3, <1>7, EchoUnchanged, Names, Zenon DEF Moves, Becomes
<1> QED
    BY <1>4, <1>8, <1>9, <1>10, Zenon DEF DInv

-----------------------------------------------------------------------------
(* The steps of ConsoleTest.                                               *)

(* A queue with a character in front.                                      *)
LEMMA InFront ==
    ASSUME NEW S, NEW c \in S, NEW s \in Seq(S)
    PROVE  <<c>> \o s # <<>> /\ Head(<<c>> \o s) = c /\ Tail(<<c>> \o s) = s
<1>0. <<c>> \in Seq(S) /\ Len(<<c>>) = 1 /\ <<c>>[1] = c
    OBVIOUS
<1>1. PICK a : a = <<c>>
    BY Zenon
<1>2. a \in Seq(S) /\ Len(a) = 1 /\ a[1] = c
    BY <1>0, <1>1, Zenon
<1>3. PICK d : d = a \o s
    BY Zenon
<1>a. /\ d \in Seq(S) /\ Len(d) = Len(a) + Len(s)
      /\ \A i \in 1..Len(a) : d[i] = a[i]
      /\ \A i \in (Len(a) + 1)..(Len(a) + Len(s)) : d[i] = s[i - Len(a)]
    BY <1>2, <1>3, InARow, Zenon
<1>4. /\ d \in Seq(S) /\ Len(d) = 1 + Len(s) /\ d[1] = c
      /\ \A i \in 2..(1 + Len(s)) : d[i] = s[i - 1]
    BY <1>2, <1>a
<1>5. d # <<>> /\ Head(d) = c
    BY <1>4
<1>6. Tail(d) = s
    <2>1. Tail(d) \in Seq(S) /\ Len(Tail(d)) = Len(s)
        BY <1>4
    <2>2. \A i \in 1..Len(s) : Tail(d)[i] = s[i]
        <3>1. \A i \in 1..Len(s) : Tail(d)[i] = d[i + 1]
            BY <1>4
        <3>2. \A i \in 1..Len(s) : i + 1 \in 2..(1 + Len(s)) /\ (i + 1) - 1 = i
            OBVIOUS
        <3> QED
            BY <1>4, <3>1, <3>2
    <2> QED
        BY <2>1, <2>2
<1> QED
    BY <1>1, <1>3, <1>5, <1>6

(* The queue of what is owed, in its two forms.                            *)
Owed(c, s) == (IF c = "EOF" THEN <<>> ELSE <<c>>) \o s

Characters == Chars \cup {"q", "EOF"}

(* Nothing is in the console's buffer.                                     *)
LEMMA OwedEmpty ==
    ASSUME NEW s \in Seq(Characters)
    PROVE  Owed("EOF", s) = s
BY DEF Owed

(* A character is.                                                         *)
LEMMA OwedFull ==
    ASSUME NEW c \in Characters, c # "EOF", NEW s \in Seq(Characters)
    PROVE  Owed(c, s) # <<>> /\ Head(Owed(c, s)) = c /\ Tail(Owed(c, s)) = s
BY InFront, Zenon DEF Owed

(* The console reads a character.                                          *)
LEMMA OwedRead ==
    ASSUME NEW s \in Seq(Chars \cup {"q"}), s # <<>>
    PROVE  /\ Head(s) \in Chars \cup {"q"} /\ Head(s) # "EOF" /\ Tail(s) \in Seq(Chars \cup {"q"})
           /\ Owed(Head(s), Tail(s)) = s
<1>1. Head(s) \in Chars \cup {"q"} /\ Tail(s) \in Seq(Chars \cup {"q"})
    OBVIOUS
<1>2. Head(s) # "EOF"
    BY <1>1, DevicesAssumption
<1>3. s = <<Head(s)>> \o Tail(s)
    OBVIOUS
<1> QED
    BY <1>1, <1>2, <1>3, Zenon DEF Owed

(* A character is typed.                                                   *)
LEMMA OwedType ==
    ASSUME NEW c \in Characters, NEW s \in Seq(Characters), NEW d \in Characters
    PROVE  Append(Owed(c, s), d) = Owed(c, Append(s, d))
<1>1. CASE c = "EOF"
    BY <1>1 DEF Owed
<1>2. CASE c # "EOF"
    <2>1. Append(<<c>> \o s, d) = <<c>> \o Append(s, d)
        OBVIOUS
    <2> QED
        BY <1>2, <2>1 DEF Owed
<1> QED
    BY <1>1, <1>2

(* The characters.                                                         *)
LEMMA CharTypes ==
    ASSUME TypeInv
    PROVE  typed \in Seq(Characters) /\ incoming \in Characters
<1>1. Chars \cup {"q"} \subseteq Characters
    BY DEF Characters
<1>2. \A S, T : S \subseteq T => Seq(S) \subseteq Seq(T)
    OBVIOUS
<1> QED
    BY <1>1, <1>2, Zenon DEF TypeInv, Characters

(* ConsoleTest takes the unit that stands for a character.                 *)
LEMMA WaitForCharKeeps ==
    ASSUME DInv, WaitForChar
    PROVE  DInv'
<1>0. TypeInv /\ TimeInv /\ DueInv /\ DiskInv /\ EchoInv
    BY Zenon DEF DInv
<1>1. /\ cpu = "IntOn" /\ pc[Echo] = "readAvail->P" /\ P(Echo, "readAvail", "GetChar")
      /\ UNCHANGED wants /\ UNCHANGED consoleVars
    BY Zenon DEF WaitForChar, At
<1>2. "GetChar" \in Labels /\ "GetChar" \notin Waiting /\ "readAvail->P" \notin Waiting
      /\ "readAvail->P" # "GetChar"
    BY LabelNames, Zenon
<1>3. /\ TimeInv' /\ DueInv' /\ UNCHANGED <<active, lastSector>>
      /\ \/ value["readAvail"] > 0 /\ Becomes("readAvail", value["readAvail"] - 1)
                                   /\ Moves(Echo, "GetChar")
         \/ UNCHANGED <<value, pc>>
    BY <1>0, <1>1, <1>2, PStep, Names, Zenon DEF consoleVars
<1>4. CASE value["readAvail"] > 0 /\ Becomes("readAvail", value["readAvail"] - 1) /\ Moves(Echo, "GetChar")
    <2>0. value["readAvail"] \in Nat /\ value["writeDone"] \in Nat
        BY <1>0, Names DEF TypeInv
    <2>1. value["readAvail"] = 1 /\ incoming # "EOF"
        BY <1>0, <1>1, <1>2, <1>4, <2>0 DEF EchoInv
    <2>2. Becomes("readAvail", 0)
        BY <1>4, <2>1
    <2>3. TypeInv'
        BY <1>0, <1>1, <1>2, <1>3, <1>4, <2>2, TypeKeeps, Names, 0 \in Nat, Zenon
    <2>4. DiskInv'
        BY <1>0, <1>3, <1>4, <2>2, DiskUnchanged, Names, Zenon DEF Moves, Becomes
    <2>5. /\ value'["readAvail"] = 0 /\ value'["writeDone"] = value["writeDone"]
          /\ pc'[Echo] = "GetChar" /\ UNCHANGED <<owed, incoming, typed, putBusy>>
        BY <1>1, <1>4, <2>2, Names, Zenon DEF Becomes, Moves, consoleVars
    <2>6. EchoInv'
        <3>1. (owed = (IF incoming = "EOF" THEN <<>> ELSE <<incoming>>) \o typed)'
            BY <1>0, <2>5, Zenon DEF EchoInv
        <3>2. (value["readAvail"] + (IF pc[Echo] = "GetChar" THEN 1 ELSE 0)
                  = IF incoming # "EOF" THEN 1 ELSE 0)'
            BY <2>1, <2>5
        <3>3. ((IF putBusy THEN 1 ELSE 0) + value["writeDone"] = IF pc[Echo] \in Waiting THEN 1 ELSE 0)'
            BY <1>0, <1>1, <1>2, <2>5, Zenon DEF EchoInv
        <3> QED
            BY <3>1, <3>2, <3>3, Zenon DEF EchoInv
    <2> QED
        BY <1>3, <2>3, <2>4, <2>6, Zenon DEF DInv
<1>5. CASE UNCHANGED <<value, pc>>
    <2>1. TypeInv'
        BY <1>0, <1>1, <1>3, <1>5, TypeKeeps, Zenon
    <2>2. DiskInv'
        BY <1>0, <1>3, <1>5, DiskUnchanged, Zenon
    <2>3. EchoInv'
        BY <1>0, <1>1, <1>5, EchoUnchanged, Zenon
    <2> QED
        BY <1>3, <2>1, <2>2, <2>3, Zenon DEF DInv
<1> QED
    BY <1>3, <1>4, <1>5, Zenon

(* ConsoleTest waits for the display, to go on or to halt.                 *)
LEMMA WaitForWriteTo ==
    ASSUME DInv, NEW label \in Waiting, NEW next \in {"readAvail->P", "Halt"},
           cpu = "IntOn", pc[Echo] = label, P(Echo, "writeDone", next),
           UNCHANGED wants, UNCHANGED consoleVars
    PROVE  DInv'
<1>0. TypeInv /\ TimeInv /\ DueInv /\ DiskInv /\ EchoInv
    BY Zenon DEF DInv
<1>2. next \in Labels /\ next \notin Waiting /\ next # "GetChar" /\ label # "GetChar"
    BY LabelNames, Zenon DEF Waiting
<1>3. /\ TimeInv' /\ DueInv' /\ UNCHANGED <<active, lastSector>>
      /\ \/ value["writeDone"] > 0 /\ Becomes("writeDone", value["writeDone"] - 1)
                                   /\ Moves(Echo, next)
         \/ UNCHANGED <<value, pc>>
    BY <1>0, <1>2, PStep, Names, Zenon DEF consoleVars
<1>4. CASE value["writeDone"] > 0 /\ Becomes("writeDone", value["writeDone"] - 1) /\ Moves(Echo, next)
    <2>0. value["readAvail"] \in Nat /\ value["writeDone"] \in Nat
        BY <1>0, Names DEF TypeInv
    <2>1. value["writeDone"] = 1 /\ ~putBusy
        BY <1>0, <1>2, <1>4, <2>0 DEF EchoInv
    <2>2. Becomes("writeDone", 0)
        BY <1>4, <2>1
    <2>3. TypeInv'
        BY <1>0, <1>2, <1>3, <1>4, <2>2, TypeKeeps, Names, 0 \in Nat, Zenon
    <2>4. DiskInv'
        BY <1>0, <1>3, <1>4, <2>2, DiskUnchanged, Names, Zenon DEF Moves, Becomes
    <2>5. /\ value'["writeDone"] = 0 /\ value'["readAvail"] = value["readAvail"]
          /\ pc'[Echo] = next /\ UNCHANGED <<owed, incoming, typed, putBusy>>
        BY <1>4, <2>2, Names, Zenon DEF Becomes, Moves, consoleVars
    <2>6. EchoInv'
        <3>1. (owed = (IF incoming = "EOF" THEN <<>> ELSE <<incoming>>) \o typed)'
            BY <1>0, <2>5, Zenon DEF EchoInv
        <3>2. (value["readAvail"] + (IF pc[Echo] = "GetChar" THEN 1 ELSE 0)
                  = IF incoming # "EOF" THEN 1 ELSE 0)'
            BY <1>0, <1>2, <2>5, Zenon DEF EchoInv
        <3>3. ((IF putBusy THEN 1 ELSE 0) + value["writeDone"] = IF pc[Echo] \in Waiting THEN 1 ELSE 0)'
            BY <1>2, <2>1, <2>5
        <3> QED
            BY <3>1, <3>2, <3>3, Zenon DEF EchoInv
    <2> QED
        BY <1>3, <2>3, <2>4, <2>6, Zenon DEF DInv
<1>5. CASE UNCHANGED <<value, pc>>
    <2>1. TypeInv'
        BY <1>0, <1>3, <1>5, TypeKeeps, Zenon
    <2>2. DiskInv'
        BY <1>0, <1>3, <1>5, DiskUnchanged, Zenon
    <2>3. EchoInv'
        BY <1>0, <1>5, EchoUnchanged, Zenon
    <2> QED
        BY <1>3, <2>1, <2>2, <2>3, Zenon DEF DInv
<1> QED
    BY <1>3, <1>4, <1>5, Zenon

(* The two waits for the display.                                          *)
LEMMA WaitForWriteKeeps ==
    ASSUME DInv, WaitForWrite
    PROVE  DInv'
<1>1. UNCHANGED wants /\ UNCHANGED consoleVars
    BY Zenon DEF WaitForWrite
<1>2. "writeDone->P" \in Waiting /\ "last writeDone->P" \in Waiting
    BY LabelNames, Zenon
<1>a. "readAvail->P" \in {"readAvail->P", "Halt"} /\ "Halt" \in {"readAvail->P", "Halt"}
    BY Zenon
<1>3. CASE At(Echo, "writeDone->P") /\ P(Echo, "writeDone", "readAvail->P")
    BY <1>1, <1>2, <1>3, WaitForWriteTo, <1>a, Zenon DEF At
<1>4. CASE At(Echo, "last writeDone->P") /\ P(Echo, "writeDone", "Halt")
    BY <1>1, <1>2, <1>4, WaitForWriteTo, <1>a, Zenon DEF At
<1> QED
    BY <1>3, <1>4, Zenon DEF WaitForWrite

(* ConsoleTest takes the character and puts it: it is there, it is what is *)
(* owed next, and the display is ready.                                    *)
LEMMA GetAndPutKeeps ==
    ASSUME DInv, GetAndPutChar
    PROVE  DInv'
<1>0. TypeInv /\ TimeInv /\ DueInv /\ DiskInv /\ EchoInv
    BY Zenon DEF DInv
<1>1. PICK next : next = IF incoming = "q" THEN "last writeDone->P" ELSE "writeDone->P"
    BY Zenon
<1>2. /\ cpu = "IntOn" /\ cpu' = cpu /\ pc[Echo] = "GetChar" /\ pc' = [pc EXCEPT ![Echo] = next]
      /\ incoming' = "EOF" /\ putBusy' = TRUE /\ typed' = typed
      /\ owed' = IF owed # <<>> /\ Head(owed) = incoming THEN Tail(owed) ELSE <<"wrong">>
      /\ pending' = Schedule(pending, "ConsoleWrite", ConsoleTime)
      /\ UNCHANGED <<value, wants>> /\ UNCHANGED diskVars
    BY <1>1, Zenon DEF GetAndPutChar, At, semVars
<1>3. next \in Labels /\ next \in Waiting /\ next # "GetChar" /\ "GetChar" \notin Waiting
    BY <1>1, LabelNames, Zenon DEF Waiting, Labels
<1>4. Moves(Echo, next)
    BY <1>0, <1>2, <1>3, MovesTo, Names, Zenon
<1>5. value["readAvail"] \in Nat /\ value["writeDone"] \in Nat
    BY <1>0, Names DEF TypeInv
<1>6. incoming # "EOF" /\ value["readAvail"] = 0
    BY <1>0, <1>2, <1>5 DEF EchoInv
<1>7. ~putBusy /\ value["writeDone"] = 0
    BY <1>0, <1>2, <1>3, <1>5 DEF EchoInv
<1>8. owed' = typed
    <2>1. typed \in Seq(Characters) /\ incoming \in Characters
        BY <1>0, CharTypes, Zenon
    <2>2. owed = Owed(incoming, typed)
        BY <1>0, Zenon DEF EchoInv, Owed
    <2>3. owed # <<>> /\ Head(owed) = incoming /\ Tail(owed) = typed
        BY <1>6, <2>1, <2>2, OwedFull, Zenon
    <2> QED
        BY <1>2, <2>3, Zenon
<1>9. EchoInv'
    <2>1. typed \in Seq(Characters)
        BY <1>0, CharTypes, Zenon
    <2>2. Owed("EOF", typed) = typed
        BY <2>1, OwedEmpty, Zenon
    <2>3. (owed = (IF incoming = "EOF" THEN <<>> ELSE <<incoming>>) \o typed)'
        BY <1>2, <1>8, <2>2, Zenon DEF Owed
    <2>4. pc'[Echo] = next
        BY <1>4, Zenon DEF Moves
    <2>5. (value["readAvail"] + (IF pc[Echo] = "GetChar" THEN 1 ELSE 0)
              = IF incoming # "EOF" THEN 1 ELSE 0)'
        BY <1>2, <1>3, <1>6, <2>4
    <2>6. ((IF putBusy THEN 1 ELSE 0) + value["writeDone"] = IF pc[Echo] \in Waiting THEN 1 ELSE 0)'
        BY <1>2, <1>3, <1>7, <2>4
    <2> QED
        BY <2>3, <2>5, <2>6, Zenon DEF EchoInv
<1>10. /\ Listed(pending, active, putBusy) /\ active \in BOOLEAN /\ putBusy \in BOOLEAN
       /\ HeadAt(active, spin, bufferAge) /\ AfterSeek(pending, bufferAge)
    BY <1>0, Zenon DEF TimeInv, TypeInv
<1>11. /\ ConsoleTime \in Int /\ ConsoleTime > 0 /\ "ConsoleWrite" \in Types /\ bufferAge \in Int
       /\ "ConsoleWrite" # "Disk"
    BY <1>10, Constants DEF Types, HeadAt
<1>12. TimeInv'
    <2>1. Listed(pending', active \/ "ConsoleWrite" = "Disk", putBusy \/ "ConsoleWrite" = "ConsoleWrite")
        BY <1>2, <1>7, <1>10, <1>11, ScheduleListed, Zenon
    <2>2. Listed(pending', active, TRUE)
        BY <1>10, <1>11, <2>1, Zenon DEF Listed
    <2>3. AfterSeek(pending', bufferAge)
        BY <1>2, <1>10, <1>11, ScheduleAfterSeek, Zenon
    <2> QED
        BY <1>2, <1>10, <2>2, <2>3, Zenon DEF TimeInv, diskVars
<1>13. DueInv'
    <2>1. NotDue(pending)
        BY <1>0, <1>2, Zenon DEF DueInv
    <2>2. NotDue(pending')
        BY <1>2, <1>10, <1>11, <2>1, ScheduleNotDue, Zenon
    <2> QED
        BY <2>2, Zenon DEF DueInv
<1>14. TypeInv'
    BY <1>0, <1>2, <1>4, Zenon DEF TypeInv, diskVars, Moves, Threads
<1>15. DiskInv'
    BY <1>0, <1>2, <1>4, DiskUnchanged, Names, Zenon DEF Moves, diskVars
<1> QED
    BY <1>9, <1>12, <1>13, <1>14, <1>15, Zenon DEF DInv

(* The machine stops: nothing moves.                                       *)
LEMMA HaltedKeeps ==
    ASSUME DInv, cpu' = "Halted",
           UNCHANGED <<pc, wants, value, pending, diskVars, consoleVars>>
    PROVE  DInv'
<1>0. TypeInv /\ TimeInv /\ DueInv /\ DiskInv /\ EchoInv
    BY Zenon DEF DInv
<1>1. TypeInv'
    BY <1>0, Zenon DEF TypeInv, diskVars, consoleVars
<1>2. TimeInv'
    BY <1>0, TimeUnchanged, Zenon DEF diskVars, consoleVars
<1>3. DueInv'
    BY DEF DueInv
<1>4. DiskInv'
    BY <1>0, DiskUnchanged, Zenon DEF diskVars
<1>5. EchoInv'
    BY <1>0, EchoUnchanged, Zenon
<1> QED
    BY <1>1, <1>2, <1>3, <1>4, <1>5, Zenon DEF DInv

(* Somebody types: it is owed, behind what is owed already.                *)
LEMMA TypeKeepsInv ==
    ASSUME DInv, Type
    PROVE  DInv'
<1>0. TypeInv /\ TimeInv /\ DueInv /\ DiskInv /\ EchoInv
    BY Zenon DEF DInv
<1>1. PICK c \in Chars \cup {"q"} : typed' = Append(typed, c) /\ owed' = Append(owed, c)
    BY Zenon DEF Type
<1>2. UNCHANGED <<cpu, pc, wants, value, pending, incoming, putBusy>> /\ UNCHANGED diskVars
    BY Zenon DEF Type, semVars
<1>3. typed' \in Seq(Chars \cup {"q"})
    BY <1>0, <1>1 DEF TypeInv
<1>4. TypeInv'
    BY <1>0, <1>2, <1>3, Zenon DEF TypeInv, diskVars
<1>5. TimeInv'
    BY <1>0, <1>2, TimeUnchanged, Zenon DEF diskVars
<1>6. DueInv'
    BY <1>0, <1>2, Zenon DEF DueInv
<1>7. DiskInv'
    BY <1>0, <1>2, DiskUnchanged, Zenon DEF diskVars
<1>8. EchoInv'
    <2>1. typed \in Seq(Characters) /\ incoming \in Characters /\ c \in Characters
        BY <1>0, CharTypes, Zenon DEF Characters
    <2>2. owed = Owed(incoming, typed)
        BY <1>0, Zenon DEF EchoInv, Owed
    <2>3. owed' = Owed(incoming, typed')
        BY <1>1, <2>1, <2>2, OwedType, Zenon
    <2>4. (owed = (IF incoming = "EOF" THEN <<>> ELSE <<incoming>>) \o typed)'
        BY <1>2, <2>3, Zenon DEF Owed
    <2> QED
        BY <1>0, <1>2, <2>4, Zenon DEF EchoInv
<1> QED
    BY <1>4, <1>5, <1>6, <1>7, <1>8, Zenon DEF DInv

-----------------------------------------------------------------------------
(* The handlers.                                                           *)

(* CheckIfDue has taken an interrupt that is due from the list.            *)
Taken(type, rest) ==
    /\ pending # <<>> /\ Head(pending).in <= 0
    /\ type = Head(pending).type /\ rest = Tail(pending)

(* What is left of the list.                                               *)
LEMMA TakenRest ==
    ASSUME TypeInv, TimeInv, NEW type, NEW rest, Taken(type, rest)
    PROVE  /\ Listed(rest, active /\ type # "Disk", putBusy /\ type # "ConsoleWrite")
           /\ type = "Disk" => active
           /\ type = "ConsoleWrite" => putBusy
           /\ AfterSeek(rest, bufferAge)
           /\ type = "Disk" => bufferAge >= 0
<1>1. /\ pending # <<>> /\ type = Head(pending).type /\ rest = Tail(pending)
      /\ Listed(pending, active, putBusy) /\ active \in BOOLEAN /\ putBusy \in BOOLEAN
      /\ pending \in Seq(Item) /\ Sorted(pending)
    BY Zenon DEF Taken, TimeInv, TypeInv, Listed
<1>2. /\ Listed(rest, active /\ type # "Disk", putBusy /\ type # "ConsoleWrite")
      /\ type = "Disk" => active
      /\ type = "ConsoleWrite" => putBusy
    BY <1>1, RestListed, Zenon
<1>3. /\ Head(pending) = pending[1] /\ 1 \in DOMAIN pending /\ Head(pending) \in Item
      /\ \A i \in DOMAIN rest : i + 1 \in DOMAIN pending /\ rest[i] = pending[i + 1]
    BY <1>1, HeadAndRest, Zenon
<1>4. AfterSeek(rest, bufferAge)
    BY <1>3, Zenon DEF AfterSeek, TimeInv
<1>5. ASSUME type = "Disk" PROVE bufferAge >= 0
    <2>1. bufferAge = Turn \/ bufferAge + Head(pending).in >= 0
        BY <1>1, <1>3, <1>5, Zenon DEF AfterSeek, TimeInv
    <2>2. Head(pending).in <= 0 /\ bufferAge \in Int /\ Turn \in Nat
        BY TurnType DEF Taken, TimeInv, HeadAt
    <2>3. Head(pending).in \in Int
        BY <1>1, <1>3, ItemTypes
    <2> QED
        BY <2>1, <2>2, <2>3
<1> QED
    BY <1>2, <1>4, <1>5, Zenon

(* The disk's answer goes to the client that asked.                        *)
LEMMA DiskHandlerKeeps ==
    ASSUME TypeInv, TimeInv, DiskInv, EchoInv, NEW rest, Taken("Disk", rest), DiskHandler(rest),
           UNCHANGED <<pc, wants, lastSector, spin, bufferAge>>
    PROVE  TypeInv' /\ TimeInv' /\ DiskInv' /\ EchoInv'
<1>1. active' = FALSE /\ V("disk") /\ pending' = rest /\ UNCHANGED consoleVars
    BY Zenon DEF DiskHandler
<1>2. /\ Listed(rest, active /\ "Disk" # "Disk", putBusy /\ "Disk" # "ConsoleWrite")
      /\ active /\ AfterSeek(rest, bufferAge) /\ bufferAge >= 0
    BY TakenRest, Zenon
<1>3. "Disk" # "ConsoleWrite" /\ active \in BOOLEAN /\ putBusy \in BOOLEAN
    BY DEF TypeInv
<1>4. Listed(rest, FALSE, putBusy)
    BY <1>2, <1>3, Zenon DEF Listed
<1>5. HeadAt(FALSE, spin, bufferAge)
    BY <1>2 DEF TimeInv, HeadAt
<1>6. TimeInv'
    BY <1>1, <1>2, <1>4, <1>5, Zenon DEF TimeInv, consoleVars
<1>7. PICK h \in Clients : DiskHeld(h)
    BY <1>2, Zenon DEF DiskInv, DiskFree
<1>8. pc[h] = "semaphore->P" /\ value["disk"] = 0 /\ value["lock"] = 0
    BY <1>2, <1>7, Zenon DEF DiskHeld
<1>9. Becomes("disk", 1)
    <2>1. Becomes("disk", value["disk"] + 1)
        BY <1>1, VStep, Names, Zenon
    <2> QED
        BY <1>8, <2>1
<1>10. value'["disk"] = 1 /\ value'["lock"] = 0 /\ value'["readAvail"] = value["readAvail"]
       /\ value'["writeDone"] = value["writeDone"] /\ value' \in [Semaphores -> Nat]
    BY <1>8, <1>9, Names, Zenon DEF Becomes
<1>11. DiskHeld(h)'
    BY <1>1, <1>7, <1>8, <1>10, Zenon DEF DiskHeld
<1>12. DiskInv'
    BY <1>11, Zenon DEF DiskInv
<1>13. EchoInv'
    BY <1>1, <1>10, EchoUnchanged, Zenon
<1>14. TypeInv'
    <2>1. active' \in BOOLEAN
        BY <1>1, Zenon
    <2> QED
        BY <1>1, <1>10, <2>1, Zenon DEF TypeInv, consoleVars
<1> QED
    BY <1>6, <1>12, <1>13, <1>14, Zenon

(* The timer schedules its next interrupt.                                 *)
LEMMA ScheduleKeepsTime ==
    ASSUME TypeInv, TimeInv, NEW type \in {"Timer", "ConsoleRead"}, NEW rest, Taken(type, rest),
           NEW from \in Int, pending' = Schedule(rest, type, from),
           UNCHANGED <<active, putBusy, spin, bufferAge>>
    PROVE  TimeInv'
<1>1. type \in Types /\ type # "Disk" /\ type # "ConsoleWrite"
    BY DEF Types
<1>2. active \in BOOLEAN /\ putBusy \in BOOLEAN
    BY DEF TypeInv
<1>3. /\ Listed(rest, active /\ type # "Disk", putBusy /\ type # "ConsoleWrite")
      /\ AfterSeek(rest, bufferAge)
    BY TakenRest, Zenon
<1>4. Listed(rest, active, putBusy)
    BY <1>1, <1>2, <1>3, Zenon DEF Listed
<1>5. Listed(pending', active \/ type = "Disk", putBusy \/ type = "ConsoleWrite")
    BY <1>1, <1>2, <1>4, ScheduleListed, Zenon
<1>6. Listed(pending', active, putBusy)
    BY <1>1, <1>2, <1>5, Zenon DEF Listed
<1>7. bufferAge \in Int
    BY DEF TimeInv, HeadAt
<1>8. AfterSeek(pending', bufferAge)
    BY <1>1, <1>2, <1>3, <1>4, <1>7, ScheduleAfterSeek, Zenon
<1> QED
    BY <1>6, <1>8, Zenon DEF TimeInv

(* The timer's handler.                                                    *)
LEMMA TimerHandlerKeeps ==
    ASSUME TypeInv, TimeInv, DiskInv, EchoInv, NEW rest, Taken("Timer", rest), TimerHandler(rest),
           UNCHANGED <<pc, wants, lastSector, spin, bufferAge>>
    PROVE  TypeInv' /\ TimeInv' /\ DiskInv' /\ EchoInv'
<1>1. PICK from \in TimeOfNextInterrupt : pending' = Schedule(rest, "Timer", from)
    BY Zenon DEF TimerHandler
<1>2. UNCHANGED <<value, active>> /\ UNCHANGED consoleVars
    BY Zenon DEF TimerHandler, semVars
<1>3. from \in Int
    BY Constants DEF TimeOfNextInterrupt
<1>4. TimeInv'
    BY <1>1, <1>2, <1>3, ScheduleKeepsTime, Zenon DEF consoleVars
<1>5. TypeInv'
    BY <1>2, Zenon DEF TypeInv, consoleVars
<1>6. DiskInv'
    BY <1>2, DiskUnchanged, Zenon
<1>7. EchoInv'
    BY <1>2, EchoUnchanged, Zenon
<1> QED
    BY <1>4, <1>5, <1>6, <1>7, Zenon

(* The console looks for a character, and takes it only where the buffer   *)
(* is free.                                                                *)
LEMMA CheckCharAvailKeeps ==
    ASSUME TypeInv, TimeInv, DiskInv, EchoInv, NEW rest, Taken("ConsoleRead", rest),
           CheckCharAvail(rest), UNCHANGED <<pc, wants, lastSector, spin, bufferAge>>
    PROVE  TypeInv' /\ TimeInv' /\ DiskInv' /\ EchoInv'
<1>1. pending' = Schedule(rest, "ConsoleRead", ConsoleTime) /\ UNCHANGED <<active, putBusy, owed>>
    BY Zenon DEF CheckCharAvail
<1>2. ConsoleTime \in Int
    BY Constants
<1>3. TimeInv'
    BY <1>1, <1>2, ScheduleKeepsTime, Zenon
<1>4. CASE UNCHANGED <<incoming, typed, semVars, readyList>>
    <2>1. TypeInv'
        BY <1>1, <1>4, Zenon DEF TypeInv, semVars
    <2>2. DiskInv'
        BY <1>1, <1>4, DiskUnchanged, Zenon DEF semVars
    <2>3. EchoInv'
        BY <1>1, <1>4, EchoUnchanged, Zenon DEF semVars, consoleVars
    <2> QED
        BY <1>3, <2>1, <2>2, <2>3, Zenon
<1>5. CASE /\ incoming = "EOF" /\ typed # <<>>
           /\ incoming' = Head(typed) /\ typed' = Tail(typed) /\ V("readAvail")
    <2>1. typed \in Seq(Chars \cup {"q"})
        BY Zenon DEF TypeInv
    <2>2. /\ Head(typed) \in Chars \cup {"q"} /\ Head(typed) # "EOF"
          /\ Tail(typed) \in Seq(Chars \cup {"q"})
          /\ Owed(Head(typed), Tail(typed)) = typed
        BY <1>5, <2>1, OwedRead, Zenon
    <2>3. value["readAvail"] \in Nat
        BY Names DEF TypeInv
    <2>4. value["readAvail"] = 0 /\ pc[Echo] # "GetChar"
        BY <1>5, <2>3 DEF EchoInv
    <2>5. Becomes("readAvail", 1)
        <3>1. Becomes("readAvail", value["readAvail"] + 1)
            BY <1>5, VStep, Names, Zenon
        <3> QED
            BY <2>4, <3>1
    <2>6. value'["readAvail"] = 1 /\ value'["lock"] = value["lock"] /\ value'["disk"] = value["disk"]
          /\ value'["writeDone"] = value["writeDone"] /\ value' \in [Semaphores -> Nat]
        BY <2>5, Names, Zenon DEF Becomes
    <2>7. TypeInv'
        BY <1>1, <1>5, <2>2, <2>6, Zenon DEF TypeInv
    <2>8. DiskInv'
        BY <1>1, <2>6, DiskUnchanged, Zenon
    <2>9. EchoInv'
        <3>1. owed = typed
            <4>1. typed \in Seq(Characters)
                BY CharTypes, Zenon
            <4>2. Owed("EOF", typed) = typed
                BY <4>1, OwedEmpty, Zenon
            <4> QED
                BY <1>5, <4>2, Zenon DEF EchoInv, Owed
        <3>2. (owed = (IF incoming = "EOF" THEN <<>> ELSE <<incoming>>) \o typed)'
            BY <1>1, <1>5, <2>2, <3>1, Zenon DEF Owed
        <3>3. (value["readAvail"] + (IF pc[Echo] = "GetChar" THEN 1 ELSE 0)
                  = IF incoming # "EOF" THEN 1 ELSE 0)'
            BY <1>5, <2>2, <2>4, <2>6
        <3>4. ((IF putBusy THEN 1 ELSE 0) + value["writeDone"] = IF pc[Echo] \in Waiting THEN 1 ELSE 0)'
            BY <1>1, <2>6, Zenon DEF EchoInv
        <3> QED
            BY <3>2, <3>3, <3>4, Zenon DEF EchoInv
    <2> QED
        BY <1>3, <2>7, <2>8, <2>9, Zenon
<1> QED
    BY <1>4, <1>5, Zenon DEF CheckCharAvail, PollFile

(* The display is ready again, and its unit is for the wait that started it*)
LEMMA WriteDoneKeeps ==
    ASSUME TypeInv, TimeInv, DiskInv, EchoInv, NEW rest, Taken("ConsoleWrite", rest),
           WriteDone(rest), UNCHANGED <<pc, wants, lastSector, spin, bufferAge>>
    PROVE  TypeInv' /\ TimeInv' /\ DiskInv' /\ EchoInv'
<1>1. /\ putBusy' = FALSE /\ V("writeDone") /\ pending' = rest
      /\ UNCHANGED <<active, incoming, typed, owed>>
    BY Zenon DEF WriteDone
<1>2. /\ Listed(rest, active /\ "ConsoleWrite" # "Disk", putBusy /\ "ConsoleWrite" # "ConsoleWrite")
      /\ putBusy /\ AfterSeek(rest, bufferAge)
    BY TakenRest, Zenon
<1>3. "Disk" # "ConsoleWrite" /\ active \in BOOLEAN /\ putBusy \in BOOLEAN
    BY DEF TypeInv
<1>4. Listed(rest, active, FALSE)
    BY <1>2, <1>3, Zenon DEF Listed
<1>5. TimeInv'
    BY <1>1, <1>2, <1>4, Zenon DEF TimeInv
<1>6. value["writeDone"] \in Nat
    BY Names DEF TypeInv
<1>7. value["writeDone"] = 0 /\ pc[Echo] \in Waiting
    BY <1>2, <1>6 DEF EchoInv
<1>8. Becomes("writeDone", 1)
    <2>1. Becomes("writeDone", value["writeDone"] + 1)
        BY <1>1, VStep, Names, Zenon
    <2> QED
        BY <1>7, <2>1
<1>9. value'["writeDone"] = 1 /\ value'["lock"] = value["lock"] /\ value'["disk"] = value["disk"]
      /\ value'["readAvail"] = value["readAvail"] /\ value' \in [Semaphores -> Nat]
    BY <1>8, Names, Zenon DEF Becomes
<1>10. TypeInv'
    <2>1. putBusy' \in BOOLEAN
        BY <1>1, ZenonT(40)
    <2> QED
        BY <1>1, <1>9, <2>1, Zenon DEF TypeInv
<1>11. DiskInv'
    BY <1>1, <1>9, DiskUnchanged, Zenon
<1>12. EchoInv'
    <2>1. ((IF putBusy THEN 1 ELSE 0) + value["writeDone"] = IF pc[Echo] \in Waiting THEN 1 ELSE 0)'
        BY <1>1, <1>7, <1>9
    <2> QED
        BY <1>1, <1>9, <2>1, Zenon DEF EchoInv
<1> QED
    BY <1>5, <1>10, <1>11, <1>12, Zenon

-----------------------------------------------------------------------------
(* The steps of the machine.                                               *)

(* An interrupt that is due.                                               *)
LEMMA InterruptedKeeps ==
    ASSUME DInv, Interrupted
    PROVE  DInv'
<1>0. TypeInv /\ TimeInv /\ DiskInv /\ EchoInv
    BY Zenon DEF DInv
<1>1. PICK type, rest : type = Head(pending).type /\ rest = Tail(pending)
    BY Zenon
<1>2. Taken(type, rest)
    BY <1>1, Zenon DEF Interrupted, Due, Taken
<1>3. Handler(type, rest) /\ UNCHANGED <<pc, wants, lastSector, spin, bufferAge>>
    BY <1>1, Zenon DEF Interrupted
<1>4. TypeInv' /\ TimeInv' /\ DiskInv' /\ EchoInv'
    <2>1. CASE type = "Disk" /\ DiskHandler(rest)
        BY <1>0, <1>2, <1>3, <2>1, DiskHandlerKeeps, Zenon
    <2>2. CASE type = "Timer" /\ TimerHandler(rest)
        BY <1>0, <1>2, <1>3, <2>2, TimerHandlerKeeps, Zenon
    <2>3. CASE type = "ConsoleRead" /\ CheckCharAvail(rest)
        BY <1>0, <1>2, <1>3, <2>3, CheckCharAvailKeeps, Zenon
    <2>4. CASE type = "ConsoleWrite" /\ WriteDone(rest)
        BY <1>0, <1>2, <1>3, <2>4, WriteDoneKeeps, Zenon
    <2> QED
        BY <1>3, <2>1, <2>2, <2>3, <2>4, Zenon DEF Handler
<1>5. DueInv'
    <2>1. cpu' = cpu /\ (cpu = "OneTick" \/ cpu = "Idle")
        BY Zenon DEF Interrupted
    <2> QED
        BY <2>1 DEF DueInv
<1> QED
    BY <1>4, <1>5, Zenon DEF DInv

(* The end of a loop: what is not due goes back.                           *)
LEMMA PutBackKeepsTime ==
    ASSUME TypeInv, TimeInv
    PROVE  /\ Listed(PutBack, active, putBusy) /\ AfterSeek(PutBack, bufferAge)
           /\ HeadAt(active, spin, bufferAge)
           /\ ~Due \/ OnlyTimer => NotDue(PutBack)
<1>1. /\ active \in BOOLEAN /\ putBusy \in BOOLEAN /\ Listed(pending, active, putBusy)
      /\ AfterSeek(pending, bufferAge) /\ HeadAt(active, spin, bufferAge)
    BY Zenon DEF TypeInv, TimeInv
<1> QED
    BY <1>1, PutBackListed, Zenon

(* Steps that move no thread.                                              *)
LEMMA NoThreadMoves ==
    ASSUME DInv, UNCHANGED <<pc, wants, value, active, lastSector>>, UNCHANGED consoleVars
    PROVE  TypeInv' /\ DiskInv' /\ EchoInv'
<1>0. TypeInv /\ DiskInv /\ EchoInv
    BY Zenon DEF DInv
<1>1. TypeInv'
    BY <1>0, Zenon DEF TypeInv, consoleVars
<1>2. DiskInv'
    BY <1>0, DiskUnchanged, Zenon
<1>3. EchoInv'
    BY <1>0, EchoUnchanged, Zenon
<1> QED
    BY <1>1, <1>2, <1>3, Zenon

(* OneTick ends.                                                           *)
LEMMA ReturnFromOneTickKeeps ==
    ASSUME DInv, ReturnFromOneTick
    PROVE  DInv'
<1>0. TypeInv /\ TimeInv
    BY Zenon DEF DInv
<1>1. /\ ~Due /\ pending' = PutBack /\ UNCHANGED <<pc, wants, value>>
      /\ UNCHANGED diskVars /\ UNCHANGED consoleVars
    BY Zenon DEF ReturnFromOneTick, semVars
<1>2. TypeInv' /\ DiskInv' /\ EchoInv'
    BY <1>1, NoThreadMoves, Zenon DEF diskVars
<1>3. /\ Listed(pending', active, putBusy) /\ AfterSeek(pending', bufferAge)
      /\ HeadAt(active, spin, bufferAge) /\ NotDue(pending')
    BY <1>0, <1>1, PutBackKeepsTime, Zenon
<1>4. TimeInv' /\ DueInv'
    BY <1>1, <1>3, Zenon DEF TimeInv, DueInv, diskVars, consoleVars
<1> QED
    BY <1>2, <1>4, Zenon DEF DInv

(* Idle ends.                                                              *)
LEMMA ReturnFromIdleKeeps ==
    ASSUME DInv, ReturnFromIdle
    PROVE  DInv'
<1>0. TypeInv /\ TimeInv
    BY Zenon DEF DInv
<1>1. /\ (~Due \/ OnlyTimer) /\ pending' = PutBack /\ UNCHANGED <<pc, wants, value>>
      /\ UNCHANGED diskVars /\ UNCHANGED consoleVars
    BY Zenon DEF ReturnFromIdle, semVars
<1>2. TypeInv' /\ DiskInv' /\ EchoInv'
    BY <1>1, NoThreadMoves, Zenon DEF diskVars
<1>3. /\ Listed(pending', active, putBusy) /\ AfterSeek(pending', bufferAge)
      /\ HeadAt(active, spin, bufferAge) /\ NotDue(pending')
    BY <1>0, <1>1, PutBackKeepsTime, Zenon
<1>4. TimeInv' /\ DueInv'
    BY <1>1, <1>3, Zenon DEF TimeInv, DueInv, diskVars, consoleVars
<1> QED
    BY <1>2, <1>4, Zenon DEF DInv

(* OneTick ends with a Yield, and the thread that runs next ends its own   *)
(* tick, or goes on.                                                       *)
LEMMA YieldAfterTimerKeeps ==
    ASSUME DInv, YieldAfterTimer
    PROVE  DInv'
<1>0. TypeInv /\ TimeInv
    BY Zenon DEF DInv
<1>1. /\ ~Due /\ UNCHANGED <<pc, wants, value, active, lastSector>> /\ UNCHANGED consoleVars
      /\ putBusy' = putBusy
    BY Zenon DEF YieldAfterTimer, semVars, consoleVars
<1>2. TypeInv' /\ DiskInv' /\ EchoInv'
    BY <1>1, NoThreadMoves, Zenon
<1>3. /\ Listed(PutBack, active, putBusy) /\ AfterSeek(PutBack, bufferAge)
      /\ HeadAt(active, spin, bufferAge) /\ NotDue(PutBack)
    BY <1>0, <1>1, PutBackKeepsTime, Zenon
<1>4. TimeInv' /\ DueInv'
    <2>1. CASE SetLevelOn
        BY <1>0, <1>1, <2>1, OneTickKeeps, Zenon DEF SetLevelOn
    <2>2. CASE cpu' = "OneTick" /\ Advance(SystemTick, PutBack)
        <3>1. SystemTick \in Nat
            BY Constants
        <3>2. PICK list : list = PutBack
            BY Zenon
        <3>3. TimeInv'
            BY <1>0, <1>1, <1>3, <2>2, <3>1, <3>2, TimeAdvances, Zenon
        <3>4. DueInv'
            BY <2>2 DEF DueInv
        <3> QED
            BY <3>3, <3>4, Zenon
    <2>3. CASE pending' = PutBack /\ UNCHANGED <<spin, bufferAge>>
        BY <1>1, <1>3, <2>3, Zenon DEF TimeInv, DueInv
    <2> QED
        BY <2>1, <2>2, <2>3, Zenon DEF YieldAfterTimer
<1> QED
    BY <1>2, <1>4, Zenon DEF DInv

(* Sleep finds a thread.                                                   *)
LEMMA SleepDispatchKeeps ==
    ASSUME DInv, SleepDispatch
    PROVE  DInv'
<1>0. TypeInv /\ TimeInv /\ DueInv
    BY Zenon DEF DInv
<1>1. /\ cpu = "Sleep" /\ UNCHANGED <<pc, wants, value, active, lastSector>> /\ UNCHANGED consoleVars
      /\ putBusy' = putBusy
    BY Zenon DEF SleepDispatch, semVars, consoleVars
<1>2. TypeInv' /\ DiskInv' /\ EchoInv'
    BY <1>1, NoThreadMoves, Zenon
<1>3. CASE SetLevelOn
    BY <1>0, <1>1, <1>2, <1>3, OneTickKeeps, Zenon DEF SetLevelOn, DInv
<1>4. CASE UNCHANGED <<pending, spin, bufferAge>>
    <2>1. TimeInv'
        BY <1>0, <1>1, <1>4, TimeUnchanged, Zenon
    <2>2. NotDue(pending)
        BY <1>0, <1>1, Zenon DEF DueInv
    <2>3. DueInv'
        BY <1>4, <2>2, Zenon DEF DueInv
    <2> QED
        BY <1>2, <2>1, <2>3, Zenon DEF DInv
<1> QED
    BY <1>3, <1>4, Zenon DEF SleepDispatch

(* Idle jumps to the next interrupt.                                       *)
LEMMA AdvanceToNextKeeps ==
    ASSUME DInv, AdvanceToNext
    PROVE  DInv'
<1>0. TypeInv /\ TimeInv
    BY Zenon DEF DInv
<1>1. PICK ticks : ticks = Max({Head(pending).in, 0})
    BY Zenon
<1>2. /\ pending # <<>> /\ Advance(ticks, pending) /\ cpu' = "Idle"
      /\ UNCHANGED <<pc, wants, value, active, lastSector>> /\ UNCHANGED consoleVars
      /\ putBusy' = putBusy
    BY <1>1, Zenon DEF AdvanceToNext, semVars, consoleVars
<1>3. TypeInv' /\ DiskInv' /\ EchoInv'
    BY <1>2, NoThreadMoves, Zenon
<1>4. ticks \in Nat
    <2>1. pending \in Seq(Item) /\ Sorted(pending)
        BY <1>0, Zenon DEF TimeInv, Listed
    <2>2. Head(pending) \in Item
        BY <1>2, <2>1, HeadAndRest, Zenon
    <2>3. Head(pending).in \in Int
        BY <2>1, <2>2, ItemTypes
    <2> QED
        BY <1>1, <2>3, MaxOfTwo
<1>5. TimeInv'
    BY <1>0, <1>2, <1>4, TimeAdvances, Zenon DEF TimeInv
<1>6. DueInv'
    BY <1>2 DEF DueInv
<1> QED
    BY <1>3, <1>5, <1>6, Zenon DEF DInv

-----------------------------------------------------------------------------
(* The theorems.                                                           *)

(* Initialize: the list has at most the console's first poll and the       *)
(* timer's first interrupt.                                                *)
LEMMA FirstList ==
    ASSUME NEW list, Listed(list, FALSE, FALSE), NotDue(list),
           NEW type \in {"Timer", "ConsoleRead"}, NEW from \in Nat \ {0}
    PROVE  Listed(Schedule(list, type, from), FALSE, FALSE) /\ NotDue(Schedule(list, type, from))
<1>1. type \in Types /\ type # "Disk" /\ type # "ConsoleWrite"
    BY DEF Types
<1>2. from \in Int /\ from > 0 /\ FALSE \in BOOLEAN
    OBVIOUS
<1>3. Listed(Schedule(list, type, from), FALSE \/ type = "Disk", FALSE \/ type = "ConsoleWrite")
    BY <1>1, <1>2, ScheduleListed, Zenon
<1>4. Listed(Schedule(list, type, from), FALSE, FALSE)
    BY <1>1, <1>3, Zenon DEF Listed
<1>5. NotDue(Schedule(list, type, from))
    BY <1>1, <1>2, ScheduleNotDue, Zenon
<1> QED
    BY <1>4, <1>5, Zenon

(* The list when the machine starts.                                       *)
LEMMA InitList ==
    ASSUME Init
    PROVE  Listed(pending, FALSE, FALSE) /\ NotDue(pending)
<1>1. Listed(<<>>, FALSE, FALSE) /\ NotDue(<<>>)
    BY DEF Listed, NotDue, Sorted, Once, Has
<1>2. "Timer" \in {"Timer", "ConsoleRead"} /\ "ConsoleRead" \in {"Timer", "ConsoleRead"}
    BY Zenon
<1>3. ConsoleTime \in Nat \ {0}
    BY Constants
<1>4. PICK list : /\ list = <<>> \/ list = Schedule(<<>>, "ConsoleRead", ConsoleTime)
                  /\ TimerInit(list)
    BY Zenon DEF Init
<1>5. Listed(list, FALSE, FALSE) /\ NotDue(list)
    BY <1>1, <1>2, <1>3, <1>4, FirstList, Zenon
<1>6. CASE pending = list
    BY <1>5, <1>6, Zenon
<1>7. CASE \E t \in TimeOfNextInterrupt : pending = Schedule(list, "Timer", t)
    <2>1. PICK t \in TimeOfNextInterrupt : pending = Schedule(list, "Timer", t)
        BY <1>7, Zenon
    <2>2. t \in Nat \ {0}
        BY Constants DEF TimeOfNextInterrupt
    <2> QED
        BY <1>2, <1>5, <2>1, <2>2, FirstList, Zenon
<1> QED
    BY <1>4, <1>6, <1>7, Zenon DEF TimerInit

(* The machine starts in the invariant.                                    *)
LEMMA DInvInit ==
    ASSUME Init
    PROVE  DInv
<1>1. /\ active = FALSE /\ lastSector = 0 /\ bufferAge = 0 /\ spin = 0
      /\ incoming = "EOF" /\ putBusy = FALSE /\ typed = <<>> /\ owed = <<>>
      /\ pc = [t \in Clients \cup {Echo} |-> IF t = Echo THEN "readAvail->P" ELSE "code"]
      /\ wants = [t \in Clients |-> [sector |-> 0, writing |-> FALSE]]
      /\ value = [s \in Semaphores |-> IF s = "lock" THEN 1 ELSE 0]
    BY Zenon DEF Init, DiskInit, ConsoleInit
<1>2. Listed(pending, FALSE, FALSE) /\ NotDue(pending)
    BY InitList, Zenon
<1>3. 0 \in Sectors
    BY Constants, Product DEF Sectors
<1>4. /\ value["lock"] = 1 /\ value["disk"] = 0 /\ value["readAvail"] = 0 /\ value["writeDone"] = 0
      /\ value \in [Semaphores -> Nat]
    BY <1>1, Names
<1>5. /\ pc \in [Clients \cup {Echo} -> Labels] /\ pc[Echo] = "readAvail->P"
      /\ \A t \in Clients : pc[t] = "code"
    BY <1>1, Names, LabelNames, Zenon
<1>6. TypeInv
    <2>1. active \in BOOLEAN /\ putBusy \in BOOLEAN /\ lastSector \in Sectors
        BY <1>1, <1>3, Zenon
    <2>2. wants \in [Clients -> [sector : Sectors, writing : BOOLEAN]]
        BY <1>1, <1>3
    <2>3. typed \in Seq(Chars \cup {"q"}) /\ incoming \in Chars \cup {"q", "EOF"}
        BY <1>1
    <2> QED
        BY <1>4, <1>5, <2>1, <2>2, <2>3, Zenon DEF TypeInv
<1>7. TimeInv
    <2>1. HeadAt(active, spin, bufferAge)
        BY <1>1, TurnType, Constants DEF HeadAt
    <2>2. AfterSeek(pending, bufferAge)
        BY <1>2, Zenon DEF AfterSeek, Listed, Has
    <2> QED
        BY <1>1, <1>2, <2>1, <2>2, Zenon DEF TimeInv
<1>8. DueInv
    BY <1>2, Zenon DEF DueInv
<1>9. DiskInv
    BY <1>1, <1>4, <1>5, LabelNames, Zenon DEF DiskInv, DiskFree
<1>10. EchoInv
    <2>1. <<>> \o <<>> = <<>>
        OBVIOUS
    <2>2. owed = (IF incoming = "EOF" THEN <<>> ELSE <<incoming>>) \o typed
        BY <1>1, <2>1, Zenon
    <2>3. pc[Echo] # "GetChar" /\ pc[Echo] \notin Waiting
        BY <1>5, LabelNames, Zenon
    <2> QED
        BY <1>1, <1>4, <2>2, <2>3 DEF EchoInv
<1> QED
    BY <1>6, <1>7, <1>8, <1>9, <1>10, Zenon DEF DInv

(* Every step keeps the invariant.                                         *)
LEMMA DInvNext ==
    ASSUME DInv, [Next]_vars
    PROVE  DInv'
<1>1. CASE UNCHANGED vars
    <2>1. UNCHANGED <<pc, wants, value, active, lastSector>> /\ UNCHANGED consoleVars
          /\ UNCHANGED <<pending, active, putBusy, spin, bufferAge>> /\ cpu' = cpu
        BY <1>1, Zenon DEF vars, semVars, diskVars, consoleVars
    <2>2. TypeInv' /\ DiskInv' /\ EchoInv'
        BY <2>1, NoThreadMoves, Zenon
    <2>3. TimeInv'
        BY <2>1, TimeUnchanged, Zenon DEF DInv
    <2>4. DueInv'
        BY <2>1, Zenon DEF DInv, DueInv
    <2> QED
        BY <2>2, <2>3, <2>4, Zenon DEF DInv
<1>2. ASSUME NEW t \in Clients, ClientStep(t) PROVE DInv'
    BY <1>2, CallKeeps, AcquireKeeps, RequestKeeps, WaitForDiskKeeps, ReleaseKeeps, FinishKeeps,
       Zenon DEF ClientStep
<1>3. CASE HaltAfterTest
    <2>1. cpu' = "Halted" /\ UNCHANGED <<pc, wants, value, pending, diskVars, consoleVars>>
        BY <1>3, Zenon DEF HaltAfterTest, semVars
    <2> QED
        BY <2>1, HaltedKeeps, Zenon
<1>4. CASE EchoStep
    BY <1>3, <1>4, WaitForCharKeeps, GetAndPutKeeps, WaitForWriteKeeps, Zenon DEF EchoStep
<1>5. CASE Halt
    <2>1. cpu' = "Halted" /\ UNCHANGED <<pc, wants, value, pending, diskVars, consoleVars>>
        BY <1>5, Zenon DEF Halt, semVars
    <2> QED
        BY <2>1, HaltedKeeps, Zenon
<1>6. CASE MachineStep
    BY <1>5, <1>6, InterruptedKeeps, ReturnFromOneTickKeeps, YieldAfterTimerKeeps,
       SleepDispatchKeeps, AdvanceToNextKeeps, ReturnFromIdleKeeps, Zenon DEF MachineStep
<1>7. CASE Type
    BY <1>7, TypeKeepsInv, Zenon
<1> QED
    BY <1>1, <1>2, <1>4, <1>6, <1>7, Zenon DEF Next, ThreadStep

(* The inductive invariant of the devices: the list of interrupts, the     *)
(* disk with its lock, the head of the disk and the console.               *)
THEOREM DevicesInvariant == Spec => []DInv
<1>1. Init => DInv
    BY DInvInit, Zenon
<1>2. DInv /\ [Next]_vars => DInv'
    BY DInvNext, Zenon
<1> QED
    BY <1>1, <1>2, PTL DEF Spec

(* Interrupt::Schedule and CheckIfDue keep the pending list in the order   *)
(* of time, and OneTick returns to a thread with no device late.           *)
THEOREM InterruptsInOrder == Spec => []NothingOverdue
<1>1. DInv => NothingOverdue
    <2>1. SUFFICES ASSUME DInv PROVE NothingOverdue
        BY Zenon
    <2>2. Sorted(pending) /\ (cpu = "IntOn" => NotDue(pending))
        BY <2>1 DEF DInv, TimeInv, Listed, DueInv
    <2> QED
        BY <2>2, Zenon DEF NothingOverdue, Sorted, NotDue
<1> QED
    BY <1>1, DevicesInvariant, PTL

(* SynchDisk: Disk::ReadRequest's ASSERT(!active) holds, a request has one *)
(* interrupt, and the unit it leaves is for the thread that asked.         *)
THEOREM SynchDiskIsSynchronous == Spec => []OneRequestOneAnswer
<1>1. DInv => OneRequestOneAnswer
    <2>1. SUFFICES ASSUME DInv PROVE OneRequestOneAnswer
        BY Zenon
    <2>2. /\ TypeInv /\ DiskInv /\ Listed(pending, active, putBusy)
        BY <2>1, Zenon DEF DInv, TimeInv
    <2>3. Count("Disk") = IF active THEN 1 ELSE 0
        <3>1. PICK S : S = {i \in DOMAIN pending : pending[i].type = "Disk"}
            BY Zenon
        <3>2. CASE active
            <4>1. PICK i \in DOMAIN pending : pending[i].type = "Disk"
                BY <2>2, <3>2, Zenon DEF Listed, Has
            <4>2. \A j \in DOMAIN pending : pending[j].type = "Disk" => j = i
                BY <2>2, <4>1, Zenon DEF Listed, Once
            <4>3. S = {i}
                BY <3>1, <4>1, <4>2, Zenon
            <4>4. Cardinality(S) = 1
                BY <4>3, FS_Singleton, Zenon
            <4> QED
                BY <3>1, <3>2, <4>4, Zenon DEF Count
        <3>3. CASE ~active
            <4>1. S = {}
                BY <2>2, <3>1, <3>3, Zenon DEF Listed, Has
            <4>2. Cardinality(S) = 0
                BY <4>1, FS_EmptySet, Zenon
            <4> QED
                BY <3>1, <3>3, <4>2, Zenon DEF Count
        <3> QED
            BY <3>2, <3>3, Zenon
    <2>4. InDisk = {t \in Clients : pc[t] \in Inside}
        BY Zenon DEF InDisk, Inside
    <2>5. CASE DiskFree
        <3>1. InDisk = {}
            BY <2>4, <2>5, Zenon DEF DiskFree
        <3>2. Cardinality(InDisk) = 0
            BY <3>1, FS_EmptySet, Zenon
        <3>3. Cardinality(InDisk) = 1 - value["lock"]
            BY <2>5, <3>2 DEF DiskFree
        <3> QED
            BY <2>3, <2>5, <3>1, <3>3, Zenon DEF OneRequestOneAnswer, DiskFree
    <2>6. CASE \E h \in Clients : DiskHeld(h)
        <3>1. PICK h \in Clients : DiskHeld(h)
            BY <2>6, Zenon
        <3>2. InDisk = {h}
            BY <2>4, <3>1, Zenon DEF DiskHeld
        <3>3. Cardinality(InDisk) = 1
            BY <3>2, FS_Singleton, Zenon
        <3>4. Cardinality(InDisk) = 1 - value["lock"]
            BY <3>1, <3>3 DEF DiskHeld
        <3>5. (IF active THEN 1 ELSE 0) + value["disk"] = IF pc[h] = "semaphore->P" THEN 1 ELSE 0
            <4>1. CASE active
                BY <3>1, <4>1 DEF DiskHeld
            <4>2. CASE ~active
                BY <3>1, <4>2 DEF DiskHeld
            <4> QED
                BY <4>1, <4>2, Zenon
        <3>6. \A t \in Clients : pc[t] = "request" => ~active
            <4>1. SUFFICES ASSUME NEW t \in Clients, pc[t] = "request", active PROVE FALSE
                BY Zenon
            <4>2. t = h
                BY <3>1, <4>1, LabelNames, Zenon DEF DiskHeld, Inside
            <4> QED
                BY <3>1, <4>1, <4>2, Zenon DEF DiskHeld
        <3> QED
            BY <2>3, <3>2, <3>4, <3>5, <3>6, Zenon DEF OneRequestOneAnswer
    <2> QED
        BY <2>2, <2>5, <2>6, Zenon DEF DiskInv
<1> QED
    BY <1>1, DevicesInvariant, PTL

(* Disk::ComputeLatency: for every geometry of the disk a request takes    *)
(* until the sector has passed under the head for the first time after the *)
(* seek, and what is served from the track buffer did pass.                *)
THEOREM LatencyIsRight == Spec => []HeadPassesSector
<1>1. DInv => HeadPassesSector
    BY HeadPasses, Zenon DEF DInv, TypeInv, TimeInv
<1> QED
    BY <1>1, DevicesInvariant, PTL

(* Console and ConsoleTest: what is typed is echoed once, in order.        *)
THEOREM EchoIsFaithful == Spec => []EchoInOrder
<1>1. DInv => EchoInOrder
    <2>1. SUFFICES ASSUME DInv PROVE EchoInOrder
        BY Zenon
    <2>2. EchoInv /\ TypeInv
        BY <2>1, Zenon DEF DInv
    <2>3. value["readAvail"] \in Nat /\ value["writeDone"] \in Nat /\ putBusy \in BOOLEAN
        BY <2>2, Names DEF TypeInv
    <2>4. "GetChar" \notin Waiting
        BY LabelNames, Zenon
    <2>5. ASSUME pc[Echo] = "GetChar" PROVE incoming # "EOF" /\ ~putBusy
        <3>1. incoming # "EOF"
            BY <2>2, <2>3, <2>5 DEF EchoInv
        <3>2. ~putBusy
            BY <2>2, <2>3, <2>4, <2>5 DEF EchoInv
        <3> QED
            BY <3>1, <3>2, Zenon
    <2> QED
        BY <2>2, <2>5, Zenon DEF EchoInOrder, EchoInv
<1> QED
    BY <1>1, DevicesInvariant, PTL
==============================================================================
