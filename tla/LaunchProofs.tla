---------------------------- MODULE LaunchProofs ----------------------------
(***************************************************************************)
(* liboryxprofile chooses a best profile, for every directory, every       *)
(* request and every order in which the files are read; and a launch with  *)
(* it keeps the guest's memory model, for any number of emulator threads.  *)
(***************************************************************************)
EXTENDS Launch, SequenceTheorems, TLAPS

Score == [num : Int, den : Nat \ {0}]

-----------------------------------------------------------------------------
(* Scores are fractions: comparing them by cross-multiplication is a weak order *)

\* Multiplying by a positive number keeps and reflects the order.
LEMMA MulMonotone ==
  ASSUME NEW x \in Int, NEW y \in Int, NEW z \in Nat \ {0}
  PROVE  /\ x <= y <=> x * z <= y * z
         /\ x = y <=> x * z = y * z
  <1>1. ASSUME NEW d \in Nat \ {0} PROVE d * z > 0
    BY <1>1
  <1>2. ASSUME NEW a \in Int, NEW b \in Int, a < b PROVE a * z < b * z
    <2>1. (b - a) * z > 0
      BY <1>1, <1>2
    <2>2. (b - a) * z = b * z - a * z
      OBVIOUS
    <2>3. a * z \in Int /\ b * z \in Int
      OBVIOUS
    <2>4. QED
      BY <2>1, <2>2, <2>3
  <1>3. x * z \in Int /\ y * z \in Int
    OBVIOUS
  <1>4. QED
    BY <1>2, <1>3

\* Rearranging a product of three.
LEMMA MulSwap ==
  ASSUME NEW x \in Int, NEW y \in Int, NEW z \in Int
  PROVE  (x * y) * z = (x * z) * y
  OBVIOUS

\* a/b <= c/d and c/d <= e/f give a/b <= e/f, with equality only throughout.
LEMMA Transitive ==
  ASSUME NEW a \in Int, NEW b \in Nat \ {0}, NEW c \in Int, NEW d \in Nat \ {0},
         NEW e \in Int, NEW f \in Nat \ {0},
         a * d <= c * b, c * f <= e * d
  PROVE  /\ a * f <= e * b
         /\ a * f = e * b => a * d = c * b /\ c * f = e * d
  <1> DEFINE ad == a * d
             cb == c * b
             cf == c * f
             ed == e * d
             af == a * f
             eb == e * b
  <1>0. ad \in Int /\ cb \in Int /\ cf \in Int /\ ed \in Int /\ af \in Int /\ eb \in Int
    OBVIOUS
  <1>1. ad * f = af * d
    BY MulSwap
  <1>2. cb * f = cf * b
    BY MulSwap
  <1>3. ed * b = eb * d
    BY MulSwap
  <1>4. ad <= cb /\ cf <= ed
    OBVIOUS
  <1> HIDE DEF ad, cb, cf, ed, af, eb
  <1>5. ad * f <= cb * f /\ (ad * f = cb * f => ad = cb)
    BY <1>0, <1>4, MulMonotone
  <1>6. cf * b <= ed * b /\ (cf * b = ed * b => cf = ed)
    BY <1>0, <1>4, MulMonotone
  <1>7. af <= eb <=> af * d <= eb * d
    BY <1>0, MulMonotone
  <1>8. ad * f \in Int /\ cb * f \in Int /\ ed * b \in Int /\ af * d \in Int
    BY <1>0
  <1>9. af <= eb
    BY <1>1, <1>2, <1>3, <1>5, <1>6, <1>7, <1>8
  <1>10. ASSUME af = eb PROVE ad = cb /\ cf = ed
    <2>1. ad * f = ed * b
      BY <1>1, <1>3, <1>10
    <2>2. ad * f = cb * f /\ cf * b = ed * b
      BY <2>1, <1>2, <1>5, <1>6, <1>8
    <2>3. QED
      BY <2>2, <1>5, <1>6
  <1>11. QED
    BY <1>9, <1>10 DEF ad, cb, cf, ed, af, eb

\* Two scores are in one of three relations.
LEMMA Trichotomy ==
  ASSUME NEW a \in Score, NEW b \in Score
  PROVE  /\ Above(a, b) \/ Equal(a, b) \/ Above(b, a)
         /\ ~(Above(a, b) /\ Equal(a, b)) /\ ~(Above(a, b) /\ Above(b, a))
         /\ Equal(a, b) <=> Equal(b, a)
  <1>1. a.num * b.den \in Int /\ b.num * a.den \in Int
    BY DEF Score
  <1>2. QED
    BY <1>1 DEF Above, Equal

\* "Not above" is transitive, and tight only if both parts are.
LEMMA NotAboveTransitive ==
  ASSUME NEW a \in Score, NEW b \in Score, NEW c \in Score,
         ~Above(a, b), ~Above(b, c)
  PROVE  /\ ~Above(a, c)
         /\ Equal(a, c) => Equal(a, b) /\ Equal(b, c)
  <1>1. /\ a.num \in Int /\ b.num \in Int /\ c.num \in Int
        /\ a.den \in Nat \ {0} /\ b.den \in Nat \ {0} /\ c.den \in Nat \ {0}
    BY DEF Score
  <1>2. /\ a.num * b.den \in Int /\ b.num * a.den \in Int
        /\ b.num * c.den \in Int /\ c.num * b.den \in Int
        /\ a.num * c.den \in Int /\ c.num * a.den \in Int
    BY <1>1
  <1>3. a.num * b.den <= b.num * a.den /\ b.num * c.den <= c.num * b.den
    BY <1>2 DEF Above
  <1>4. /\ a.num * c.den <= c.num * a.den
        /\ a.num * c.den = c.num * a.den =>
             a.num * b.den = b.num * a.den /\ b.num * c.den = c.num * b.den
    BY <1>1, <1>3, Transitive
  <1>5. QED
    BY <1>2, <1>4 DEF Above, Equal

\* The score of a profile is a fraction, and so is resolve's starting value.
LEMMA ScoreType ==
  /\ Floor \in Score
  /\ \A p \in Profile : oryx_profile_score(p) \in Score
  <1>1. Floor \in Score
    BY DEF Floor, Score
  <1>2. ASSUME NEW p \in Profile PROVE oryx_profile_score(p) \in Score
    <2> DEFINE n == p.sample_count
    <2>1. n \in Nat /\ p.p1_low_fps \in Int /\ p.median_fps \in Int
            /\ p.sustained_fps \in Int /\ p.crash_rate \in Int
      BY DEF Profile
    <2> HIDE DEF n
    <2>2. 5 * p.p1_low_fps + 3 * p.median_fps + 2 * p.sustained_fps \in Int
      BY <2>1
    <2>3. 10 * (n + 9) - p.crash_rate * n \in Int
      BY <2>1
    <2>4. (5 * p.p1_low_fps + 3 * p.median_fps + 2 * p.sustained_fps)
            * (10 * (n + 9) - p.crash_rate * n) \in Int
      BY <2>2, <2>3
    <2>5. (5 * p.p1_low_fps + 3 * p.median_fps + 2 * p.sustained_fps)
            * (10 * (n + 9) - p.crash_rate * n) * (n + 5) \in Int
      BY <2>1, <2>4
    <2>6. (n + 10) * (n + 10) \in Nat \ {0}
      BY <2>1
    <2>7. QED
      BY <2>5, <2>6 DEF oryx_profile_score, Score, n
  <1>3. QED
    BY <1>1, <1>2

-----------------------------------------------------------------------------
(* What parse returns is a profile, whatever the file and wherever it is cut *)

LEMMA LineValue ==
  ASSUME NEW l \in Line
  PROVE  /\ l.k \in StringKeys => l \in [k : StringKeys, v : Names]
         /\ l.k \in NumberKeys => l \in [k : NumberKeys, v : Int]
         /\ l.k \in StringKeys \cup NumberKeys
  BY DEF Line, StringKeys, NumberKeys

\* The value of a key is the default or what one of the lines says.
LEMMA ValueFromLine ==
  ASSUME NEW text \in Seq(Line), NEW key, NEW default
  PROVE  \/ Value(text, key, default) = default
         \/ \E j \in DOMAIN text : text[j].k = key /\ Value(text, key, default) = text[j].v
  <1> DEFINE hits == { j \in DOMAIN text : text[j].k = key }
             Last(j) == j \in hits /\ \A l \in hits : l <= j
  <1>1. CASE \E j \in hits : Last(j)
    <2> DEFINE h == CHOOSE j \in hits : Last(j)
    <2>1. h \in hits
      BY <1>1
    <2>2. Value(text, key, default) = text[h].v
      BY <1>1 DEF Value
    <2>3. QED
      BY <2>1, <2>2
  <1>2. CASE ~\E j \in hits : Last(j)
    BY <1>2 DEF Value
  <1>3. QED
    BY <1>1, <1>2

LEMMA ValueType ==
  ASSUME NEW text \in Seq(Line)
  PROVE  /\ \A key \in StringKeys : Value(text, key, Unset) \in Names
         /\ \A key \in NumberKeys : Value(text, key, 0) \in Int
  <1>1. \A j \in DOMAIN text : text[j] \in Line
    BY ElementOfSeq
  <1>2. ASSUME NEW key \in StringKeys PROVE Value(text, key, Unset) \in Names
    <2> DEFINE val == Value(text, key, Unset)
    <2>1. CASE val = Unset
      BY <2>1, ProfileAssumption
    <2>2. CASE \E j \in DOMAIN text : text[j].k = key /\ val = text[j].v
      <3>1. PICK j \in DOMAIN text : text[j].k = key /\ val = text[j].v
        BY <2>2
      <3>2. text[j] \in [k : StringKeys, v : Names]
        BY <1>1, <3>1, LineValue
      <3>3. QED
        BY <3>1, <3>2
    <2>3. QED
      BY <2>1, <2>2, ValueFromLine
  <1>3. ASSUME NEW key \in NumberKeys PROVE Value(text, key, 0) \in Int
    BY <1>1, LineValue, ValueFromLine
  <1>4. QED
    BY <1>2, <1>3

LEMMA ParsedType ==
  ASSUME NEW text \in Seq(Line)
  PROVE  Parsed(text) \in Profile /\ Parsed(text).sample_count < UintMod
  <1>1. /\ Value(text, "game_build_hash", Unset) \in Names
        /\ Value(text, "device_class", Unset) \in Names
        /\ Value(text, "resolution", Unset) \in Names
    BY ValueType DEF StringKeys
  <1>2. /\ Value(text, "requires_hw_tso", 0) \in Int
        /\ Value(text, "median_fps", 0) \in Int
        /\ Value(text, "p1_low_fps", 0) \in Int
        /\ Value(text, "sustained_fps", 0) \in Int
        /\ Value(text, "crash_rate", 0) \in Int
        /\ Value(text, "sample_count", 0) \in Int
    BY ValueType DEF NumberKeys
  <1>3. Samples(text) \in Nat /\ Samples(text) < UintMod
    BY <1>2, ProfileAssumption DEF Samples
  <1>4. BackendOf(text) \in {"BOX64", "FEX"} /\ MemmodelOf(text) \in {"SW_FENCES", "HW_TSO"}
    BY DEF BackendOf, MemmodelOf
  <1>5. QED
    BY <1>1, <1>2, <1>3, <1>4 DEF Parsed, Profile

\* What is left of a line is a line for the same key; of a word, one of its beginnings.
LEMMA CutLineType ==
  ASSUME NEW l \in Line, NEW c \in CutLine(l)
  PROVE  /\ c \in Line /\ c.k = l.k
         /\ l.k \in StringKeys => c.v \in Beginnings[l.v]
  <1>1. CASE l.k \in NumberKeys
    <2>1. l \in [k : NumberKeys, v : Int]
      BY <1>1, LineValue
    <2>2. PICK n \in {l.v, l.v \div 10, 0} : c = [l EXCEPT !.v = n]
      BY <1>1 DEF CutLine
    <2>3. n \in Int
      BY <2>1, <2>2
    <2>4. c \in [k : NumberKeys, v : Int] /\ c.k = l.k
      BY <2>1, <2>2, <2>3, Zenon
    <2>5. l.k \notin StringKeys
      BY <1>1 DEF NumberKeys, StringKeys
    <2>6. QED
      BY <2>4, <2>5 DEF Line
  <1>2. CASE l.k \notin NumberKeys
    <2>1. l \in [k : StringKeys, v : Names]
      BY <1>2, LineValue
    <2>2. PICK w \in Beginnings[l.v] : c = [l EXCEPT !.v = w]
      BY <1>2 DEF CutLine
    <2>3. w \in Names
      BY <2>1, <2>2, ProfileAssumption
    <2>4. c \in [k : StringKeys, v : Names] /\ c.k = l.k /\ c.v = w
      BY <2>1, <2>2, <2>3, Zenon
    <2>5. QED
      BY <2>2, <2>4 DEF Line
  <1>3. QED
    BY <1>1, <1>2

LEMMA ReadType ==
  ASSUME NEW text \in Seq(Line)
  PROVE  Read(text) \subseteq Seq(Line)
  <1>1. CASE Len(text) <= TextCap
    BY <1>1 DEF Read
  <1>2. CASE Len(text) > TextCap
    <2> DEFINE kept == SubSeq(text, 1, TextCap)
    <2>1. TextCap \in Nat /\ Len(text) \in Nat
      BY ProfileAssumption
    <2>2. \A j \in 1..TextCap : text[j] \in Line
      BY <1>2, <2>1, ElementOfSeq
    <2>3. kept \in Seq(Line)
      BY <2>1, <2>2, SubSeqProperties
    <2>4. text[TextCap + 1] \in Line
      BY <1>2, <2>1, ElementOfSeq
    <2>5. CutLine(text[TextCap + 1]) \subseteq Line
      BY <2>4, CutLineType
    <2>6. \A l \in CutLine(text[TextCap + 1]) : Append(kept, l) \in Seq(Line)
      BY <2>3, <2>5
    <2>7. ~(Len(text) <= TextCap)
      BY <1>2, <2>1
    <2>8. QED
      BY <2>3, <2>6, <2>7 DEF Read
  <1>3. QED
    BY <1>1, <1>2, ProfileAssumption

-----------------------------------------------------------------------------
(***************************************************************************)
(* The inductive invariant.  Resolve's loop has, before item i, the best   *)
(* of the items before it, or none if none of them is a candidate.         *)
(***************************************************************************)
Before == 1..(i - 1)
ScoreOf(j) == oryx_profile_score(items[j])

NoneYet ==
  /\ best_score = Floor
  /\ \A j \in Before : Eligible(items[j], req) => ~Above(ScoreOf(j), Floor)

BestYet ==
  /\ Eligible(items[best], req)
  /\ best_score = ScoreOf(best) /\ Above(best_score, Floor)
  /\ \A j \in Before : Eligible(items[j], req) =>
       /\ ~Above(ScoreOf(j), best_score)
       /\ Equal(ScoreOf(j), best_score) => items[j].sample_count <= items[best].sample_count

Progress ==
  /\ st = "load" => i = 1 /\ best = 0
  /\ out = Undecided <=> st \in {"load", "resolve"}
  /\ best = 0 => NoneYet
  /\ best # 0 => BestYet

IInv == TypeOK /\ Progress

\* The score of an item of the set.
LEMMA ItemScore ==
  ASSUME TypeOK, NEW j \in 1..Len(items)
  PROVE  items[j] \in Profile /\ ScoreOf(j) \in Score
  <1>1. items[j] \in Profile
    BY ElementOfSeq DEF TypeOK
  <1>2. QED
    BY <1>1, ScoreType DEF ScoreOf

\* oryx_profile_set_init and the first lines of resolve.
LEMMA InitInv == Init => IInv
  <1> SUFFICES ASSUME Init PROVE IInv
    OBVIOUS
  <1>1. items \in Seq(Profile) /\ Len(items) = 0 /\ i = 1 /\ best = 0
    BY EmptySeq DEF Init
  <1>2. best_score \in [num : Int, den : Nat \ {0}]
    BY ScoreType DEF Init, Score
  <1>3. TypeOK
    BY <1>1, <1>2 DEF Init, TypeOK
  <1>4. Progress
    BY <1>1, ProfileAssumption DEF Init, Progress, NoneYet, Before
  <1>5. QED
    BY <1>3, <1>4 DEF IInv

\* A file that is read adds at most one profile, and parse has checked it.
LEMMA LoadFileItems ==
  ASSUME TypeOK, NEW f \in unread, LoadFile(f)
  PROVE  /\ items' \in Seq(Profile)
         /\ \A j \in DOMAIN items' : items'[j].sample_count < UintMod
         /\ Len(items') >= Len(items)
         /\ \A j \in DOMAIN items : j \in DOMAIN items' /\ items'[j] = items[j]
  <1>1. items \in Seq(Profile) /\ \A j \in DOMAIN items : items[j].sample_count < UintMod
    BY DEF TypeOK
  <1>2. CASE UNCHANGED items
    BY <1>1, <1>2
  <1>3. ASSUME NEW text \in Read(dir[f]), items' = Append(items, Parsed(text))
        PROVE  /\ items' \in Seq(Profile)
               /\ \A j \in DOMAIN items' : items'[j].sample_count < UintMod
               /\ Len(items') >= Len(items)
               /\ \A j \in DOMAIN items : j \in DOMAIN items' /\ items'[j] = items[j]
    <2>1. dir[f] \in Seq(Line)
      BY ProfileAssumption DEF TypeOK
    <2>2. Parsed(text) \in Profile /\ Parsed(text).sample_count < UintMod
      BY <1>3, <2>1, ReadType, ParsedType
    <2>3. /\ items' \in Seq(Profile) /\ Len(items') = Len(items) + 1
          /\ items'[Len(items) + 1] = Parsed(text)
          /\ \A j \in 1..Len(items) : items'[j] = items[j]
      BY <1>1, <1>3, <2>2, AppendProperties
    <2>4. DOMAIN items = 1..Len(items) /\ DOMAIN items' = 1..(Len(items) + 1) /\ Len(items) \in Nat
      BY <1>1, <2>3
    <2>5. QED
      BY <1>1, <2>2, <2>3, <2>4
  <1>4. QED
    BY <1>2, <1>3 DEF LoadFile

\* Loading keeps the invariant: the loop has not started.
LEMMA LoadFileStep ==
  ASSUME IInv, NEW f \in unread, LoadFile(f)
  PROVE  IInv'
  <1>1. TypeOK /\ Progress
    BY DEF IInv
  <1>2. i = 1 /\ best = 0 /\ st = "load"
    BY <1>1 DEF Progress, LoadFile
  <1>3. UNCHANGED <<req, dir, i, best, best_score, st, out>> /\ unread' = unread \ {f}
    BY DEF LoadFile
  <1>4. items' \in Seq(Profile) /\ \A j \in DOMAIN items' : items'[j].sample_count < UintMod
    BY <1>1, LoadFileItems
  <1>5. TypeOK'
    BY <1>1, <1>2, <1>3, <1>4 DEF TypeOK
  <1>6. Before' = {}
    BY <1>2, <1>3 DEF Before
  <1>7. Progress'
    BY <1>1, <1>2, <1>3, <1>6 DEF Progress, NoneYet
  <1>8. QED
    BY <1>5, <1>7 DEF IInv

\* The item is passed over: it is not eligible or does not beat the best so far.
LEMMA ItemPassed ==
  ASSUME IInv, ResolveItem, UNCHANGED <<best, best_score>>,
         ~(Eligible(items[i], req) /\ Replaces(items[i], ScoreOf(i)))
  PROVE  IInv'
  <1>1. TypeOK /\ Progress
    BY DEF IInv
  <1>2. i \in 1..Len(items) /\ i' = i + 1 /\ st = "resolve" /\ best \in 0..(i - 1)
    BY <1>1 DEF ResolveItem, TypeOK
  <1>3. UNCHANGED <<req, dir, unread, items, st, out>>
    BY DEF ResolveItem
  <1>4. TypeOK'
    BY <1>1, <1>2, <1>3 DEF TypeOK
  <1>5. Before' = Before \cup {i} /\ \A j \in Before' : ScoreOf(j)' = ScoreOf(j)
    BY <1>2, <1>3 DEF Before, ScoreOf
  <1>6. ScoreOf(i) \in Score /\ best_score \in Score
    BY <1>1, <1>2, ItemScore DEF TypeOK, Score
  <1>7. Eligible(items[i], req) =>
          /\ ~Above(ScoreOf(i), best_score)
          /\ Equal(ScoreOf(i), best_score) /\ best # 0
               => ~(items[i].sample_count > items[best].sample_count)
    BY DEF Replaces
  <1>8. CASE best = 0
    <2>1. NoneYet
      BY <1>1, <1>8 DEF Progress
    <2>2. NoneYet'
      <3>1. best_score' = Floor
        BY <2>1 DEF NoneYet
      <3>2. ASSUME NEW j \in Before', Eligible(items[j], req) PROVE ~Above(ScoreOf(j), Floor)
        BY <1>5, <1>7, <2>1, <3>2 DEF NoneYet
      <3>3. QED
        BY <1>3, <1>5, <3>1, <3>2 DEF NoneYet
    <2>3. QED
      BY <1>1, <1>2, <1>3, <1>4, <1>8, <2>2 DEF IInv, Progress
  <1>9. CASE best # 0
    <2>1. BestYet
      BY <1>1, <1>9 DEF Progress
    <2>2. items[i] \in Profile /\ items[best] \in Profile
      BY <1>1, <1>2, <1>9, ItemScore
    <2>3. items[i].sample_count \in Nat /\ items[best].sample_count \in Nat
      BY <2>2 DEF Profile
    <2>4. ASSUME NEW j \in Before', Eligible(items[j], req)
          PROVE  /\ ~Above(ScoreOf(j), best_score)
                 /\ Equal(ScoreOf(j), best_score)
                      => items[j].sample_count <= items[best].sample_count
      <3>1. CASE j = i
        BY <1>7, <1>9, <2>3, <2>4, <3>1
      <3>2. CASE j \in Before
        BY <2>1, <2>4, <3>2 DEF BestYet
      <3>3. QED
        BY <1>5, <3>1, <3>2
    <2>5. ScoreOf(best)' = ScoreOf(best)
      BY <1>3 DEF ScoreOf
    <2>6. BestYet'
      BY <1>3, <1>5, <2>1, <2>4, <2>5 DEF BestYet
    <2>7. QED
      BY <1>1, <1>2, <1>3, <1>4, <1>9, <2>6 DEF IInv, Progress
  <1>10. QED
    BY <1>8, <1>9

\* The item takes the place of the best so far, by its score or by its samples.
LEMMA ItemTaken ==
  ASSUME IInv, ResolveItem, best' = i, best_score' = ScoreOf(i),
         Eligible(items[i], req), Replaces(items[i], ScoreOf(i))
  PROVE  IInv'
  <1>1. TypeOK /\ Progress
    BY DEF IInv
  <1>2. i \in 1..Len(items) /\ i' = i + 1 /\ st = "resolve" /\ best \in 0..(i - 1)
    BY <1>1 DEF ResolveItem, TypeOK
  <1>3. UNCHANGED <<req, dir, unread, items, st, out>>
    BY DEF ResolveItem
  <1>4. ScoreOf(i) \in Score /\ best_score \in Score /\ Floor \in Score
    BY <1>1, <1>2, ItemScore, ScoreType DEF TypeOK, Score
  <1>5. TypeOK'
    BY <1>1, <1>2, <1>3, <1>4 DEF TypeOK, Score
  <1>6. Before' = Before \cup {i} /\ \A j \in Before' : ScoreOf(j)' = ScoreOf(j)
    BY <1>2, <1>3 DEF Before, ScoreOf
  <1>7. \A j \in Before : ScoreOf(j) \in Score /\ items[j] \in Profile
    BY <1>1, <1>2, ItemScore DEF Before
  <1>8. items[i] \in Profile
    BY <1>1, <1>2, ItemScore
  <1>9. Above(ScoreOf(i), Floor)
    <2>1. CASE best = 0
      <3>1. Above(ScoreOf(i), best_score)
        BY <2>1 DEF Replaces
      <3>2. QED
        BY <1>1, <2>1, <3>1 DEF Progress, NoneYet
    <2>2. CASE best # 0
      <3>1. Above(best_score, Floor)
        BY <1>1, <2>2 DEF Progress, BestYet
      <3>2. ~Above(Floor, best_score) /\ ~Equal(Floor, best_score)
        BY <1>4, <3>1, Trichotomy
      <3>3. ~Above(best_score, ScoreOf(i))
        BY <1>4, Trichotomy DEF Replaces
      <3>4. ~Above(Floor, ScoreOf(i)) /\ ~Equal(Floor, ScoreOf(i))
        BY <1>4, <3>2, <3>3, NotAboveTransitive
      <3>5. QED
        BY <1>4, <3>4, Trichotomy
    <2>3. QED
      BY <2>1, <2>2
  <1>10. ASSUME NEW j \in Before, Eligible(items[j], req)
         PROVE  /\ ~Above(ScoreOf(j), ScoreOf(i))
                /\ Equal(ScoreOf(j), ScoreOf(i)) => items[j].sample_count <= items[i].sample_count
    <2>1. ~Above(ScoreOf(j), best_score)
      BY <1>1, <1>10 DEF Progress, NoneYet, BestYet
    <2>2. ~Above(best_score, ScoreOf(i))
      BY <1>4, Trichotomy DEF Replaces
    <2>3. /\ ~Above(ScoreOf(j), ScoreOf(i))
          /\ Equal(ScoreOf(j), ScoreOf(i)) =>
               Equal(ScoreOf(j), best_score) /\ Equal(best_score, ScoreOf(i))
      BY <1>4, <1>7, <2>1, <2>2, NotAboveTransitive
    <2>4. ASSUME Equal(ScoreOf(j), ScoreOf(i))
          PROVE  items[j].sample_count <= items[i].sample_count
      <3>1. Equal(ScoreOf(j), best_score) /\ Equal(best_score, ScoreOf(i))
        BY <2>3, <2>4
      <3>2. ~Above(ScoreOf(i), best_score)
        BY <1>4, <3>1, Trichotomy
      <3>3. best # 0 /\ items[i].sample_count > items[best].sample_count
        BY <3>2 DEF Replaces
      <3>4. items[j].sample_count <= items[best].sample_count
        BY <1>1, <1>10, <3>1, <3>3 DEF Progress, BestYet
      <3>5. items[best] \in Profile
        BY <1>1, <1>2, <3>3, ItemScore
      <3>6. /\ items[i].sample_count \in Nat /\ items[j].sample_count \in Nat
            /\ items[best].sample_count \in Nat
        BY <1>7, <1>8, <3>5 DEF Profile
      <3>7. QED
        BY <3>3, <3>4, <3>6
    <2>5. QED
      BY <2>3, <2>4
  <1>11. /\ ~Above(ScoreOf(i), ScoreOf(i))
         /\ items[i].sample_count <= items[i].sample_count
    BY <1>4, <1>8, Trichotomy DEF Profile
  <1>12. \A j \in Before' : Eligible(items[j], req) =>
           /\ ~Above(ScoreOf(j), ScoreOf(i))
           /\ Equal(ScoreOf(j), ScoreOf(i)) => items[j].sample_count <= items[i].sample_count
    BY <1>6, <1>10, <1>11
  <1>13. ScoreOf(best)' = ScoreOf(i)
    BY <1>3 DEF ScoreOf
  <1>14. BestYet'
    BY <1>3, <1>6, <1>9, <1>12, <1>13 DEF BestYet
  <1>15. best' # 0
    BY <1>2
  <1>16. QED
    BY <1>1, <1>2, <1>3, <1>5, <1>14, <1>15 DEF IInv, Progress

\* One iteration of resolve's loop.
LEMMA ResolveItemStep == IInv /\ ResolveItem => IInv'
  <1> SUFFICES ASSUME IInv, ResolveItem PROVE IInv'
    OBVIOUS
  <1>1. CASE Eligible(items[i], req) /\ Replaces(items[i], ScoreOf(i))
    BY <1>1, ItemTaken DEF ResolveItem, ScoreOf
  <1>2. CASE ~(Eligible(items[i], req) /\ Replaces(items[i], ScoreOf(i)))
    BY <1>2, ItemPassed DEF ResolveItem, ScoreOf
  <1>3. QED
    BY <1>1, <1>2

\* The steps that start and end the loop, and the failing ones.
LEMMA PhaseStep ==
  ASSUME IInv, CannotOpen \/ LoadEnds \/ ResolveEnds \/ UNCHANGED vars
  PROVE  IInv'
  <1>1. TypeOK /\ Progress
    BY DEF IInv
  <1>2. /\ UNCHANGED <<req, dir, unread, items, i, best, best_score>>
        /\ \/ UNCHANGED <<st, out>>
           \/ st' = "FAIL" /\ out' = Nothing
           \/ st = "load" /\ st' = "resolve" /\ UNCHANGED out
           \/ st' = "free" /\ out' = IF best # 0 THEN items[best] ELSE Nothing
    BY DEF CannotOpen, LoadEnds, ResolveEnds, vars
  <1>3. best # 0 => items[best] \in Profile
    BY <1>1, ItemScore DEF TypeOK
  <1>4. TypeOK'
    BY <1>1, <1>2, <1>3 DEF TypeOK
  <1>5. /\ st' = "load" => i = 1 /\ best = 0
        /\ out' = Undecided <=> st' \in {"load", "resolve"}
    BY <1>1, <1>2, <1>3, ProfileAssumption DEF Progress
  <1>6. (best' = 0 => NoneYet') /\ (best' # 0 => BestYet')
    BY <1>1, <1>2 DEF Progress, NoneYet, BestYet, Before, ScoreOf
  <1>7. QED
    BY <1>2, <1>4, <1>5, <1>6 DEF IInv, Progress

\* oryx_profile_set_free leaves an empty set.
LEMMA FreeStep == IInv /\ Free => IInv'
  <1> SUFFICES ASSUME IInv, Free PROVE IInv'
    OBVIOUS
  <1>1. items' \in Seq(Profile) /\ Len(items') = 0 /\ i' = 1 /\ best' = 0
    BY EmptySeq DEF Free
  <1>2. best_score' \in [num : Int, den : Nat \ {0}]
    BY ScoreType DEF Free, Score
  <1>3. TypeOK'
    BY <1>1, <1>2 DEF Free, TypeOK, IInv
  <1>4. Progress'
    BY <1>1 DEF Free, IInv, Progress, NoneYet, Before
  <1>5. QED
    BY <1>3, <1>4 DEF IInv

LEMMA NextInv == IInv /\ [Next]_vars => IInv'
  BY LoadFileStep, ResolveItemStep, PhaseStep, FreeStep DEF Next

\* The inductive invariant holds of the profile engine.
THEOREM Invariance == Spec => []IInv
  BY InitInv, NextInv, PTL DEF Spec

\* Type correctness: whatever the files hold and wherever a read cuts them, the
\* set holds profiles whose sample_count fits its 32 bits.
THEOREM Typing == Spec => []TypeOK
  <1>1. IInv => TypeOK
    BY DEF IInv
  <1>2. QED
    BY <1>1, Invariance, PTL

-----------------------------------------------------------------------------
(* The engine implements Choice *)

\* The loop has seen every item: its best is a best of the pool.
LEMMA EndsWithBest ==
  ASSUME IInv, i > Len(items)
  PROVE  /\ best # 0 => items[best] \in Best(Members, req)
         /\ best = 0 => Candidates(Members, req) = {}
  <1>1. TypeOK /\ Progress
    BY DEF IInv
  <1>2. Before = DOMAIN items
    BY <1>1 DEF TypeOK, Before
  <1>3. CASE best = 0
    BY <1>1, <1>2, <1>3 DEF Progress, NoneYet, ScoreOf, Candidates, Members
  <1>4. CASE best # 0
    <2>1. BestYet
      BY <1>1, <1>4 DEF Progress
    <2>2. best \in 1..Len(items) /\ best \in DOMAIN items
      BY <1>1, <1>4 DEF TypeOK
    <2>3. items[best] \in Profile /\ ScoreOf(best) \in Score
      BY <1>1, <2>2, ItemScore
    <2>4. items[best] \in Candidates(Members, req)
      BY <2>1, <2>2 DEF BestYet, ScoreOf, Candidates, Members
    <2>5. ASSUME NEW q \in Candidates(Members, req)
          PROVE  \/ Above(oryx_profile_score(items[best]), oryx_profile_score(q))
                 \/ /\ Equal(oryx_profile_score(items[best]), oryx_profile_score(q))
                    /\ items[best].sample_count >= q.sample_count
      <3>1. PICK j \in DOMAIN items : q = items[j]
        BY <2>5 DEF Candidates, Members
      <3>2. Eligible(items[j], req)
        BY <2>5, <3>1 DEF Candidates
      <3>3. /\ ~Above(ScoreOf(j), ScoreOf(best))
            /\ Equal(ScoreOf(j), ScoreOf(best))
                 => items[j].sample_count <= items[best].sample_count
        BY <1>2, <2>1, <3>2 DEF BestYet
      <3>4. j \in 1..Len(items)
        BY <1>1 DEF TypeOK
      <3>5. items[j] \in Profile /\ ScoreOf(j) \in Score
        BY <1>1, <3>4, ItemScore
      <3>6. items[j].sample_count \in Nat /\ items[best].sample_count \in Nat
        BY <2>3, <3>5 DEF Profile
      <3>7. \/ Above(ScoreOf(best), ScoreOf(j))
            \/ /\ Equal(ScoreOf(best), ScoreOf(j))
               /\ items[best].sample_count >= items[j].sample_count
        BY <2>3, <3>3, <3>5, <3>6, Trichotomy
      <3>8. QED
        BY <3>1, <3>7 DEF ScoreOf
    <2>6. QED
      BY <1>4, <2>4, <2>5 DEF Best
  <1>5. QED
    BY <1>3, <1>4

\* Choice ranks profiles as the engine does.
LEMMA SameRanking ==
  ASSUME NEW P, NEW r
  PROVE  Chosen!Candidates(P, r) = Candidates(P, r) /\ Chosen!Best(P, r) = Best(P, r)
  BY DEF Chosen!Candidates, Candidates, Chosen!Best, Best, Chosen!Eligible, Eligible,
         Chosen!oryx_profile_compatible, oryx_profile_compatible,
         Chosen!oryx_profile_score, oryx_profile_score,
         Chosen!Above, Above, Chosen!Equal, Equal, Chosen!Floor, Floor

\* Step simulation: files are collected, the end of the loop chooses, free forgets.
LEMMA StepRefines == IInv /\ [Next]_vars => [Chosen!Next]_(Chosen!cvars)
  <1> SUFFICES ASSUME IInv, [Next]_vars
               PROVE  Chosen!Next \/ UNCHANGED <<req, Members, out>>
    BY DEF Chosen!cvars
  <1>1. TypeOK /\ Progress
    BY DEF IInv
  <1>2. CASE LoadEnds \/ ResolveItem \/ UNCHANGED vars
    BY <1>2 DEF LoadEnds, ResolveItem, vars, Members
  <1>3. ASSUME NEW f \in unread, LoadFile(f) PROVE Chosen!Collect
    <2>1. out = Undecided /\ UNCHANGED <<req, out>>
      BY <1>1, <1>3 DEF LoadFile, Progress
    <2>2. /\ items' \in Seq(Profile)
          /\ \A j \in DOMAIN items : j \in DOMAIN items' /\ items'[j] = items[j]
      BY <1>1, <1>3, LoadFileItems
    <2>3. \A j \in DOMAIN items' : items'[j] \in Profile
      BY <2>2, ElementOfSeq
    <2>4. Members' \in SUBSET Profile /\ Members \subseteq Members'
      BY <2>2, <2>3 DEF Members
    <2>5. QED
      BY <2>1, <2>4 DEF Chosen!Collect, Chosen!Profile, Profile
  <1>4. CASE CannotOpen
    <2>1. Members = {} /\ Candidates(Members, req) = {}
      BY <1>4 DEF CannotOpen, Members, Candidates
    <2>2. QED
      BY <1>1, <1>4, <2>1, SameRanking
      DEF CannotOpen, Progress, Members, Chosen!Next, Chosen!Choose
  <1>5. CASE ResolveEnds
    <2>1. out = Undecided /\ UNCHANGED <<req, items>> /\ i > Len(items)
      BY <1>1, <1>5 DEF ResolveEnds, Progress
    <2>2. out' \in Best(Members, req) \/ (Candidates(Members, req) = {} /\ out' = Nothing)
      BY <1>5, <2>1, EndsWithBest DEF ResolveEnds
    <2>3. Members' = Members
      BY <2>1 DEF Members
    <2>4. QED
      BY <2>1, <2>2, <2>3, SameRanking DEF Chosen!Next, Chosen!Choose
  <1>6. CASE Free
    <2>1. out # Undecided /\ UNCHANGED <<req, out>> /\ items' = <<>>
      BY <1>1, <1>6 DEF Free, Progress
    <2>2. Members' = {}
      BY <2>1 DEF Members
    <2>3. QED
      BY <2>1, <2>2 DEF Chosen!Next, Chosen!Forget
  <1>7. QED
    BY <1>2, <1>3, <1>4, <1>5, <1>6 DEF Next, Chosen!Next

\* For every directory, request and order of files, oryx_profile_resolve returns
\* a best-scoring compatible profile of those that could be read, or NOTFOUND
\* exactly when none of them is a candidate.
THEOREM Implements == Spec => ChoosesBest
  <1>1. Init => Chosen!Init
    <2> SUFFICES ASSUME Init PROVE Chosen!Init
      OBVIOUS
    <2>1. req \in Request /\ Members = {} /\ out = Undecided
      BY ProfileAssumption DEF Init, Members
    <2>2. QED
      BY <2>1 DEF Chosen!Init, Chosen!Request, Request
  <1>2. QED
    BY <1>1, StepRefines, Invariance, PTL DEF Spec, ChoosesBest, Chosen!Spec

-----------------------------------------------------------------------------
(* Threads and the driver *)

ThreadStates == {"new", "opened", "enabled", "refused", "hard", "closing", "soft", "end"}

\* A thread that holds an fd, or a grant, is in a state that will give it back.
ThreadInv ==
  /\ thr \in [Threads -> ThreadStates]
  /\ order \in [Threads -> {"software", "hardware"}]
  /\ \A t \in Threads :
       /\ t \in fds <=> thr[t] \in {"opened", "enabled", "refused", "hard", "closing"}
       /\ t \in granted <=> thr[t] \in {"enabled", "hard"}
       /\ order[t] = "hardware" <=> thr[t] = "hard"

LEMMA ThreadStart == LaunchInit => ThreadInv
  BY DEF LaunchInit, Driver!Init, ThreadInv, ThreadStates

\* Every call of liboryxmm keeps it, failing ones included.
LEMMA ThreadStep ==
  ASSUME ThreadInv, NEW t \in Threads, Thread(t)
  PROVE  ThreadInv'
  <1> USE DEF ThreadInv, ThreadStates, Go
  <1>1. CASE NoRequest(t)  BY <1>1 DEF NoRequest, driver
  <1>2. CASE oryx_mm_open(t)  BY <1>2 DEF oryx_mm_open, driver, Driver!Open
  <1>3. CASE oryx_mm_enable_tso(t)  BY <1>3 DEF oryx_mm_enable_tso, driver, Driver!Grant
  <1>4. CASE ThreadTsoOn(t)  BY <1>4 DEF ThreadTsoOn
  <1>5. CASE ThreadTsoOff(t)  BY <1>5 DEF ThreadTsoOff, Driver!Close
  <1>6. CASE GiveBack(t)  BY <1>6 DEF GiveBack, Driver!Return
  <1>7. CASE oryx_mm_close(t)  BY <1>7 DEF oryx_mm_close, Driver!Close
  <1>8. CASE SoftEnds(t)  BY <1>8 DEF SoftEnds, driver
  <1>9. QED
    BY <1>1, <1>2, <1>3, <1>4, <1>5, <1>6, <1>7, <1>8 DEF Thread

LEMMA ThreadNext == ThreadInv /\ [LaunchNext]_allvars => ThreadInv'
  <1> SUFFICES ASSUME ThreadInv, [LaunchNext]_allvars PROVE ThreadInv'
    OBVIOUS
  <1>1. CASE UNCHANGED <<thr, driver>>
    BY <1>1 DEF ThreadInv, driver
  <1>2. CASE \E t \in Threads : Thread(t)
    BY <1>2, ThreadStep
  <1>3. QED
    BY <1>1, <1>2 DEF LaunchNext, Cli, Evaluate, Exec, allvars, lvars, driver

-----------------------------------------------------------------------------
(* From the file to the environment *)

\* A parsed profile is HW_TSO only if a line of the text says so.
LEMMA ParsedSays ==
  ASSUME NEW text \in Seq(Line), Parsed(text).memmodel = "HW_TSO"
  PROVE  SaysHardware(text)
  <1>1. Value(text, "memmodel", Unset) = "hw_tso"
    BY DEF Parsed, MemmodelOf
  <1>2. Unset # "hw_tso"
    BY Zenon DEF Unset
  <1>3. QED
    BY <1>1, <1>2, ValueFromLine DEF SaysHardware

\* Cutting a file adds no line that says so, unless it cuts a longer word to it.
LEMMA ReadSays ==
  ASSUME NEW text \in Seq(Line), NEW part \in Read(text), SaysHardware(part)
  PROVE  SaysHardware(text) \/ CutToHardware(text)
  <1>1. CASE Len(text) <= TextCap
    BY <1>1 DEF Read
  <1>2. CASE ~(Len(text) <= TextCap)
    <2> DEFINE kept == SubSeq(text, 1, TextCap)
               last == text[TextCap + 1]
    <2>1. TextCap \in Nat /\ Len(text) \in Nat /\ TextCap < Len(text)
      BY <1>2, ProfileAssumption
    <2>2. \A j \in 1..TextCap : text[j] \in Line
      BY <2>1, ElementOfSeq
    <2>3. /\ kept \in Seq(Line) /\ Len(kept) = TextCap
          /\ \A j \in 1..TextCap : kept[j] = text[j]
      BY <2>1, <2>2, SubSeqProperties
    <2>4. last \in Line
      BY <2>1, ElementOfSeq
    <2>5. ASSUME NEW cut \in CutLine(last), cut.k = "memmodel", cut.v = "hw_tso"
          PROVE  CutToHardware(text)
      <3>1. last.k = "memmodel" /\ "hw_tso" \in Beginnings[last.v]
        BY <2>4, <2>5, CutLineType DEF StringKeys
      <3>2. QED
        BY <2>1, <3>1 DEF CutToHardware
    <2>6. CutLine(last) \subseteq Line
      BY <2>4, CutLineType
    <2>7. part = kept \/ \E cut \in CutLine(last) : part = Append(kept, cut)
      BY <1>2 DEF Read
    <2> HIDE DEF kept, last
    <2>8. PICK j \in DOMAIN part : part[j].k = "memmodel" /\ part[j].v = "hw_tso"
      BY DEF SaysHardware
    <2>9. ASSUME j \in 1..TextCap, part[j] = kept[j]
          PROVE  SaysHardware(text)
      <3>1. j \in DOMAIN text /\ text[j] = part[j]
        BY <2>1, <2>3, <2>9
      <3>2. QED
        BY <2>8, <3>1 DEF SaysHardware
    <2>10. CASE part = kept
      BY <2>3, <2>9, <2>10
    <2>11. ASSUME NEW cut \in CutLine(last), part = Append(kept, cut)
           PROVE  SaysHardware(text) \/ CutToHardware(text)
      <3>1. /\ Len(part) = TextCap + 1 /\ part[TextCap + 1] = cut
            /\ DOMAIN part = 1..(TextCap + 1)
            /\ \A n \in 1..TextCap : part[n] = kept[n]
        BY <2>1, <2>3, <2>6, <2>11, AppendProperties
      <3>2. CASE j = TextCap + 1
        BY <2>5, <2>8, <3>1, <3>2
      <3>3. CASE j # TextCap + 1
        BY <2>1, <2>9, <3>1, <3>3
      <3>4. QED
        BY <3>2, <3>3
    <2>12. QED
      BY <2>7, <2>10, <2>11
  <1>3. QED
    BY <1>1, <1>2

(***************************************************************************)
(* Beside the invariant of the engine: every item of the set, and the      *)
(* profile resolved, is backed by its file if it wants the hardware; the   *)
(* environment is empty or that of the profile resolved.                   *)
(***************************************************************************)
FileSays(p) ==
  \E f \in DOMAIN dir : Yields(f, p) /\ (SaysHardware(dir[f]) \/ CutToHardware(dir[f]))
Backed(p) == p.memmodel = "HW_TSO" => FileSays(p)

EngineInv ==
  /\ IInv
  /\ \A j \in DOMAIN items : Backed(items[j])
  /\ out \in Profile => Backed(out) /\ Eligible(out, req)
  /\ st = "OK" => out # Nothing

EnvInv ==
  /\ ph = "cli" => env = <<>>
  /\ env = <<>> \/ (out \in Profile /\ env = Evaluated(out))

LEMMA EngineStart == Init => EngineInv
  BY InitInv, ProfileAssumption DEF Init, EngineInv

\* Loading keeps every item backed by the file it came from.
LEMMA LoadBacked ==
  ASSUME EngineInv, NEW f \in unread, LoadFile(f)
  PROVE  \A j \in DOMAIN items' : Backed(items'[j])
  <1>1. TypeOK
    BY DEF EngineInv, IInv
  <1>2. items \in Seq(Profile) /\ f \in DOMAIN dir /\ dir[f] \in Seq(Line)
    BY <1>1, ProfileAssumption DEF TypeOK
  <1>3. CASE UNCHANGED items
    BY <1>3 DEF EngineInv
  <1>4. ASSUME NEW text \in Read(dir[f]), items' = Append(items, Parsed(text))
        PROVE  \A j \in DOMAIN items' : Backed(items'[j])
    <2>1. text \in Seq(Line) /\ Parsed(text) \in Profile
      BY <1>2, <1>4, ReadType, ParsedType
    <2>2. ASSUME Parsed(text).memmodel = "HW_TSO" PROVE FileSays(Parsed(text))
      <3>1. SaysHardware(dir[f]) \/ CutToHardware(dir[f])
        BY <1>2, <2>1, <2>2, ParsedSays, ReadSays
      <3>2. Yields(f, Parsed(text))
        BY DEF Yields
      <3>3. QED
        BY <1>2, <3>1, <3>2 DEF FileSays
    <2>3. Backed(Parsed(text))
      BY <2>2 DEF Backed
    <2>4. \A j \in DOMAIN items' :
            \/ j \in DOMAIN items /\ items'[j] = items[j]
            \/ items'[j] = Parsed(text)
      BY <1>2, <1>4, <2>1, AppendProperties
    <2>5. QED
      BY <2>3, <2>4 DEF EngineInv
  <1>5. QED
    BY <1>3, <1>4 DEF LoadFile, EngineInv

LEMMA EngineStep == EngineInv /\ [Next]_vars => EngineInv'
  <1> SUFFICES ASSUME EngineInv, [Next]_vars PROVE EngineInv'
    OBVIOUS
  <1>1. IInv' /\ IInv
    BY NextInv DEF EngineInv
  <1>2. dir' = dir /\ req' = req
    BY DEF Next, CannotOpen, LoadFile, LoadEnds, ResolveItem, ResolveEnds, Free, vars
  <1>3. /\ \A j \in DOMAIN items' : Backed(items'[j])
        /\ out' \in Profile => Backed(out') /\ Eligible(out', req)
        /\ st' = "OK" => out' # Nothing
    <2>1. CASE \E f \in unread : LoadFile(f)
      <3>1. UNCHANGED <<out, st>>
        BY <2>1 DEF LoadFile
      <3>2. QED
        BY <2>1, <3>1, LoadBacked DEF EngineInv
    <2>2. CASE CannotOpen \/ LoadEnds \/ ResolveItem \/ UNCHANGED vars
      <3>1. UNCHANGED items /\ (UNCHANGED out \/ out' = Nothing) /\ (st' = "OK" => st = "OK" /\ UNCHANGED out)
        BY <2>2 DEF CannotOpen, LoadEnds, ResolveItem, vars
      <3>2. QED
        BY <3>1, ProfileAssumption DEF EngineInv
    <2>3. CASE ResolveEnds
      <3>1. UNCHANGED items /\ st' = "free" /\ out' = IF best # 0 THEN items[best] ELSE Nothing
        BY <2>3 DEF ResolveEnds
      <3>2. best # 0 => best \in DOMAIN items /\ Eligible(items[best], req)
        BY <1>1 DEF IInv, TypeOK, Progress, BestYet
      <3>3. QED
        BY <3>1, <3>2, ProfileAssumption DEF EngineInv
    <2>4. CASE Free
      <3>1. items' = <<>> /\ UNCHANGED out /\ (st' = "OK" => out # Nothing)
        BY <2>4 DEF Free
      <3>2. QED
        BY <3>1 DEF EngineInv
    <2>5. QED
      BY <2>1, <2>2, <2>3, <2>4 DEF Next
  <1>4. /\ \A j \in DOMAIN items' : Backed(items[j])'
        /\ out' \in Profile => Backed(out)' /\ Eligible(out, req)'
    BY <1>2, <1>3 DEF Backed, FileSays, Yields, Eligible, oryx_profile_compatible
  <1>5. QED
    BY <1>1, <1>3, <1>4 DEF EngineInv

\* A launch with an environment has resolved a profile and does not change it.
LEMMA EnvNext == EngineInv /\ EnvInv /\ [LaunchNext]_allvars => EngineInv' /\ EnvInv'
  <1> SUFFICES ASSUME EngineInv, EnvInv, [LaunchNext]_allvars PROVE EngineInv' /\ EnvInv'
    OBVIOUS
  <1>1. [Next]_vars
    BY DEF LaunchNext, Cli, Evaluate, Exec, Thread, allvars
  <1>2. EngineInv'
    BY <1>1, EngineStep
  <1>3. CASE Cli
    BY <1>2, <1>3 DEF Cli, lvars, EnvInv
  <1>4. CASE Evaluate
    <2>1. st = "OK" => out \in Profile
      BY DEF EngineInv, IInv, TypeOK, Progress
    <2>2. UNCHANGED vars /\ env = <<>> /\ ph' # "cli"
      BY <1>4 DEF Evaluate, EnvInv
    <2>3. out' = out
      BY <2>2 DEF vars
    <2>4. Evaluated(out)' = Evaluated(out)
      BY <2>3 DEF Evaluated, oryx_profile_apply_env
    <2>5. QED
      BY <1>2, <1>4, <2>1, <2>2, <2>3, <2>4 DEF Evaluate, EnvInv
  <1>5. CASE Exec \/ (\E t \in Threads : Thread(t)) \/ UNCHANGED allvars
    <2>1. UNCHANGED <<out, env>> /\ (ph' = "cli" => ph = "cli")
      <3>1. CASE Exec
        BY <3>1 DEF Exec, vars
      <3>2. CASE \E t \in Threads : Thread(t)
        BY <3>2 DEF Thread, vars
      <3>3. CASE UNCHANGED allvars
        BY <3>3 DEF allvars, lvars, vars
      <3>4. QED
        BY <1>5, <3>1, <3>2, <3>3
    <2>2. Evaluated(out)' = Evaluated(out)
      BY <2>1 DEF Evaluated, oryx_profile_apply_env
    <2>3. QED
      BY <1>2, <2>1, <2>2 DEF EnvInv
  <1>6. QED
    BY <1>2, <1>3, <1>4, <1>5 DEF LaunchNext

LEMMA EnvStart == LaunchInit => EngineInv /\ EnvInv
  BY EngineStart DEF LaunchInit, EnvInv

\* A variable no setting assigns has the value that was printed.
LEMMA EvaluatedValue ==
  ASSUME NEW p \in Profile, NEW x, x \notin DOMAIN Behind[p.resolution].sets
  PROVE  /\ x \in DOMAIN Evaluated(p) <=> x \in DOMAIN oryx_profile_apply_env(p)
         /\ x \in DOMAIN Evaluated(p) => Evaluated(p)[x] = oryx_profile_apply_env(p)[x]
  <1> DEFINE printed == oryx_profile_apply_env(p)
             more    == Behind[p.resolution].sets
  <1> HIDE DEF printed, more
  <1>1. Evaluated(p) = [ x_1 \in DOMAIN printed \cup DOMAIN more |->
                           IF x_1 \in DOMAIN more THEN more[x_1] ELSE printed[x_1] ]
    BY DEF Evaluated, printed, more
  <1>2. x \notin DOMAIN more
    BY DEF more
  <1>3. QED
    BY <1>1, <1>2 DEF printed

\* What oryx_profile_apply_env prints about ordering.
LEMMA Printed ==
  ASSUME NEW p \in Profile
  PROVE  LET e == oryx_profile_apply_env(p)
         IN  /\ {"ORYX_BACKEND", "ORYX_MM_TSO"} \subseteq DOMAIN e
             /\ e["ORYX_BACKEND"] = p.backend
             /\ e["ORYX_MM_TSO"] = IF p.memmodel = "HW_TSO" THEN "1" ELSE "0"
             /\ p.memmodel = "SW_FENCES" /\ p.backend = "BOX64" =>
                  "BOX64_DYNAREC_STRONGMEM" \in DOMAIN e /\ e["BOX64_DYNAREC_STRONGMEM"] = "1"
             /\ p.memmodel = "SW_FENCES" /\ p.backend = "FEX" =>
                  "FEX_TSOENABLED" \in DOMAIN e /\ e["FEX_TSOENABLED"] = "1"
             /\ "FEX_TSOENABLED" \in DOMAIN e =>
                  p.backend = "FEX" /\ (p.memmodel = "SW_FENCES" => e["FEX_TSOENABLED"] = "1")
  <1>1. p.backend \in {"BOX64", "FEX"} /\ p.memmodel \in {"SW_FENCES", "HW_TSO"}
    BY DEF Profile
  <1>2. QED
    BY <1>1 DEF oryx_profile_apply_env

\* For every directory and request: hardware ordering reaches the emulator only
\* if the device offers it and the file of the chosen profile asks for it, or is cut
\* behind a word's letters hw_tso; and otherwise the software knob of the chosen backend
\* is on.  A setting that assigns one of the ordering variables is excepted.
THEOREM ExportedOrdering == LaunchSpec => []OrderingExported
  <1>1. EngineInv /\ EnvInv => OrderingExported
    <2> SUFFICES ASSUME EngineInv, EnvInv, env # <<>>,
                        DOMAIN Behind[out.resolution].sets \cap Ordering = {}
                 PROVE  OrderingExported
      BY DEF OrderingExported
    <2>1. out \in Profile /\ env = Evaluated(out)
      BY DEF EnvInv
    <2>2. out.backend \in {"BOX64", "FEX"} /\ out.memmodel \in {"SW_FENCES", "HW_TSO"}
      BY <2>1 DEF Profile
    <2>3. \A x \in Ordering :
            /\ x \in DOMAIN env <=> x \in DOMAIN oryx_profile_apply_env(out)
            /\ x \in DOMAIN env => env[x] = oryx_profile_apply_env(out)[x]
      BY <2>1, EvaluatedValue
    <2>4. CASE out.memmodel = "HW_TSO"
      <3>1. Asks
        BY <2>1, <2>3, <2>4, Printed DEF Asks, Ordering
      <3>2. FileSays(out) /\ req.hw_tso
        BY <2>1, <2>4 DEF EngineInv, Backed, Eligible, oryx_profile_compatible
      <3>3. QED
        BY <3>1, <3>2 DEF OrderingExported, FileSays
    <2>5. CASE out.memmodel = "SW_FENCES"
      <3>1. env["ORYX_MM_TSO"] = "0" /\ env["ORYX_BACKEND"] = out.backend
        BY <2>1, <2>3, <2>5, Printed DEF Ordering
      <3>2. ~Asks
        BY <3>1 DEF Asks
      <3>3. /\ out.backend = "BOX64" => env["BOX64_DYNAREC_STRONGMEM"] = "1"
            /\ out.backend = "FEX" => env["FEX_TSOENABLED"] = "1"
        BY <2>1, <2>3, <2>5, Printed DEF Ordering
      <3>4. QED
        BY <2>2, <3>1, <3>2, <3>3 DEF OrderingExported
    <2>6. QED
      BY <2>2, <2>4, <2>5
  <1>2. QED
    BY <1>1, EnvStart, EnvNext, PTL DEF LaunchSpec

\* Software ordering is off only by the profile's own doing.
LEMMA OffByProfile ==
  ASSUME EnvInv, SoftwareOff
  PROVE  out \in Profile /\ TurnsOff(out)
  <1>1. env # <<>>
    BY DEF SoftwareOff
  <1>2. out \in Profile /\ env = Evaluated(out)
    BY <1>1 DEF EnvInv
  <1>3. CASE "FEX_TSOENABLED" \in DOMAIN Behind[out.resolution].sets
    BY <1>2, <1>3 DEF TurnsOff
  <1>4. CASE "FEX_TSOENABLED" \notin DOMAIN Behind[out.resolution].sets
    <2>1. /\ "FEX_TSOENABLED" \in DOMAIN oryx_profile_apply_env(out)
          /\ oryx_profile_apply_env(out)["FEX_TSOENABLED"] = "0"
      BY <1>2, <1>4, EvaluatedValue DEF SoftwareOff
    <2>2. out.backend = "FEX" /\ out.memmodel # "SW_FENCES"
      BY <1>2, <2>1, Printed
    <2>3. QED
      BY <1>2, <2>2 DEF TurnsOff, Profile
  <1>5. QED
    BY <1>3, <1>4

\* However many threads there are and whichever of their calls fail: a thread is
\* told that TSO is on only under a grant, keeps no fd without one, and runs
\* unordered only after a refusal and under a profile that had switched software
\* ordering off.
THEOREM ClosedOnFailure == LaunchSpec => []FailsClosed
  <1>1. ThreadInv /\ EnvInv => FailsClosed
    <2> SUFFICES ASSUME ThreadInv, EnvInv, NEW t \in Threads
                 PROVE  /\ order[t] = "hardware" \/ thr[t] = "hard" => t \in granted
                        /\ thr[t] \in {"soft", "end"} => t \notin fds
                        /\ thr[t] \in {"soft", "hard"} /\ ~Ordered(t) =>
                             thr[t] = "soft" /\ out \in Profile /\ TurnsOff(out)
      BY DEF FailsClosed
    <2>1. /\ order[t] = "hardware" \/ thr[t] = "hard" => t \in granted
          /\ thr[t] \in {"soft", "end"} => t \notin fds
      BY DEF ThreadInv
    <2>2. thr[t] = "hard" => Ordered(t)
      BY <2>1 DEF ThreadInv, Ordered
    <2>3. ~Ordered(t) => out \in Profile /\ TurnsOff(out)
      BY OffByProfile DEF Ordered
    <2>4. QED
      BY <2>1, <2>2, <2>3
  <1>2. QED
    BY <1>1, ThreadStart, ThreadNext, EnvStart, EnvNext, PTL DEF LaunchSpec

=============================================================================
