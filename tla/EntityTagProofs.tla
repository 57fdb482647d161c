--------------------------- MODULE EntityTagProofs ---------------------------
(***************************************************************************)
(* Proofs about the entity tags of FeaturesController: what the generated  *)
(* GenerateEntitiesTag hashes tells two lists of features apart.           *)
(*                                                                         *)
(* The tag of a list is defined by recursion along the list.  What it is   *)
(* for every list is shown by induction, here in the form of the least     *)
(* number for which it fails.                                              *)
(***************************************************************************)
EXTENDS FeaturesController, FeatureAnswersProofs, SequenceTheorems

-----------------------------------------------------------------------------
(* The text of one entity: five values with bars between them, of which    *)
(* the last three are one word each.                                       *)
LEMMA OneMoreWord ==
  ASSUME NEW T, NEW s \in Seq(T), NEW w \in T
  PROVE  /\ s \o <<w>> \in Seq(T)
         /\ Len(s \o <<w>>) = Len(s) + 1
         /\ \A i \in 1 .. Len(s) : (s \o <<w>>)[i] = s[i]
         /\ (s \o <<w>>)[Len(s) + 1] = w
OBVIOUS

SixMore(s, a, b, c, d, e, f) ==
  s \o <<a>> \o <<b>> \o <<c>> \o <<d>> \o <<e>> \o <<f>>

EndsWithSix(t, T, s, a, b, c, d, e, f) ==
  /\ t \in Seq(T)
  /\ Len(t) = Len(s) + 6
  /\ \A i \in 1 .. Len(s) : t[i] = s[i]
  /\ t[Len(s) + 1] = a /\ t[Len(s) + 2] = b /\ t[Len(s) + 3] = c
  /\ t[Len(s) + 4] = d /\ t[Len(s) + 5] = e /\ t[Len(s) + 6] = f

LEMMA SixMoreWords ==
  ASSUME NEW T, NEW s \in Seq(T), NEW a \in T, NEW b \in T, NEW c \in T,
         NEW d \in T, NEW e \in T, NEW f \in T
  PROVE  EndsWithSix(SixMore(s, a, b, c, d, e, f), T, s, a, b, c, d, e, f)
<1> DEFINE t1 == s \o <<a>>
           t2 == t1 \o <<b>>
           t3 == t2 \o <<c>>
           t4 == t3 \o <<d>>
           t5 == t4 \o <<e>>
           t6 == t5 \o <<f>>
<1>1. SixMore(s, a, b, c, d, e, f) = t6
  BY DEF SixMore
<1> HIDE DEF t1, t2, t3, t4, t5, t6
<1>2. /\ t1 \in Seq(T) /\ Len(t1) = Len(s) + 1 /\ t1[Len(s) + 1] = a
      /\ \A i \in 1 .. Len(s) : t1[i] = s[i]
  BY OneMoreWord DEF t1
<1>3. /\ t2 \in Seq(T) /\ Len(t2) = Len(t1) + 1 /\ t2[Len(t1) + 1] = b
      /\ \A i \in 1 .. Len(t1) : t2[i] = t1[i]
  BY <1>2, OneMoreWord DEF t2
<1>4. /\ t3 \in Seq(T) /\ Len(t3) = Len(t2) + 1 /\ t3[Len(t2) + 1] = c
      /\ \A i \in 1 .. Len(t2) : t3[i] = t2[i]
  BY <1>3, OneMoreWord DEF t3
<1>5. /\ t4 \in Seq(T) /\ Len(t4) = Len(t3) + 1 /\ t4[Len(t3) + 1] = d
      /\ \A i \in 1 .. Len(t3) : t4[i] = t3[i]
  BY <1>4, OneMoreWord DEF t4
<1>6. /\ t5 \in Seq(T) /\ Len(t5) = Len(t4) + 1 /\ t5[Len(t4) + 1] = e
       /\ \A i \in 1 .. Len(t4) : t5[i] = t4[i]
  BY <1>5, OneMoreWord DEF t5
<1>7. /\ t6 \in Seq(T) /\ Len(t6) = Len(t5) + 1 /\ t6[Len(t5) + 1] = f
       /\ \A i \in 1 .. Len(t5) : t6[i] = t5[i]
  BY <1>6, OneMoreWord DEF t6
<1>8. Len(s) \in Nat
  OBVIOUS
<1>9. /\ Len(t1) = Len(s) + 1 /\ Len(t2) = Len(s) + 2 /\ Len(t3) = Len(s) + 3
      /\ Len(t4) = Len(s) + 4 /\ Len(t5) = Len(s) + 5 /\ Len(t6) = Len(s) + 6
  BY <1>2, <1>3, <1>4, <1>5, <1>6, <1>7, <1>8
<1>10. PICK n \in Nat : n = Len(s)
  BY <1>8
<1>11. \A i \in 1 .. n + 4 : t6[i] = t4[i]
  BY <1>6, <1>7, <1>9, <1>10
<1>12. \A i \in 1 .. n + 3 : t6[i] = t3[i]
  BY <1>5, <1>9, <1>10, <1>11
<1>13. \A i \in 1 .. n + 2 : t6[i] = t2[i]
  BY <1>4, <1>9, <1>10, <1>12
<1>14. \A i \in 1 .. n + 1 : t6[i] = t1[i]
  BY <1>3, <1>9, <1>10, <1>13
<1>15. t6[n + 6] = f /\ t6[n + 5] = e
  BY <1>6, <1>7, <1>9, <1>10
<1>16. t6[n + 4] = d /\ t6[n + 3] = c
  BY <1>4, <1>5, <1>9, <1>10, <1>11, <1>12
<1>17. t6[n + 2] = b /\ t6[n + 1] = a
  BY <1>2, <1>3, <1>9, <1>10, <1>13, <1>14
<1>18. \A i \in 1 .. n : t6[i] = s[i]
  BY <1>2, <1>9, <1>10, <1>14
<1> QED
  BY <1>1, <1>7, <1>9, <1>10, <1>15, <1>16, <1>17, <1>18 DEF EndsWithSix

Joined(bar, n, d, x, y, z) == SixMore(n \o <<bar>> \o d, bar, x, bar, y, bar, z)

HasValues(t, T, bar, n, d, x, y, z) ==
  LET k == Len(n) + Len(d) + 1
  IN  /\ t \in Seq(T)
      /\ Len(t) = k + 6
      /\ \A i \in 1 .. Len(n) : t[i] = n[i]
      /\ t[Len(n) + 1] = bar
      /\ \A i \in 1 .. Len(d) : t[Len(n) + 1 + i] = d[i]
      /\ t[k + 1] = bar /\ t[k + 2] = x /\ t[k + 3] = bar
      /\ t[k + 4] = y /\ t[k + 5] = bar /\ t[k + 6] = z

LEMMA JoinedValues ==
  ASSUME NEW T, NEW bar \in T, NEW n \in Seq(T), NEW d \in Seq(T), NEW x \in T,
         NEW y \in T, NEW z \in T
  PROVE  HasValues(Joined(bar, n, d, x, y, z), T, bar, n, d, x, y, z)
<1> DEFINE front == n \o <<bar>> \o d
           t     == Joined(bar, n, d, x, y, z)
<1>1. /\ n \o <<bar>> \in Seq(T)
      /\ Len(n \o <<bar>>) = Len(n) + 1
      /\ \A i \in 1 .. Len(n) : (n \o <<bar>>)[i] = n[i]
      /\ (n \o <<bar>>)[Len(n) + 1] = bar
  BY OneMoreWord
<1>2. /\ front \in Seq(T) /\ Len(front) = Len(n) + 1 + Len(d)
      /\ \A i \in 1 .. Len(n) : front[i] = n[i]
      /\ front[Len(n) + 1] = bar
      /\ \A i \in 1 .. Len(d) : front[Len(n) + 1 + i] = d[i]
  BY <1>1
<1>3. t = SixMore(front, bar, x, bar, y, bar, z)
  BY DEF Joined
<1> HIDE DEF front, t
<1>4. EndsWithSix(t, T, front, bar, x, bar, y, bar, z)
  BY <1>2, <1>3, SixMoreWords
<1>5. Len(front) = Len(n) + Len(d) + 1
  BY <1>2
<1>6. /\ \A i \in 1 .. Len(n) : t[i] = n[i]
      /\ t[Len(n) + 1] = bar
      /\ \A i \in 1 .. Len(d) : t[Len(n) + 1 + i] = d[i]
  <2>1. \A i \in 1 .. Len(n) : t[i] = front[i]
    BY <1>4, <1>5 DEF EndsWithSix
  <2>2. t[Len(n) + 1] = front[Len(n) + 1]
    BY <1>4, <1>5 DEF EndsWithSix
  <2>3. \A i \in 1 .. Len(d) : t[Len(n) + 1 + i] = front[Len(n) + 1 + i]
    BY <1>4, <1>5 DEF EndsWithSix
  <2> QED
    BY <1>2, <2>1, <2>2, <2>3
<1>7. HasValues(t, T, bar, n, d, x, y, z)
  BY <1>4, <1>6, <1>5 DEF EndsWithSix, HasValues
<1> QED
  BY <1>7 DEF t

LEMMA TextsOfEntry ==
  ASSUME NEW entry \in Entry
  PROVE  entry.name \in EntityTag /\ entry.description \in EntityTag
<1>1. entry.name \in Name /\ entry.description \in Description
  BY DEF Entry
<1>2. entry.name \in Seq(STRING)
  BY <1>1, FeaturesAssumption
<1>3. entry.description \in Seq(STRING)
  BY <1>1, ControllerAssumption
<1>4. STRING \subseteq TagWord
  BY DEF TagWord
<1> HIDE DEF TagWord
<1> QED
  BY <1>2, <1>3, <1>4, SeqMonotonic DEF EntityTag

TruthValue(b) == IF b THEN "true" ELSE "false"

LEMMA EntryText ==
  ASSUME NEW entry \in Entry
  PROVE  HasValues(generateETagValue(entry), TagWord, Bar, entry.name,
                   entry.description, TruthValue(entry.enabled),
                   entry.enablementLevel, TruthValue(entry.userEnabled))
<1>1. entry.name \in Seq(TagWord) /\ entry.description \in Seq(TagWord)
  BY TextsOfEntry DEF EntityTag
<1>2. /\ Bar \in TagWord /\ entry.enablementLevel \in TagWord
      /\ TruthValue(entry.enabled) \in TagWord
      /\ TruthValue(entry.userEnabled) \in TagWord
  BY DEF Entry, TagWord, TruthValue
<1>3. /\ FormatBool(entry.enabled) = <<TruthValue(entry.enabled)>>
      /\ FormatBool(entry.userEnabled) = <<TruthValue(entry.userEnabled)>>
  BY DEF FormatBool, TruthValue
<1>4. generateETagValue(entry) =
        Joined(Bar, entry.name, entry.description, TruthValue(entry.enabled),
               entry.enablementLevel, TruthValue(entry.userEnabled))
  BY <1>3 DEF generateETagValue, Joined, SixMore
<1> HIDE DEF TagWord
<1> QED
  BY <1>1, <1>2, <1>4, JoinedValues

-----------------------------------------------------------------------------
(* Where no name and no description holds a separator, the text of an      *)
(* entity is one line, and says all there is to say of it.                 *)
OneLine(t) == \A i \in 1 .. Len(t) : t[i] # Newline

LEMMA EntryTextIsOneLine ==
  ASSUME SeparatorsAreFree, NEW entry \in Entry
  PROVE  OneLine(generateETagValue(entry))
<1> DEFINE t == generateETagValue(entry)
           n == entry.name
           d == entry.description
<1>1. n \in Name /\ d \in Description /\ entry.enablementLevel \in LevelName
  BY DEF Entry
<1>2. n \in Seq(STRING) /\ d \in Seq(STRING)
  BY <1>1, FeaturesAssumption, ControllerAssumption
<1>3. /\ \A i \in 1 .. Len(n) : n[i] # Newline
      /\ \A i \in 1 .. Len(d) : d[i] # Newline
  BY <1>1, <1>2 DEF SeparatorsAreFree
<1>4. /\ Bar # Newline /\ entry.enablementLevel # Newline
      /\ TruthValue(entry.enabled) # Newline
      /\ TruthValue(entry.userEnabled) # Newline
  BY <1>1 DEF Bar, Newline, LevelName, TruthValue, InternalLevel,
       ExperimentalLevel, BetaLevel, ReleasedLevel, UnknownLevel
<1>5. HasValues(t, TagWord, Bar, n, d, TruthValue(entry.enabled),
                entry.enablementLevel, TruthValue(entry.userEnabled))
  BY EntryText
<1> HIDE DEF t, n, d
<1>6. PICK m \in Nat, k \in Nat : m = Len(n) /\ k = Len(d)
  BY <1>2
<1>7. ASSUME NEW i \in 1 .. Len(t) PROVE t[i] # Newline
  <2>1. Len(t) = m + k + 7
    BY <1>5, <1>6 DEF HasValues
  <2>2. CASE i <= m
    BY <1>3, <1>5, <1>6, <2>1, <2>2 DEF HasValues
  <2>3. CASE i = m + 1
    BY <1>4, <1>5, <1>6, <2>3 DEF HasValues
  <2>4. CASE i > m + 1 /\ i <= m + 1 + k
    <3>1. PICK j \in 1 .. k : i = m + 1 + j
      <4>1. i \in Int /\ i - (m + 1) \in 1 .. k
        BY <1>6, <2>1, <2>4
      <4>2. m + 1 + (i - (m + 1)) = i
        BY <1>6, <4>1
      <4> QED
        BY <4>1, <4>2
    <3> QED
      BY <1>3, <1>5, <1>6, <3>1 DEF HasValues
  <2>5. CASE i \in {m + k + 2, m + k + 3, m + k + 4, m + k + 5, m + k + 6,
                    m + k + 7}
    BY <1>4, <1>5, <1>6, <2>5 DEF HasValues
  <2>6. \/ i <= m
        \/ i = m + 1
        \/ i > m + 1 /\ i <= m + 1 + k
        \/ i \in {m + k + 2, m + k + 3, m + k + 4, m + k + 5, m + k + 6,
                  m + k + 7}
    BY <1>6, <2>1
  <2> QED
    BY <2>2, <2>3, <2>4, <2>5, <2>6
<1> QED
  BY <1>7 DEF t, OneLine

LEMMA TruthValueTells ==
  ASSUME NEW a \in BOOLEAN, NEW b \in BOOLEAN, TruthValue(a) = TruthValue(b)
  PROVE  a = b
BY DEF TruthValue

LEMMA NameEndsAtBar ==
  ASSUME SeparatorsAreFree, NEW e \in Entry, NEW f \in Entry,
         generateETagValue(e) = generateETagValue(f)
  PROVE  ~(Len(e.name) < Len(f.name))
<1> SUFFICES ASSUME Len(e.name) < Len(f.name) PROVE FALSE
  OBVIOUS
<1>1. e.name \in Name /\ f.name \in Name
  BY DEF Entry
<1>2. e.name \in Seq(STRING) /\ f.name \in Seq(STRING)
  BY <1>1, FeaturesAssumption
<1>3. Len(e.name) + 1 \in 1 .. Len(f.name)
  BY <1>2
<1>4. f.name[Len(e.name) + 1] # Bar
  BY <1>1, <1>2, <1>3 DEF SeparatorsAreFree
<1>5. generateETagValue(e)[Len(e.name) + 1] = Bar
  BY EntryText DEF HasValues
<1>6. generateETagValue(f)[Len(e.name) + 1] = f.name[Len(e.name) + 1]
  BY <1>3, EntryText DEF HasValues
<1> QED
  BY <1>4, <1>5, <1>6

(* Two entities with the same text are the same (generateETagValue).       *)
LEMMA EntryTextTells ==
  ASSUME SeparatorsAreFree, NEW e \in Entry, NEW f \in Entry,
         generateETagValue(e) = generateETagValue(f)
  PROVE  e = f
<1> DEFINE t == generateETagValue(e)
<1>1. /\ e.name \in Name /\ f.name \in Name
      /\ e.description \in Description /\ f.description \in Description
      /\ e.enabled \in BOOLEAN /\ f.enabled \in BOOLEAN
      /\ e.userEnabled \in BOOLEAN /\ f.userEnabled \in BOOLEAN
  BY DEF Entry
<1>2. /\ e.name \in Seq(STRING) /\ f.name \in Seq(STRING)
      /\ e.description \in Seq(STRING) /\ f.description \in Seq(STRING)
  BY <1>1, FeaturesAssumption, ControllerAssumption
<1>3. /\ HasValues(t, TagWord, Bar, e.name, e.description,
                   TruthValue(e.enabled), e.enablementLevel,
                   TruthValue(e.userEnabled))
      /\ HasValues(t, TagWord, Bar, f.name, f.description,
                   TruthValue(f.enabled), f.enablementLevel,
                   TruthValue(f.userEnabled))
  BY EntryText
<1> HIDE DEF t
<1>4. Len(e.name) = Len(f.name)
  <2>1. ~(Len(e.name) < Len(f.name)) /\ ~(Len(f.name) < Len(e.name))
    BY NameEndsAtBar
  <2> QED
    BY <1>2, <2>1
<1>5. Len(e.description) = Len(f.description)
  <2>1. PICK m, k, l \in Nat : m = Len(e.name) /\ k = Len(e.description)
                                 /\ l = Len(f.description)
    BY <1>2
  <2>2. m + k + 1 + 6 = m + l + 1 + 6
    BY <1>3, <1>4, <2>1 DEF HasValues
  <2>3. k = l
    BY <2>2
  <2> QED
    BY <2>1, <2>3
<1>6. \A i \in 1 .. Len(e.name) : e.name[i] = f.name[i]
  BY <1>3, <1>4 DEF HasValues
<1>7. \A i \in 1 .. Len(e.description) : e.description[i] = f.description[i]
  BY <1>3, <1>4, <1>5 DEF HasValues
<1>8. e.name = f.name /\ e.description = f.description
  BY <1>2, <1>4, <1>5, <1>6, <1>7, SeqEqual
<1>9. /\ TruthValue(e.enabled) = TruthValue(f.enabled)
      /\ e.enablementLevel = f.enablementLevel
      /\ TruthValue(e.userEnabled) = TruthValue(f.userEnabled)
  BY <1>3, <1>4, <1>5 DEF HasValues
<1>10. e.enabled = f.enabled /\ e.userEnabled = f.userEnabled
  BY <1>1, <1>9, TruthValueTells
<1> QED
  BY <1>8, <1>9, <1>10 DEF Entry

(* The last line of a text is found where its last newline is.             *)
LEMMA LastPartIsFound ==
  ASSUME NEW T, NEW nl \in T, NEW a \in Seq(T), NEW b \in Seq(T),
         NEW x \in Seq(T), NEW y \in Seq(T),
         \A i \in 1 .. Len(y) : y[i] # nl,
         \A i \in 1 .. Len(x) : x[i] # nl,
         a \o <<nl>> \o x = b \o <<nl>> \o y
  PROVE  a = b /\ x = y
<1> DEFINE t == a \o <<nl>> \o x
<1>1. /\ a \o <<nl>> \in Seq(T)
      /\ Len(a \o <<nl>>) = Len(a) + 1
      /\ \A i \in 1 .. Len(a) : (a \o <<nl>>)[i] = a[i]
      /\ (a \o <<nl>>)[Len(a) + 1] = nl
  BY OneMoreWord
<1>2. /\ b \o <<nl>> \in Seq(T)
      /\ Len(b \o <<nl>>) = Len(b) + 1
      /\ \A i \in 1 .. Len(b) : (b \o <<nl>>)[i] = b[i]
      /\ (b \o <<nl>>)[Len(b) + 1] = nl
  BY OneMoreWord
<1>3. /\ Len(t) = Len(a) + 1 + Len(x)
      /\ \A i \in 1 .. Len(a) : t[i] = a[i]
      /\ t[Len(a) + 1] = nl
      /\ \A i \in 1 .. Len(x) : t[Len(a) + 1 + i] = x[i]
  BY <1>1
<1>4. t = b \o <<nl>> \o y
  OBVIOUS
<1> HIDE DEF t
<1>5. /\ Len(t) = Len(b) + 1 + Len(y)
      /\ \A i \in 1 .. Len(b) : t[i] = b[i]
      /\ t[Len(b) + 1] = nl
      /\ \A i \in 1 .. Len(y) : t[Len(b) + 1 + i] = y[i]
  BY <1>2, <1>4
<1>6. PICK k, l, m, n \in Nat :
        k = Len(a) /\ l = Len(b) /\ m = Len(x) /\ n = Len(y)
  <2>1. Len(a) \in Nat /\ Len(b) \in Nat /\ Len(x) \in Nat /\ Len(y) \in Nat
    OBVIOUS
  <2> QED
    BY <2>1
<1>7. k + 1 + m = l + 1 + n
  BY <1>3, <1>5, <1>6
<1>8. ~(k < l)
  <2> SUFFICES ASSUME k < l PROVE FALSE
    OBVIOUS
  <2>1. l - k \in 1 .. m /\ k + 1 + (l - k) = l + 1
    BY <1>7
  <2>2. t[l + 1] = x[l - k]
    BY <1>3, <1>6, <2>1
  <2> QED
    BY <1>5, <1>6, <2>1, <2>2
<1>9. ~(l < k)
  <2> SUFFICES ASSUME l < k PROVE FALSE
    OBVIOUS
  <2>1. k - l \in 1 .. n /\ l + 1 + (k - l) = k + 1
    BY <1>7
  <2>2. t[k + 1] = y[k - l]
    BY <1>5, <1>6, <2>1
  <2> QED
    BY <1>3, <1>6, <2>1, <2>2
<1>10. k = l /\ m = n
  BY <1>7, <1>8, <1>9
<1>11. /\ \A i \in 1 .. Len(a) : a[i] = b[i]
       /\ \A i \in 1 .. Len(x) : x[i] = y[i]
  BY <1>3, <1>5, <1>6, <1>10
<1> QED
  BY <1>6, <1>10, <1>11, SeqEqual

LEMMA LastLineIsFound ==
  ASSUME NEW a \in EntityTag, NEW b \in EntityTag,
         NEW x \in EntityTag, NEW y \in EntityTag, OneLine(x), OneLine(y),
         a \o <<Newline>> \o x = b \o <<Newline>> \o y
  PROVE  a = b /\ x = y
<1>1. Newline \in TagWord
  BY DEF TagWord
<1> HIDE DEF TagWord
<1>2. /\ a \in Seq(TagWord) /\ b \in Seq(TagWord)
      /\ x \in Seq(TagWord) /\ y \in Seq(TagWord)
  BY DEF EntityTag
<1>3. /\ \A i \in 1 .. Len(y) : y[i] # Newline
      /\ \A i \in 1 .. Len(x) : x[i] # Newline
  BY DEF OneLine
<1> HIDE DEF Newline
<1> QED
  BY <1>1, <1>2, <1>3, LastPartIsFound

-----------------------------------------------------------------------------
(* The tags of the beginnings of a list, as GenerateEntitiesTag computes   *)
(* them.                                                                   *)
IsTagging(tag, list, n) ==
  tag = [i \in 1 .. n |->
          IF i = 1 THEN generateETagValue(list[1])
                   ELSE tag[i - 1] \o <<Newline>> \o generateETagValue(list[i])]

LEMMA TaggingExists ==
  ASSUME NEW list, NEW n \in Nat
  PROVE  \E tag : IsTagging(tag, list, n)
<1> DEFINE T == {m \in Nat : ~ \E tag : IsTagging(tag, list, m)}
<1> SUFFICES ASSUME T # {} PROVE FALSE
  OBVIOUS
<1>1. PICK m \in T : \A k \in T : m <= k
  <2>1. T \subseteq Nat
    OBVIOUS
  <2> HIDE DEF T
  <2> QED
    BY <2>1, LeastNatural
<1>2. m \in Nat /\ ~ \E tag : IsTagging(tag, list, m)
  OBVIOUS
<1>3. CASE m = 0
  <2>1. [i \in 1 .. 0 |-> 0] =
          [i \in 1 .. 0 |->
            IF i = 1 THEN generateETagValue(list[1])
            ELSE [j \in 1 .. 0 |-> 0][i - 1] \o <<Newline>>
                   \o generateETagValue(list[i])]
    OBVIOUS
  <2> QED
    BY <1>2, <1>3, <2>1 DEF IsTagging
<1>4. CASE m > 0
  <2>1. m - 1 \in Nat /\ m - 1 \notin T
    BY <1>1, <1>2, <1>4
  <2>2. PICK front : IsTagging(front, list, m - 1)
    BY <2>1
  <2> DEFINE tag == [i \in 1 .. m |->
                      IF i < m THEN front[i]
                      ELSE IF i = 1 THEN generateETagValue(list[1])
                      ELSE front[i - 1] \o <<Newline>>
                             \o generateETagValue(list[i])]
  <2>3. ASSUME NEW i \in 1 .. m
        PROVE  tag[i] = IF i = 1 THEN generateETagValue(list[1])
                        ELSE tag[i - 1] \o <<Newline>>
                               \o generateETagValue(list[i])
    <3>1. CASE i < m
      <4>1. i \in 1 .. m - 1
        BY <1>2, <3>1
      <4>2. front[i] = IF i = 1 THEN generateETagValue(list[1])
                       ELSE front[i - 1] \o <<Newline>>
                              \o generateETagValue(list[i])
        BY <2>2, <4>1 DEF IsTagging
      <4>3. i # 1 => i - 1 \in 1 .. m /\ i - 1 < m
        BY <1>2, <4>1
      <4> QED
        BY <3>1, <4>2, <4>3
    <3>2. CASE i = m /\ i # 1
      <4>1. i - 1 \in 1 .. m /\ i - 1 < m /\ ~(i < m)
        BY <1>2, <3>2
      <4> QED
        BY <3>2, <4>1
    <3>3. CASE i = m /\ i = 1
      BY <1>2, <3>3
    <3> QED
      BY <1>2, <3>1, <3>2, <3>3
  <2>4. IsTagging(tag, list, m)
    <3>1. tag = [i \in 1 .. m |-> tag[i]]
      OBVIOUS
    <3> HIDE DEF tag
    <3> QED
      BY <2>3, <3>1 DEF IsTagging
  <2> QED
    BY <1>2, <2>4
<1> QED
  BY <1>2, <1>3, <1>4

LEMMA TagOfList ==
  ASSUME NEW list, Len(list) \in Nat
  PROVE  \E tag : /\ IsTagging(tag, list, Len(list))
                  /\ GenerateEntitiesTag(list) = tag[Len(list)]
<1> DEFINE chosen == CHOOSE tag : IsTagging(tag, list, Len(list))
<1>1. IsTagging(chosen, list, Len(list))
  BY TaggingExists
<1>2. GenerateEntitiesTag(list) = chosen[Len(list)]
  BY DEF GenerateEntitiesTag, IsTagging
<1> QED
  BY <1>1, <1>2

(* A tag is a text, longer than that of the zero entity.                   *)
LEMMA LineAfterLine ==
  ASSUME NEW a \in EntityTag, NEW x \in EntityTag
  PROVE  /\ a \o <<Newline>> \o x \in EntityTag
         /\ Len(a \o <<Newline>> \o x) = Len(a) + 1 + Len(x)
         /\ (a \o <<Newline>> \o x)[Len(a) + 1] = Newline
<1>1. Newline \in TagWord
  BY DEF TagWord
<1> HIDE DEF TagWord
<1> QED
  BY <1>1, OneMoreWord DEF EntityTag

LEMMA TaggingIsTyped ==
  ASSUME NEW list \in Seq(Entry), NEW tag, IsTagging(tag, list, Len(list))
  PROVE  \A i \in 1 .. Len(list) : tag[i] \in EntityTag /\ Len(tag[i]) > 6
<1> DEFINE T == {i \in 1 .. Len(list) :
                   ~(tag[i] \in EntityTag /\ Len(tag[i]) > 6)}
<1> SUFFICES ASSUME T # {} PROVE FALSE
  OBVIOUS
<1>1. PICK m \in T : \A k \in T : m <= k
  <2>1. T \subseteq Nat
    OBVIOUS
  <2> HIDE DEF T
  <2> QED
    BY <2>1, LeastNatural
<1>2. m \in 1 .. Len(list) /\ list[m] \in Entry /\ list[1] \in Entry
  OBVIOUS
<1>3. \A e \in Entry : /\ generateETagValue(e) \in EntityTag
                       /\ Len(generateETagValue(e)) > 6
  <2> TAKE e \in Entry
  <2>1. e.name \in EntityTag /\ e.description \in EntityTag
    BY TextsOfEntry
  <2>2. Len(e.name) \in Nat /\ Len(e.description) \in Nat
    BY <2>1 DEF EntityTag
  <2>3. PICK n, d \in Nat : n = Len(e.name) /\ d = Len(e.description)
    BY <2>2
  <2>4. HasValues(generateETagValue(e), TagWord, Bar, e.name, e.description,
                  TruthValue(e.enabled), e.enablementLevel,
                  TruthValue(e.userEnabled))
    BY EntryText
  <2>5. Len(generateETagValue(e)) = n + d + 1 + 6
    BY <2>3, <2>4 DEF HasValues
  <2>6. n + d + 1 + 6 > 6
    OBVIOUS
  <2> QED
    BY <2>4, <2>5, <2>6 DEF HasValues, EntityTag
<1>4. tag[m] = IF m = 1 THEN generateETagValue(list[1])
               ELSE tag[m - 1] \o <<Newline>> \o generateETagValue(list[m])
  BY <1>2 DEF IsTagging
<1>5. CASE m = 1
  BY <1>2, <1>3, <1>4, <1>5
<1>6. CASE m # 1
  <2>1. m - 1 \in 1 .. Len(list) /\ m - 1 \notin T
    BY <1>1, <1>2, <1>6
  <2>2. tag[m - 1] \in EntityTag /\ Len(tag[m - 1]) > 6
    BY <2>1
  <2>3. /\ generateETagValue(list[m]) \in EntityTag
        /\ Len(generateETagValue(list[m])) > 6
    BY <1>2, <1>3
  <2>4. tag[m] \in EntityTag
    BY <1>4, <1>6, <2>2, <2>3, LineAfterLine
  <2>5. Len(tag[m]) = Len(tag[m - 1]) + 1 + Len(generateETagValue(list[m]))
    BY <1>4, <1>6, <2>2, <2>3, LineAfterLine
  <2>6. Len(tag[m]) > 6
    <3>1. Len(tag[m - 1]) \in Nat /\ Len(generateETagValue(list[m])) \in Nat
      BY <2>2, <2>3 DEF EntityTag
    <3>2. PICK n, l \in Nat : n = Len(tag[m - 1])
                                /\ l = Len(generateETagValue(list[m]))
      BY <3>1
    <3>3. Len(tag[m]) = n + 1 + l /\ l > 6
      BY <2>3, <2>5, <3>2
    <3>4. n + 1 + l > 6
      BY <3>3
    <3> QED
      BY <3>3, <3>4
  <2> QED
    BY <2>4, <2>6
<1> QED
  BY <1>5, <1>6

(* Two beginnings with the same tag are the same.                          *)
LEMMA FirstLineIsNoSecond ==
  ASSUME SeparatorsAreFree, NEW e \in Entry, NEW a \in EntityTag,
         NEW x \in EntityTag, generateETagValue(e) = a \o <<Newline>> \o x
  PROVE  FALSE
<1>1. OneLine(a \o <<Newline>> \o x)
  BY EntryTextIsOneLine
<1>2. Len(a) + 1 \in 1 .. Len(a \o <<Newline>> \o x)
  <2>1. Len(a) \in Nat /\ Len(x) \in Nat
    BY DEF EntityTag
  <2>2. Len(a \o <<Newline>> \o x) = Len(a) + 1 + Len(x)
    BY LineAfterLine
  <2> QED
    BY <2>1, <2>2
<1>3. (a \o <<Newline>> \o x)[Len(a) + 1] = Newline
  BY LineAfterLine
<1> QED
  BY <1>1, <1>2, <1>3 DEF OneLine

LEMMA LastLineTells ==
  ASSUME SeparatorsAreFree, NEW d \in Entry, NEW e \in Entry,
         NEW a \in EntityTag, NEW b \in EntityTag,
         a \o <<Newline>> \o generateETagValue(d)
           = b \o <<Newline>> \o generateETagValue(e)
  PROVE  a = b /\ d = e
<1>1. /\ generateETagValue(d) \in EntityTag
      /\ generateETagValue(e) \in EntityTag
  BY EntryText DEF HasValues, EntityTag
<1>2. OneLine(generateETagValue(d)) /\ OneLine(generateETagValue(e))
  BY EntryTextIsOneLine
<1>3. a = b /\ generateETagValue(d) = generateETagValue(e)
  BY <1>1, <1>2, LastLineIsFound, Zenon
<1> QED
  BY <1>3, EntryTextTells

LEMMA TaggingTells ==
  ASSUME SeparatorsAreFree,
         NEW one \in Seq(Entry), NEW f, IsTagging(f, one, Len(one)),
         NEW two \in Seq(Entry), NEW g, IsTagging(g, two, Len(two))
  PROVE  \A i \in 1 .. Len(one) : \A j \in 1 .. Len(two) :
           f[i] = g[j] => i = j /\ \A k \in 1 .. i : one[k] = two[k]
<1> DEFINE Same(i, j) == i = j /\ \A k \in 1 .. i : one[k] = two[k]
           T == {i \in 1 .. Len(one) :
                   \E j \in 1 .. Len(two) : f[i] = g[j] /\ ~Same(i, j)}
<1> SUFFICES ASSUME T # {} PROVE FALSE
  OBVIOUS
<1>1. PICK m \in T : \A k \in T : m <= k
  <2>1. T \subseteq Nat
    OBVIOUS
  <2> HIDE DEF T
  <2> QED
    BY <2>1, LeastNatural
<1>2. m \in 1 .. Len(one) /\ one[m] \in Entry /\ one[1] \in Entry
  OBVIOUS
<1>3. PICK n \in 1 .. Len(two) : f[m] = g[n] /\ ~Same(m, n)
  OBVIOUS
<1>4. two[n] \in Entry /\ two[1] \in Entry
  BY <1>3
<1>5. f[m] = IF m = 1 THEN generateETagValue(one[1])
             ELSE f[m - 1] \o <<Newline>> \o generateETagValue(one[m])
  BY <1>2 DEF IsTagging
<1>6. g[n] = IF n = 1 THEN generateETagValue(two[1])
             ELSE g[n - 1] \o <<Newline>> \o generateETagValue(two[n])
  BY <1>3 DEF IsTagging
<1>7. /\ \A e \in Entry : generateETagValue(e) \in EntityTag
      /\ m # 1 => m - 1 \in 1 .. Len(one) /\ f[m - 1] \in EntityTag
      /\ n # 1 => n - 1 \in 1 .. Len(two) /\ g[n - 1] \in EntityTag
  <2>1. \A e \in Entry : generateETagValue(e) \in EntityTag
    BY EntryText DEF HasValues, EntityTag
  <2>2. m # 1 => m - 1 \in 1 .. Len(one)
    BY <1>2
  <2>3. n # 1 => n - 1 \in 1 .. Len(two)
    BY <1>3
  <2>4. /\ m # 1 => f[m - 1] \in EntityTag
        /\ n # 1 => g[n - 1] \in EntityTag
    BY <2>2, <2>3, TaggingIsTyped
  <2> QED
    BY <2>1, <2>2, <2>3, <2>4
<1>8. CASE m = 1 /\ n = 1
  <2>1. one[1] = two[1]
    BY <1>2, <1>3, <1>4, <1>5, <1>6, <1>8, EntryTextTells
  <2> QED
    BY <1>3, <1>8, <2>1
<1>9. CASE m = 1 /\ n # 1
  <2>1. generateETagValue(one[1])
          = g[n - 1] \o <<Newline>> \o generateETagValue(two[n])
    BY <1>3, <1>5, <1>6, <1>9
  <2> QED
    BY <1>2, <1>4, <1>7, <1>9, <2>1, FirstLineIsNoSecond, Zenon
<1>10. CASE m # 1 /\ n = 1
  <2>1. generateETagValue(two[1])
          = f[m - 1] \o <<Newline>> \o generateETagValue(one[m])
    BY <1>3, <1>5, <1>6, <1>10
  <2> QED
    BY <1>2, <1>4, <1>7, <1>10, <2>1, FirstLineIsNoSecond, Zenon
<1>11. CASE m # 1 /\ n # 1
  <2>1. f[m - 1] \o <<Newline>> \o generateETagValue(one[m])
          = g[n - 1] \o <<Newline>> \o generateETagValue(two[n])
    BY <1>3, <1>5, <1>6, <1>11
  <2>2. PICK a, b \in EntityTag : a = f[m - 1] /\ b = g[n - 1]
    BY <1>7, <1>11
  <2>3. PICK d, e \in Entry : d = one[m] /\ e = two[n]
    BY <1>2, <1>4
  <2>4. a \o <<Newline>> \o generateETagValue(d)
          = b \o <<Newline>> \o generateETagValue(e)
    BY <2>1, <2>2, <2>3
  <2>5. a = b /\ d = e
    BY <2>4, LastLineTells
  <2>6. f[m - 1] = g[n - 1] /\ one[m] = two[n]
    BY <2>2, <2>3, <2>5
  <2>7. m - 1 \notin T
    BY <1>1, <1>2
  <2>8. Same(m - 1, n - 1)
    BY <1>7, <1>11, <2>6, <2>7
  <2>9. m = n
    BY <1>2, <1>3, <2>8
  <2>10. \A k \in 1 .. m : one[k] = two[k]
    <3>1. \A k \in 1 .. m : k = m \/ k \in 1 .. m - 1
      BY <1>2
    <3> QED
      BY <2>6, <2>8, <2>9, <3>1
  <2> QED
    BY <1>3, <2>9, <2>10
<1> QED
  BY <1>8, <1>9, <1>10, <1>11

(* Two lists with the same tag are the same: GenerateEntitiesTag, and the  *)
(* tags for the empty list and for the feature that is not there.          *)
LEMMA ListTagTells ==
  ASSUME SeparatorsAreFree,
         NEW one \in Seq(Entry), one # << >>,
         NEW two \in Seq(Entry), two # << >>,
         GenerateEntitiesTag(one) = GenerateEntitiesTag(two)
  PROVE  one = two
<1>1. Len(one) \in 1 .. Len(one) /\ Len(two) \in 1 .. Len(two)
  OBVIOUS
<1>2. PICK f : /\ IsTagging(f, one, Len(one))
               /\ GenerateEntitiesTag(one) = f[Len(one)]
  BY TagOfList
<1>3. PICK g : /\ IsTagging(g, two, Len(two))
               /\ GenerateEntitiesTag(two) = g[Len(two)]
  BY TagOfList
<1>4. \A i \in 1 .. Len(one) : \A j \in 1 .. Len(two) :
        f[i] = g[j] => i = j /\ \A k \in 1 .. i : one[k] = two[k]
  BY <1>2, <1>3, TaggingTells
<1>5. Len(one) = Len(two) /\ \A k \in 1 .. Len(one) : one[k] = two[k]
  BY <1>1, <1>2, <1>3, <1>4
<1> QED
  BY <1>5, SeqEqual

LEMMA ListTagIsLong ==
  ASSUME NEW list \in Seq(Entry), list # << >>
  PROVE  /\ GenerateEntitiesTag(list) \in EntityTag
         /\ Len(GenerateEntitiesTag(list)) > 6
<1>1. Len(list) \in 1 .. Len(list)
  OBVIOUS
<1>2. PICK tag : /\ IsTagging(tag, list, Len(list))
                 /\ GenerateEntitiesTag(list) = tag[Len(list)]
  BY TagOfList
<1> QED
  BY <1>1, <1>2, TaggingIsTyped

LEMMA TagTells ==
  ASSUME SeparatorsAreFree, NEW query,
         NEW one \in Seq(Entry), NEW two \in Seq(Entry),
         Tag(query, one) = Tag(query, two)
  PROVE  one = two
<1>1. Len(ZeroTag) = 6 /\ Len(GenerateEmptyTag) = 1
  BY DEF ZeroTag, GenerateEmptyTag
<1>2. ASSUME NEW list \in Seq(Entry), list # << >>
      PROVE  /\ GenerateEntitiesTag(list) # ZeroTag
             /\ GenerateEntitiesTag(list) # GenerateEmptyTag
  <2>1. Len(GenerateEntitiesTag(list)) > 6
    BY <1>2, ListTagIsLong
  <2>2. Len(GenerateEntitiesTag(list)) \in Nat
    BY <1>2, ListTagIsLong DEF EntityTag
  <2>3. \A n \in Nat : n > 6 => n # 6 /\ n # 1
    OBVIOUS
  <2> QED
    BY <1>1, <2>1, <2>2, <2>3, Zenon
<1> QED
  BY <1>2, ListTagTells DEF Tag

(* If no name and no description holds a character that the tags are       *)
(* joined with, two answers of List, or of Show, with the same tag are the *)
(* same answer, whatever their lengths (generator.go:317-335,              *)
(* user_feature.go:12, GetETagData).                                       *)
THEOREM TagsTellAnswersApart ==
  SeparatorsAreFree =>
    \A query \in Query : \A one, two \in Seq(Entry) :
      Tag(query, one) = Tag(query, two) => one = two
BY TagTells

LEMMA TagIsTag ==
  ASSUME NEW query, NEW list \in Seq(Entry)
  PROVE  Tag(query, list) \in EntityTag
<1>1. ZeroTag \in EntityTag /\ GenerateEmptyTag \in EntityTag
  <2>1. {Bar, "false", "empty"} \subseteq TagWord
    BY DEF TagWord
  <2> HIDE DEF TagWord
  <2> QED
    BY <2>1 DEF ZeroTag, GenerateEmptyTag, EntityTag
<1>2. list # << >> => GenerateEntitiesTag(list) \in EntityTag
  BY ListTagIsLong
<1> QED
  BY <1>1, <1>2 DEF Tag
=============================================================================
