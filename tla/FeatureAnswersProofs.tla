------------------------ MODULE FeatureAnswersProofs -------------------------
(***************************************************************************)
(* Proofs about the answers of FeatureAnswers: how the answer of a look-up *)
(* grows by one name.  `Found' is defined by recursion along the names;    *)
(* what it is for every list is shown by induction, here in the form of    *)
(* the least number for which it fails.                                    *)
(***************************************************************************)
EXTENDS FeatureAnswers, WellFoundedInduction, TLAPS

LEMMA LeastNatural ==
  ASSUME NEW T, T \subseteq Nat, T # {}
  PROVE  \E n \in T : \A m \in T : n <= m
<1>1. \E R : /\ \E n \in T : \A m \in T : ~ (<<m, n>> \in R)
             /\ \A m, n \in Nat : m < n => <<m, n>> \in R
  <2>1. \E n \in T : \A m \in T : ~ (<<m, n>> \in OpToRel(<, Nat))
    BY NatLessThanWellFounded, WFMin
  <2>2. \A m, n \in Nat : m < n => <<m, n>> \in OpToRel(<, Nat)
    BY DEF OpToRel
  <2> QED
    BY <2>1, <2>2, Zenon
<1>2. PICK R : /\ \E n \in T : \A m \in T : ~ (<<m, n>> \in R)
               /\ \A m, n \in Nat : m < n => <<m, n>> \in R
  BY <1>1
<1>3. PICK n \in T : \A m \in T : ~ (<<m, n>> \in R)
  BY <1>2
<1>4. \A m \in T : ~ (m < n)
  BY <1>2, <1>3
<1> QED
  BY <1>3, <1>4

-----------------------------------------------------------------------------
(* What GetFeaturesByName has appended after each of its names.            *)
IsFinding(found, answers, n) ==
  found = [k \in 0 .. n |->
            IF k = 0 THEN << >>
            ELSE IF answers[k] = Absent THEN found[k - 1]
            ELSE Append(found[k - 1], answers[k])]

NextFound(front, answer) ==
  IF answer = Absent THEN front ELSE Append(front, answer)

LEMMA FindingSteps ==
  ASSUME NEW found, NEW answers, NEW n \in Nat, IsFinding(found, answers, n)
  PROVE  /\ found[0] = << >>
         /\ \A k \in 1 .. n :
              found[k] = NextFound(found[k - 1], answers[k])
<1>1. \A k \in 0 .. n :
        found[k] = IF k = 0 THEN << >>
                   ELSE IF answers[k] = Absent THEN found[k - 1]
                   ELSE Append(found[k - 1], answers[k])
  BY DEF IsFinding
<1>2. 0 \in 0 .. n /\ \A k \in 1 .. n : k \in 0 .. n /\ k # 0
  OBVIOUS
<1> QED
  BY <1>1, <1>2 DEF NextFound

LEMMA OneMoreFinding ==
  ASSUME NEW answers, NEW n \in Nat, NEW front, IsFinding(front, answers, n)
  PROVE  \E found : IsFinding(found, answers, n + 1)
<1> DEFINE found == [k \in 0 .. n + 1 |->
                      IF k <= n THEN front[k]
                      ELSE NextFound(front[n], answers[n + 1])]
<1>1. ASSUME NEW k \in 0 .. n + 1
      PROVE  found[k] = IF k = 0 THEN << >>
                        ELSE IF answers[k] = Absent THEN found[k - 1]
                        ELSE Append(found[k - 1], answers[k])
  <2>1. CASE k = 0
    BY <2>1, FindingSteps
  <2>2. CASE k # 0 /\ k <= n
    <3>1. k \in 1 .. n /\ k - 1 \in 0 .. n + 1 /\ k - 1 <= n
      BY <2>2
    <3>2. front[k] = NextFound(front[k - 1], answers[k])
      BY <3>1, FindingSteps
    <3> QED
      BY <2>2, <3>1, <3>2 DEF NextFound
  <2>3. CASE k = n + 1
    <3>1. k - 1 = n /\ n \in 0 .. n + 1 /\ ~(k <= n) /\ k # 0
      BY <2>3
    <3> QED
      BY <2>3, <3>1 DEF NextFound
  <2> QED
    BY <2>1, <2>2, <2>3
<1>2. found = [k \in 0 .. n + 1 |-> found[k]]
  OBVIOUS
<1> HIDE DEF found
<1>3. IsFinding(found, answers, n + 1)
  BY <1>1, <1>2 DEF IsFinding
<1> QED
  BY <1>3

LEMMA NoFinding ==
  ASSUME NEW answers
  PROVE  \E found : IsFinding(found, answers, 0)
<1> DEFINE found == [k \in 0 .. 0 |-> << >>]
<1>1. \A k \in 0 .. 0 : << >> = IF k = 0 THEN << >>
                                ELSE IF answers[k] = Absent THEN found[k - 1]
                                ELSE Append(found[k - 1], answers[k])
  OBVIOUS
<1>2. IsFinding(found, answers, 0)
  BY <1>1 DEF IsFinding
<1> QED
  BY <1>2

LEMMA FindingExists ==
  ASSUME NEW answers, NEW n \in Nat
  PROVE  \E found : IsFinding(found, answers, n)
<1> DEFINE T == {m \in Nat : ~ \E found : IsFinding(found, answers, m)}
<1> SUFFICES ASSUME T # {} PROVE FALSE
  OBVIOUS
<1>1. PICK m \in T : \A k \in T : m <= k
  <2>1. T \subseteq Nat
    OBVIOUS
  <2> HIDE DEF T
  <2> QED
    BY <2>1, LeastNatural
<1>2. m \in Nat /\ ~ \E found : IsFinding(found, answers, m)
  OBVIOUS
<1>3. m # 0
  BY <1>2, NoFinding
<1>4. m - 1 \in Nat /\ m - 1 \notin T
  BY <1>1, <1>2, <1>3
<1>5. PICK front : IsFinding(front, answers, m - 1)
  BY <1>4
<1>6. \E found : IsFinding(found, answers, (m - 1) + 1)
  BY <1>4, <1>5, OneMoreFinding
<1>7. (m - 1) + 1 = m
  BY <1>2
<1> QED
  BY <1>2, <1>6, <1>7

(* Two lists that begin alike give the same up to there.                   *)
LEMMA FindingsAgree ==
  ASSUME NEW one, NEW two, NEW n \in Nat, NEW m \in Nat, n <= m,
         \A k \in 1 .. n : one[k] = two[k],
         NEW f, IsFinding(f, one, n), NEW g, IsFinding(g, two, m)
  PROVE  f[n] = g[n]
<1> DEFINE T == {k \in 0 .. n : f[k] # g[k]}
<1> SUFFICES ASSUME T # {} PROVE FALSE
  <2>1. n \in 0 .. n
    OBVIOUS
  <2> QED
    BY <2>1
<1>1. PICK k \in T : \A j \in T : k <= j
  <2>1. T \subseteq Nat
    OBVIOUS
  <2> HIDE DEF T
  <2> QED
    BY <2>1, LeastNatural
<1>2. k \in 0 .. n /\ f[k] # g[k]
  OBVIOUS
<1>3. k # 0
  BY <1>2, FindingSteps
<1>4. k - 1 \in 0 .. n /\ k - 1 \notin T /\ k \in 1 .. n /\ k \in 1 .. m
  BY <1>1, <1>2, <1>3
<1>5. f[k - 1] = g[k - 1]
  BY <1>4
<1>6. /\ f[k] = NextFound(f[k - 1], one[k])
      /\ g[k] = NextFound(g[k - 1], two[k])
  BY <1>4, FindingSteps
<1> QED
  BY <1>2, <1>4, <1>5, <1>6

LEMMA FoundOfAnswers ==
  ASSUME NEW answers, Len(answers) \in Nat
  PROVE  \E found : /\ IsFinding(found, answers, Len(answers))
                    /\ Found(answers) = found[Len(answers)]
<1> DEFINE chosen == CHOOSE found : IsFinding(found, answers, Len(answers))
<1>1. IsFinding(chosen, answers, Len(answers))
  BY FindingExists
<1>2. Found(answers) = chosen[Len(answers)]
  BY DEF Found, IsFinding
<1> QED
  BY <1>1, <1>2

LEMMA NothingFound == Found(<< >>) = << >>
<1>1. Len(<< >>) = 0 /\ 0 \in Nat
  OBVIOUS
<1>2. PICK found : IsFinding(found, << >>, 0) /\ Found(<< >>) = found[0]
  BY <1>1, FoundOfAnswers
<1> QED
  BY <1>1, <1>2, FindingSteps

(* Each name adds its entry, or nothing.                                   *)
LEMMA OneMoreFound ==
  ASSUME NEW T, NEW answers \in Seq(T), NEW answer \in T
  PROVE  Found(Append(answers, answer)) = NextFound(Found(answers), answer)
<1> DEFINE longer == Append(answers, answer)
<1>1. PICK n \in Nat : Len(answers) = n
  OBVIOUS
<1>2. /\ Len(longer) = n + 1
      /\ \A k \in 1 .. n : answers[k] = longer[k]
      /\ longer[n + 1] = answer
  BY <1>1
<1> HIDE DEF longer
<1>3. PICK f : IsFinding(f, answers, n) /\ Found(answers) = f[n]
  BY <1>1, FoundOfAnswers
<1>4. PICK g : IsFinding(g, longer, n + 1) /\ Found(longer) = g[n + 1]
  BY <1>2, FoundOfAnswers
<1>5. n <= n + 1 /\ n + 1 \in 1 .. n + 1 /\ (n + 1) - 1 = n /\ n + 1 \in Nat
  OBVIOUS
<1>6. f[n] = g[n]
  BY <1>2, <1>3, <1>4, <1>5, FindingsAgree
<1>7. g[n + 1] = NextFound(g[n], answer)
  <2>1. g[n + 1] = NextFound(g[(n + 1) - 1], longer[n + 1])
    BY <1>4, <1>5, FindingSteps
  <2> QED
    BY <1>2, <1>5, <2>1
<1> QED
  BY <1>3, <1>4, <1>6, <1>7 DEF longer

-----------------------------------------------------------------------------
(* What an answer was taken from stays as it was: the server's contents    *)
(* are only added to.                                                      *)
IsExtension(later, earlier) ==
  /\ Len(earlier) \in Nat /\ Len(later) \in Nat
  /\ Len(earlier) <= Len(later)
  /\ \A i \in 1 .. Len(earlier) : later[i] = earlier[i]

LEMMA AccountsGrow ==
  ASSUME NEW earlier, NEW later, IsExtension(later, earlier),
         NEW lo \in Nat \ {0}, NEW h1 \in Nat, NEW h2 \in Nat, h1 <= h2,
         h1 <= Len(earlier), NEW n, NEW asker
  PROVE  Accounts(earlier, n, asker, lo, h1) \subseteq Accounts(later, n, asker, lo, h2)
<1>1. SUFFICES ASSUME NEW s \in lo .. h1, n \in Configured(earlier[s]),
                      NEW e \in s .. h1
               PROVE  toUserFeature(Feature(earlier[s], n), earlier[e], asker)
                        \in Accounts(later, n, asker, lo, h2)
  BY DEF Accounts
<1>2. later[s] = earlier[s] /\ later[e] = earlier[e]
  BY DEF IsExtension
<1>3. s \in lo .. h2 /\ e \in s .. h2
  OBVIOUS
<1>4. n \in Configured(later[s])
  BY <1>1, <1>2
<1> QED
  BY <1>2, <1>3, <1>4 DEF Accounts

LEMMA AnswerStays ==
  ASSUME NEW earlier, NEW later, IsExtension(later, earlier),
         NEW lo \in Nat \ {0}, NEW h1 \in Nat, NEW h2 \in Nat, h1 <= h2,
         h1 <= Len(earlier), NEW c, NEW list,
         IsAnswer(list, earlier, c, lo, h1)
  PROVE  IsAnswer(list, later, c, lo, h2)
<1>1. \A s \in lo .. h1 : later[s] = earlier[s] /\ s \in lo .. h2
  BY DEF IsExtension
<1>2. ASSUME IsSelection(list, earlier, c, lo, h1)
      PROVE  IsSelection(list, later, c, lo, h2)
  <2>1. PICK s \in lo .. h1 :
          /\ {list[i].name : i \in DOMAIN list} = Selected(earlier[s], c)
          /\ \A i, j \in DOMAIN list : list[i].name = list[j].name => i = j
          /\ \A i \in DOMAIN list : \E e \in s .. h1 :
               list[i] = toUserFeature(Feature(earlier[s], list[i].name),
                                       earlier[e], c.user)
    BY <1>2 DEF IsSelection
  <2>2. \A e \in s .. h1 : e \in lo .. h1 /\ e \in s .. h2
    OBVIOUS
  <2>3. \A i \in DOMAIN list : \E e \in s .. h2 :
          list[i] = toUserFeature(Feature(later[s], list[i].name),
                                  later[e], c.user)
    BY <1>1, <2>1, <2>2
  <2> QED
    BY <1>1, <2>1, <2>3 DEF IsSelection
<1>3. ASSUME IsLookUp(list, earlier, c, lo, h1)
      PROVE  IsLookUp(list, later, c, lo, h2)
  <2>1. PICK answers \in [DOMAIN c.names ->
                            {list[i] : i \in DOMAIN list} \union {Absent}] :
          /\ list = Found(answers)
          /\ \A i \in DOMAIN c.names :
               IF answers[i] = Absent
               THEN \E s \in lo .. h1 :
                      c.names[i] \notin Configured(earlier[s])
               ELSE answers[i] \in
                      Accounts(earlier, c.names[i], c.user, lo, h1)
    BY <1>3 DEF IsLookUp
  <2>2. \A i \in DOMAIN c.names :
          IF answers[i] = Absent
          THEN \E s \in lo .. h2 : c.names[i] \notin Configured(later[s])
          ELSE answers[i] \in
                 Accounts(later, c.names[i], c.user, lo, h2)
    BY <1>1, <2>1, AccountsGrow
  <2> QED
    BY <2>1, <2>2 DEF IsLookUp
<1> QED
  BY <1>2, <1>3 DEF IsAnswer

LEMMA SameIsExtension ==
  ASSUME NEW s, Len(s) \in Nat PROVE IsExtension(s, s)
BY DEF IsExtension

LEMMA LongerIsExtension ==
  ASSUME NEW T, NEW s \in Seq(T), NEW x \in T PROVE IsExtension(Append(s, x), s)
BY DEF IsExtension

-----------------------------------------------------------------------------
(* A selection under way.  What was selected from version s is split       *)
(* between the copies that wait for conversion and the entries appended so *)
(* far, each in one place.  An entry is of the copy of s, its enablement   *)
(* of s or of a later version.                                             *)
IsSplit(list, copies, versions, c, s, hi) ==
  /\ \A n \in Name :
       n \in Selected(versions[s], c) <=>
         \/ \E f \in copies : f.name = n
         \/ \E i \in DOMAIN list : list[i].name = n
  /\ \A f \in copies : f = Feature(versions[s], f.name)
  /\ \A f \in copies : \A i \in DOMAIN list : list[i].name # f.name
  /\ \A i, j \in DOMAIN list : list[i].name = list[j].name => i = j
  /\ \A i \in DOMAIN list : \E e \in s .. hi :
       list[i] = toUserFeature(Feature(versions[s], list[i].name),
                               versions[e], c.user)

LEMMA SplitBegins ==
  ASSUME NEW versions, NEW c, NEW s, NEW hi
  PROVE  IsSplit(<< >>, {Feature(versions[s], n) :
                           n \in Selected(versions[s], c)}, versions, c, s, hi)
<1> DEFINE copies == {Feature(versions[s], n) : n \in Selected(versions[s], c)}
<1>1. \A n : Feature(versions[s], n).name = n
  BY DEF Feature
<1>2. ASSUME NEW f \in copies
      PROVE  /\ f = Feature(versions[s], f.name)
             /\ f.name \in Selected(versions[s], c)
  <2>1. PICK n \in Selected(versions[s], c) : f = Feature(versions[s], n)
    BY <1>2
  <2> QED
    BY <1>1, <2>1
<1>3. ASSUME NEW n \in Selected(versions[s], c)
      PROVE  \E f \in copies : f.name = n
  BY <1>1
<1>4. DOMAIN << >> = {}
  OBVIOUS
<1> HIDE DEF copies
<1>5. IsSplit(<< >>, copies, versions, c, s, hi)
  BY <1>2, <1>3, <1>4, Zenon DEF IsSplit
<1> QED
  BY <1>5 DEF copies

(* Appending to a list of entries.                                         *)
LEMMA OneMoreEntry ==
  ASSUME NEW list \in Seq(Entry), NEW entry \in Entry
  PROVE  /\ Append(list, entry) \in Seq(Entry)
         /\ DOMAIN Append(list, entry) = DOMAIN list \union {Len(list) + 1}
         /\ Len(list) + 1 \notin DOMAIN list
         /\ \A i \in DOMAIN list : Append(list, entry)[i] = list[i]
         /\ Append(list, entry)[Len(list) + 1] = entry
OBVIOUS

LEMMA SplitGoesOn ==
  ASSUME NEW list \in Seq(Entry), NEW copies, NEW versions, NEW c,
         NEW s \in Nat, NEW hi \in Nat, s <= hi,
         IsSplit(list, copies, versions, c, s, hi),
         NEW f \in copies, toUserFeature(f, versions[hi], c.user) \in Entry
  PROVE  IsSplit(Append(list, toUserFeature(f, versions[hi], c.user)),
                 copies \ {f}, versions, c, s, hi)
<1> DEFINE entry == toUserFeature(f, versions[hi], c.user)
           longer == Append(list, entry)
           fewer == copies \ {f}
           k == Len(list) + 1
<1>1. entry.name = f.name
  BY DEF toUserFeature, UserFeature
<1>2. f = Feature(versions[s], f.name)
  BY DEF IsSplit
<1>3. /\ DOMAIN longer = DOMAIN list \union {k} /\ k \notin DOMAIN list
      /\ longer[k] = entry
      /\ \A i \in DOMAIN list : longer[i] = list[i]
  BY OneMoreEntry
<1>4. entry = toUserFeature(Feature(versions[s], entry.name), versions[hi],
                            c.user)
      /\ hi \in s .. hi
  BY <1>1, <1>2
<1>5. \A g \in copies : g \in fewer \/ g = f
  OBVIOUS
<1>6. \A g \in fewer : g \in copies /\ g # f
  OBVIOUS
<1> HIDE DEF entry, longer, fewer, k
<1>7. \A g \in copies : g.name = f.name => g = f
  BY <1>2 DEF IsSplit
<1>8. ASSUME NEW n \in Name
      PROVE  n \in Selected(versions[s], c) <=>
               \/ \E g \in fewer : g.name = n
               \/ \E i \in DOMAIN longer : longer[i].name = n
  <2>1. (\E g \in copies : g.name = n) <=>
          n = f.name \/ \E g \in fewer : g.name = n
    BY <1>5, <1>6
  <2>2. (\E i \in DOMAIN longer : longer[i].name = n) <=>
          n = f.name \/ \E i \in DOMAIN list : list[i].name = n
    BY <1>1, <1>3
  <2> QED
    BY <2>1, <2>2 DEF IsSplit
<1>9. \A g \in fewer : /\ g = Feature(versions[s], g.name)
                       /\ \A i \in DOMAIN longer : longer[i].name # g.name
  BY <1>1, <1>3, <1>6, <1>7 DEF IsSplit
<1>10. \A i, j \in DOMAIN longer : longer[i].name = longer[j].name => i = j
  BY <1>1, <1>3 DEF IsSplit
<1>11. ASSUME NEW i \in DOMAIN longer
       PROVE  \E e \in s .. hi :
                longer[i] = toUserFeature(Feature(versions[s], longer[i].name),
                                          versions[e], c.user)
  BY <1>3, <1>4 DEF IsSplit
<1>12. IsSplit(longer, fewer, versions, c, s, hi)
  BY <1>8, <1>9, <1>10, <1>11 DEF IsSplit
<1> QED
  BY <1>12 DEF longer, entry, fewer

LEMMA SplitEnds ==
  ASSUME NEW list \in Seq(Entry), NEW versions, NEW c, NEW lo, NEW hi,
         NEW s \in lo .. hi, IsSplit(list, {}, versions, c, s, hi)
  PROVE  IsSelection(list, versions, c, lo, hi)
<1>1. ASSUME NEW i \in DOMAIN list PROVE list[i].name \in Name
  <2>1. list[i] \in Entry
    OBVIOUS
  <2> QED
    BY <2>1 DEF Entry
<1>2. Selected(versions[s], c) \subseteq Name
  BY DEF Selected, Configured
<1>3. {list[i].name : i \in DOMAIN list} = Selected(versions[s], c)
  BY <1>1, <1>2 DEF IsSplit
<1> QED
  BY <1>3 DEF IsSelection, IsSplit

LEMMA SplitStays ==
  ASSUME NEW earlier, NEW later, IsExtension(later, earlier),
         NEW h1 \in Nat, NEW h2 \in Nat, h1 <= h2, h1 <= Len(earlier),
         NEW s \in 1 .. h1, NEW c, NEW list, NEW copies,
         IsSplit(list, copies, earlier, c, s, h1)
  PROVE  IsSplit(list, copies, later, c, s, h2)
<1>1. later[s] = earlier[s]
  BY DEF IsExtension
<1>2. \A e \in s .. h1 : e \in s .. h2 /\ later[e] = earlier[e]
  BY DEF IsExtension
<1> QED
  BY <1>1, <1>2 DEF IsSplit

-----------------------------------------------------------------------------
(* A look-up under way, as far as `answers': one answer for each name that *)
(* was looked up, nothing or the entry that was appended; a name whose     *)
(* feature is copied and not yet converted; the names to come.             *)
AnswersName(n, answer, versions, asker, lo, hi) ==
  IF answer = Absent
  THEN \E s \in lo .. hi : n \notin Configured(versions[s])
  ELSE answer \in Accounts(versions, n, asker, lo, hi)

IsCopy(f, n, versions, lo, hi) ==
  \E s \in lo .. hi : n \in Configured(versions[s]) /\ f = Feature(versions[s], n)

IsRest(rest, names, k) ==
  /\ Len(names) = k + Len(rest)
  /\ \A i \in 1 .. Len(rest) : rest[i] = names[k + i]

IsLookedUp(list, answers, versions, c, lo, hi) ==
  /\ answers \in Seq({list[i] : i \in DOMAIN list} \union {Absent})
  /\ list = Found(answers)
  /\ \A i \in 1 .. Len(answers) :
       AnswersName(c.names[i], answers[i], versions, c.user, lo, hi)

IsProgress(list, copies, rest, answers, versions, c, lo, hi) ==
  /\ IsLookedUp(list, answers, versions, c, lo, hi)
  /\ \/ copies = {} /\ IsRest(rest, c.names, Len(answers))
     \/ \E f : /\ copies = {f}
               /\ IsCopy(f, c.names[Len(answers) + 1], versions, lo, hi)
               /\ IsRest(rest, c.names, Len(answers) + 1)

LEMMA ProgressBegins ==
  ASSUME NEW c, c.names \in Seq(Name), NEW versions, NEW lo, NEW hi
  PROVE  IsProgress(<< >>, {}, c.names, << >>, versions, c, lo, hi)
<1> DEFINE none == << >>
<1>1. Len(none) = 0 /\ none \in Seq({none[i] : i \in DOMAIN none} \union {Absent})
  OBVIOUS
<1>2. none = Found(none)
  BY NothingFound
<1>3. IsRest(c.names, c.names, 0)
  BY DEF IsRest
<1> HIDE DEF none
<1>4. IsLookedUp(none, none, versions, c, lo, hi)
  BY <1>1, <1>2 DEF IsLookedUp
<1>5. IsProgress(none, {}, c.names, none, versions, c, lo, hi)
  BY <1>1, <1>3, <1>4 DEF IsProgress
<1> QED
  BY <1>5 DEF none

(* The next name is the first of those to come.                            *)
LEMMA NextOfRest ==
  ASSUME NEW rest \in Seq(Name), rest # << >>, NEW names, NEW k \in Nat,
         IsRest(rest, names, k)
  PROVE  Head(rest) = names[k + 1] /\ IsRest(Tail(rest), names, k + 1)
<1>1. PICK n \in Nat : Len(rest) = n + 1
  <2>1. Len(rest) \in Nat /\ Len(rest) > 0
    OBVIOUS
  <2>2. Len(rest) - 1 \in Nat /\ Len(rest) = (Len(rest) - 1) + 1
    BY <2>1
  <2> QED
    BY <2>2
<1>2. Len(Tail(rest)) = n /\ Head(rest) = rest[1]
  BY <1>1
<1>3. \A i \in 1 .. n : Tail(rest)[i] = rest[i + 1]
  BY <1>1
<1>4. /\ Len(names) = k + (n + 1)
      /\ \A i \in 1 .. n + 1 : rest[i] = names[k + i]
  BY <1>1 DEF IsRest
<1>5. rest[1] = names[k + 1]
  BY <1>4
<1>6. ASSUME NEW i \in 1 .. n PROVE Tail(rest)[i] = names[(k + 1) + i]
  <2>1. i + 1 \in 1 .. n + 1 /\ k + (i + 1) = (k + 1) + i
    OBVIOUS
  <2> QED
    BY <1>3, <1>4, <2>1
<1>7. k + (n + 1) = (k + 1) + n
  OBVIOUS
<1> QED
  BY <1>2, <1>4, <1>5, <1>6, <1>7 DEF IsRest

LEMMA LengthOfAnswers ==
  ASSUME NEW list, NEW answers, NEW versions, NEW c, NEW lo, NEW hi,
         IsLookedUp(list, answers, versions, c, lo, hi)
  PROVE  Len(answers) \in Nat
BY DEF IsLookedUp

(* The repository holds the next name: its feature is copied.              *)
LEMMA ProgressFinds ==
  ASSUME NEW list, NEW rest \in Seq(Name), rest # << >>, NEW answers,
         NEW versions, NEW c, NEW lo, NEW hi,
         IsProgress(list, {}, rest, answers, versions, c, lo, hi),
         NEW s \in lo .. hi, Head(rest) \in Configured(versions[s])
  PROVE  IsProgress(list, {Feature(versions[s], Head(rest))}, Tail(rest),
                    answers, versions, c, lo, hi)
<1>1. /\ IsLookedUp(list, answers, versions, c, lo, hi)
      /\ IsRest(rest, c.names, Len(answers))
  BY DEF IsProgress
<1>2. PICK k \in Nat : k = Len(answers)
  BY <1>1, LengthOfAnswers
<1>3. Head(rest) = c.names[k + 1] /\ IsRest(Tail(rest), c.names, k + 1)
  BY <1>1, <1>2, NextOfRest
<1>4. IsCopy(Feature(versions[s], Head(rest)), c.names[k + 1], versions, lo, hi)
  BY <1>3 DEF IsCopy
<1> QED
  BY <1>1, <1>2, <1>3, <1>4 DEF IsProgress

(* One more name is answered.                                              *)
LEMMA OneMoreAnswer ==
  ASSUME NEW list, NEW longer, NEW answers, NEW answer, NEW versions, NEW c,
         NEW lo, NEW hi, IsLookedUp(list, answers, versions, c, lo, hi),
         \A i \in DOMAIN list : \E j \in DOMAIN longer : longer[j] = list[i],
         answer = Absent \/ \E j \in DOMAIN longer : longer[j] = answer,
         longer = NextFound(list, answer),
         AnswersName(c.names[Len(answers) + 1], answer, versions, c.user, lo, hi)
  PROVE  /\ IsLookedUp(longer, Append(answers, answer), versions, c, lo, hi)
         /\ Len(Append(answers, answer)) = Len(answers) + 1
<1> DEFINE more == Append(answers, answer)
           T == {longer[i] : i \in DOMAIN longer} \union {Absent}
<1>1. answers \in Seq(T) /\ answer \in T
  <2>1. {list[i] : i \in DOMAIN list} \union {Absent} \subseteq T
    OBVIOUS
  <2>2. answers \in Seq({list[i] : i \in DOMAIN list} \union {Absent})
    BY DEF IsLookedUp
  <2>3. answer \in T
    OBVIOUS
  <2> HIDE DEF T
  <2> QED
    BY <2>1, <2>2, <2>3
<1> HIDE DEF T
<1>2. PICK n \in Nat : Len(answers) = n
  BY <1>1
<1>3. /\ more \in Seq(T) /\ Len(more) = n + 1
      /\ more[n + 1] = answer
      /\ \A i \in 1 .. n : more[i] = answers[i]
  BY <1>1, <1>2
<1>4. Found(more) = NextFound(Found(answers), answer)
  BY <1>1, OneMoreFound
<1> HIDE DEF more
<1>5. longer = Found(more)
  BY <1>4 DEF IsLookedUp
<1>6. ASSUME NEW i \in 1 .. n + 1
      PROVE  AnswersName(c.names[i], more[i], versions, c.user, lo, hi)
  <2>1. CASE i \in 1 .. n
    BY <1>2, <1>3, <2>1 DEF IsLookedUp
  <2>2. CASE i = n + 1
    BY <1>2, <1>3, <2>2
  <2> QED
    BY <2>1, <2>2
<1>7. more \in Seq({longer[i] : i \in DOMAIN longer} \union {Absent})
  BY <1>3 DEF T
<1>8. IsLookedUp(longer, more, versions, c, lo, hi)
  BY <1>3, <1>5, <1>6, <1>7 DEF IsLookedUp
<1> QED
  BY <1>2, <1>3, <1>8 DEF more

(* The repository does not hold it: nothing is appended.                   *)
LEMMA ProgressMisses ==
  ASSUME NEW list, NEW rest \in Seq(Name), rest # << >>, NEW answers,
         NEW versions, NEW c, NEW lo, NEW hi,
         IsProgress(list, {}, rest, answers, versions, c, lo, hi),
         NEW s \in lo .. hi, Head(rest) \notin Configured(versions[s])
  PROVE  IsProgress(list, {}, Tail(rest), Append(answers, Absent), versions,
                    c, lo, hi)
<1>1. /\ IsLookedUp(list, answers, versions, c, lo, hi)
      /\ IsRest(rest, c.names, Len(answers))
  BY DEF IsProgress
<1>2. PICK k \in Nat : k = Len(answers)
  BY <1>1, LengthOfAnswers
<1>3. Head(rest) = c.names[k + 1] /\ IsRest(Tail(rest), c.names, k + 1)
  BY <1>1, <1>2, NextOfRest
<1>4. AnswersName(c.names[k + 1], Absent, versions, c.user, lo, hi)
  BY <1>3 DEF AnswersName
<1>5. list = NextFound(list, Absent)
  BY DEF NextFound
<1>6. /\ IsLookedUp(list, Append(answers, Absent), versions, c, lo, hi)
      /\ Len(Append(answers, Absent)) = Len(answers) + 1
  BY <1>1, <1>2, <1>4, <1>5, OneMoreAnswer
<1> QED
  BY <1>2, <1>3, <1>6 DEF IsProgress

(* The copied feature is converted and appended.                           *)
LEMMA ProgressConverts ==
  ASSUME NEW list \in Seq(Entry), NEW copies, NEW rest, NEW answers,
         NEW versions, NEW c, NEW lo \in Nat, NEW hi \in Nat, NEW f \in copies,
         IsProgress(list, copies, rest, answers, versions, c, lo, hi),
         toUserFeature(f, versions[hi], c.user) \in Entry
  PROVE  LET entry == toUserFeature(f, versions[hi], c.user)
         IN  IsProgress(Append(list, entry), copies \ {f}, rest,
                        Append(answers, entry), versions, c, lo, hi)
<1> DEFINE entry == toUserFeature(f, versions[hi], c.user)
           longer == Append(list, entry)
<1>1. /\ IsLookedUp(list, answers, versions, c, lo, hi)
      /\ copies = {f}
      /\ IsCopy(f, c.names[Len(answers) + 1], versions, lo, hi)
      /\ IsRest(rest, c.names, Len(answers) + 1)
  BY DEF IsProgress
<1>2. AnswersName(c.names[Len(answers) + 1], entry, versions, c.user, lo, hi)
  <2>1. PICK s \in lo .. hi :
          /\ c.names[Len(answers) + 1] \in Configured(versions[s])
          /\ f = Feature(versions[s], c.names[Len(answers) + 1])
    BY <1>1 DEF IsCopy
  <2>2. hi \in s .. hi
    OBVIOUS
  <2>3. entry \in Accounts(versions, c.names[Len(answers) + 1], c.user, lo, hi)
    BY <2>1, <2>2 DEF Accounts
  <2> QED
    BY <2>3, AbsentAssumption DEF AnswersName
<1>3. /\ \A i \in DOMAIN list : \E j \in DOMAIN longer : longer[j] = list[i]
      /\ \E j \in DOMAIN longer : longer[j] = entry
  BY OneMoreEntry
<1>4. longer = NextFound(list, entry)
  BY AbsentAssumption DEF NextFound
<1> HIDE DEF entry, longer
<1>5. /\ IsLookedUp(longer, Append(answers, entry), versions, c, lo, hi)
      /\ Len(Append(answers, entry)) = Len(answers) + 1
  BY <1>1, <1>2, <1>3, <1>4, OneMoreAnswer
<1>6. IsProgress(longer, copies \ {f}, rest, Append(answers, entry), versions,
                 c, lo, hi)
  <2>1. copies \ {f} = {}
    BY <1>1
  <2> QED
    BY <1>1, <1>5, <2>1 DEF IsProgress
<1> QED
  BY <1>6 DEF entry, longer

LEMMA ProgressEnds ==
  ASSUME NEW list, NEW answers, NEW versions, NEW c, c.names \in Seq(Name),
         NEW lo, NEW hi,
         IsProgress(list, {}, << >>, answers, versions, c, lo, hi)
  PROVE  IsLookUp(list, versions, c, lo, hi)
<1> DEFINE T == {list[i] : i \in DOMAIN list} \union {Absent}
<1>1. IsLookedUp(list, answers, versions, c, lo, hi)
  BY DEF IsProgress
<1>2. Len(answers) \in Nat /\ Len(answers) = Len(c.names)
  <2>1. IsRest(<< >>, c.names, Len(answers))
    BY DEF IsProgress
  <2>2. Len(<< >>) = 0
    OBVIOUS
  <2> QED
    BY <1>1, <2>1, <2>2, LengthOfAnswers DEF IsRest
<1>3. DOMAIN c.names = 1 .. Len(c.names)
  OBVIOUS
<1>4. answers \in [DOMAIN c.names -> T]
  <2>1. answers \in Seq(T)
    BY <1>1 DEF IsLookedUp
  <2> HIDE DEF T
  <2>2. answers \in [1 .. Len(answers) -> T]
    BY <2>1
  <2> QED
    BY <1>2, <1>3, <2>2
<1>5. \A i \in DOMAIN c.names :
        AnswersName(c.names[i], answers[i], versions, c.user, lo, hi)
  BY <1>1, <1>2, <1>3 DEF IsLookedUp
<1>6. list = Found(answers)
  BY <1>1 DEF IsLookedUp
<1> QED
  BY <1>4, <1>5, <1>6 DEF IsLookUp, AnswersName

LEMMA ProgressStays ==
  ASSUME NEW earlier, NEW later, IsExtension(later, earlier),
         NEW lo \in Nat \ {0}, NEW h1 \in Nat, NEW h2 \in Nat, h1 <= h2,
         h1 <= Len(earlier), NEW c, NEW list, NEW copies, NEW rest, NEW answers,
         IsProgress(list, copies, rest, answers, earlier, c, lo, h1)
  PROVE  IsProgress(list, copies, rest, answers, later, c, lo, h2)
<1>1. \A s \in lo .. h1 : later[s] = earlier[s] /\ s \in lo .. h2
  BY DEF IsExtension
<1>2. ASSUME NEW n, NEW answer, AnswersName(n, answer, earlier, c.user, lo, h1)
      PROVE  AnswersName(n, answer, later, c.user, lo, h2)
  <2>1. CASE answer = Absent
    BY <1>1, <1>2, <2>1 DEF AnswersName
  <2>2. CASE answer # Absent
    BY <1>2, <2>2, AccountsGrow DEF AnswersName
  <2> QED
    BY <2>1, <2>2
<1>3. IsLookedUp(list, answers, later, c, lo, h2)
  BY <1>2 DEF IsProgress, IsLookedUp
<1>4. ASSUME NEW f, NEW n, IsCopy(f, n, earlier, lo, h1)
      PROVE  IsCopy(f, n, later, lo, h2)
  BY <1>1, <1>4 DEF IsCopy
<1> QED
  BY <1>3, <1>4 DEF IsProgress

-----------------------------------------------------------------------------
(* An answer under way, of either kind: `list' is what it has so far,      *)
(* `copies' wait for conversion and the names of `rest' are to be looked   *)
(* up, out of contents between lo and hi.                                  *)
IsUnderWay(list, copies, rest, versions, c, lo, hi) ==
  IF Selects(c)
  THEN rest = << >> /\ \E s \in lo .. hi :
                         IsSplit(list, copies, versions, c, s, hi)
  ELSE \E answers : IsProgress(list, copies, rest, answers, versions, c, lo, hi)

(* One read of the repository copies the whole selection.                  *)
LEMMA AnswerSelects ==
  ASSUME NEW copies, NEW versions, NEW c, Selects(c), NEW lo, NEW hi,
         NEW s \in lo .. hi,
         copies = {Feature(versions[s], n) : n \in Selected(versions[s], c)}
  PROVE  IsUnderWay(<< >>, copies, << >>, versions, c, lo, hi)
<1>1. IsSplit(<< >>, copies, versions, c, s, hi)
  BY SplitBegins
<1> QED
  BY <1>1 DEF IsUnderWay

LEMMA AnswerLooksUp ==
  ASSUME NEW versions, NEW c, ~Selects(c), c.names \in Seq(Name),
         NEW lo, NEW hi
  PROVE  IsUnderWay(<< >>, {}, c.names, versions, c, lo, hi)
BY ProgressBegins DEF IsUnderWay

(* The next name is looked up in one version.                              *)
LEMMA AnswerMovesOn ==
  ASSUME NEW list, NEW rest \in Seq(Name), rest # << >>, NEW versions, NEW c,
         NEW lo, NEW hi, IsUnderWay(list, {}, rest, versions, c, lo, hi),
         NEW s \in lo .. hi
  PROVE  IsUnderWay(list, IF Head(rest) \in Configured(versions[s])
                          THEN {Feature(versions[s], Head(rest))} ELSE {},
                    Tail(rest), versions, c, lo, hi)
<1>1. ~Selects(c)
  BY DEF IsUnderWay
<1>2. PICK answers : IsProgress(list, {}, rest, answers, versions, c, lo, hi)
  BY <1>1 DEF IsUnderWay
<1>3. CASE Head(rest) \in Configured(versions[s])
  <2>1. IsProgress(list, {Feature(versions[s], Head(rest))}, Tail(rest),
                   answers, versions, c, lo, hi)
    BY <1>2, <1>3, ProgressFinds
  <2> QED
    BY <1>1, <1>3, <2>1 DEF IsUnderWay
<1>4. CASE Head(rest) \notin Configured(versions[s])
  <2>1. IsProgress(list, {}, Tail(rest), Append(answers, Absent), versions, c,
                   lo, hi)
    BY <1>2, <1>4, ProgressMisses
  <2> QED
    BY <1>1, <1>4, <2>1 DEF IsUnderWay
<1> QED
  BY <1>3, <1>4

(* A call that has one name, and has not looked it up, has nothing yet and *)
(* nothing else to do.                                                     *)
LEMMA OneNameOnly ==
  ASSUME NEW list, NEW rest \in Seq(Name), rest # << >>, NEW versions,
         NEW c, ~Selects(c), c.names \in Seq(Name), Len(c.names) = 1,
         NEW lo, NEW hi, IsUnderWay(list, {}, rest, versions, c, lo, hi)
  PROVE  list = << >> /\ Tail(rest) = << >>
<1>1. PICK answers : IsProgress(list, {}, rest, answers, versions, c, lo, hi)
  BY DEF IsUnderWay
<1>2. /\ IsLookedUp(list, answers, versions, c, lo, hi)
      /\ Len(answers) \in Nat /\ 1 = Len(answers) + Len(rest)
  BY <1>1, LengthOfAnswers DEF IsProgress, IsRest
<1>3. PICK m \in Nat : m = Len(answers)
  BY <1>2
<1>4. PICK n \in Nat : n = Len(rest) /\ n # 0
  OBVIOUS
<1>5. m = 0 /\ n = 1
  <2>1. 1 = m + n
    BY <1>2, <1>3, <1>4
  <2> QED
    BY <1>4, <2>1
<1>6. answers = << >>
  <2>1. \A T : \A s \in Seq(T) : Len(s) = 0 => s = << >>
    OBVIOUS
  <2> QED
    BY <1>2, <1>3, <1>5, <2>1 DEF IsLookedUp
<1>7. list = << >>
  BY <1>2, <1>6, NothingFound DEF IsLookedUp
<1>8. Tail(rest) = << >>
  <2>1. \A s \in Seq(Name) : Len(s) = 0 => s = << >>
    OBVIOUS
  <2>2. \A s \in Seq(Name) : s # << >> /\ Len(s) = 1 =>
          Tail(s) \in Seq(Name) /\ Len(Tail(s)) = 0
    OBVIOUS
  <2> QED
    BY <1>4, <1>5, <2>1, <2>2
<1> QED
  BY <1>7, <1>8

(* A copy is converted: its enablement is that of the newest version.      *)
LEMMA AnswerConverts ==
  ASSUME NEW list \in Seq(Entry), NEW copies, NEW rest, NEW versions, NEW c,
         NEW lo \in Nat, NEW hi \in Nat,
         IsUnderWay(list, copies, rest, versions, c, lo, hi),
         NEW f \in copies, toUserFeature(f, versions[hi], c.user) \in Entry
  PROVE  IsUnderWay(Append(list, toUserFeature(f, versions[hi], c.user)),
                    copies \ {f}, rest, versions, c, lo, hi)
<1>1. CASE Selects(c)
  <2>1. PICK s \in lo .. hi : IsSplit(list, copies, versions, c, s, hi)
    BY <1>1 DEF IsUnderWay
  <2>2. s \in Nat /\ s <= hi
    OBVIOUS
  <2>3. IsSplit(Append(list, toUserFeature(f, versions[hi], c.user)),
                copies \ {f}, versions, c, s, hi)
    BY <2>1, <2>2, SplitGoesOn
  <2> QED
    BY <1>1, <2>3 DEF IsUnderWay
<1>2. CASE ~Selects(c)
  <2>1. PICK answers :
          IsProgress(list, copies, rest, answers, versions, c, lo, hi)
    BY <1>2 DEF IsUnderWay
  <2>2. \E more :
          IsProgress(Append(list, toUserFeature(f, versions[hi], c.user)),
                     copies \ {f}, rest, more, versions, c, lo, hi)
    BY <2>1, ProgressConverts
  <2> QED
    BY <1>2, <2>2 DEF IsUnderWay
<1> QED
  BY <1>1, <1>2

(* With nothing left to do it is an answer.                                *)
LEMMA AnswerEnds ==
  ASSUME NEW list \in Seq(Entry), NEW versions, NEW c, c.names \in Seq(Name),
         NEW lo, NEW hi,
         IsUnderWay(list, {}, << >>, versions, c, lo, hi)
  PROVE  IsAnswer(list, versions, c, lo, hi)
BY SplitEnds, ProgressEnds DEF IsUnderWay, IsAnswer

LEMMA UnderWayStays ==
  ASSUME NEW earlier, NEW later, IsExtension(later, earlier),
         NEW lo \in Nat \ {0}, NEW h1 \in Nat, NEW h2 \in Nat, h1 <= h2,
         h1 <= Len(earlier), NEW c, NEW list, NEW copies, NEW rest,
         IsUnderWay(list, copies, rest, earlier, c, lo, h1)
  PROVE  IsUnderWay(list, copies, rest, later, c, lo, h2)
<1>1. CASE Selects(c)
  <2>1. PICK s \in lo .. h1 : IsSplit(list, copies, earlier, c, s, h1)
    BY <1>1 DEF IsUnderWay
  <2>2. s \in 1 .. h1 /\ s \in lo .. h2
    OBVIOUS
  <2>3. IsSplit(list, copies, later, c, s, h2)
    BY <2>1, <2>2, SplitStays
  <2> QED
    BY <1>1, <2>2, <2>3 DEF IsUnderWay
<1>2. CASE ~Selects(c)
  BY <1>2, ProgressStays DEF IsUnderWay
<1> QED
  BY <1>1, <1>2

(* Only what the call is after is copied.                                  *)
LEMMA CopiesAreSelected ==
  ASSUME NEW list, NEW copies, NEW rest, NEW versions, NEW c,
         c.names \in Seq(Name), rest \in Seq(Name), NEW lo, NEW hi,
         IsUnderWay(list, copies, rest, versions, c, lo, hi),
         NEW f \in copies, f.name \in Name
  PROVE  \E s \in lo .. hi : f.name \in Selected(versions[s], c)
<1>1. CASE Selects(c)
  BY <1>1 DEF IsUnderWay, IsSplit
<1>2. CASE ~Selects(c)
  <2>1. PICK answers :
          IsProgress(list, copies, rest, answers, versions, c, lo, hi)
    BY <1>2 DEF IsUnderWay
  <2>2. PICK k \in Nat : k = Len(answers)
    BY <2>1, LengthOfAnswers DEF IsProgress
  <2>3. /\ IsCopy(f, c.names[k + 1], versions, lo, hi)
        /\ IsRest(rest, c.names, k + 1)
    BY <2>1, <2>2 DEF IsProgress
  <2>4. PICK s \in lo .. hi : /\ c.names[k + 1] \in Configured(versions[s])
                             /\ f = Feature(versions[s], c.names[k + 1])
    BY <2>3 DEF IsCopy
  <2>5. f.name = c.names[k + 1]
    BY <2>4 DEF Feature
  <2>6. k + 1 \in DOMAIN c.names
    <3>1. Len(rest) \in Nat /\ Len(c.names) = (k + 1) + Len(rest)
      BY <2>3 DEF IsRest
    <3>2. k + 1 \in 1 .. Len(c.names)
      BY <3>1
    <3> QED
      BY <3>2
  <2>7. c.names[k + 1] \in Selected(versions[s], c)
    BY <1>2, <2>4, <2>6 DEF Selected, Selects
  <2> QED
    BY <2>4, <2>5, <2>7
<1> QED
  BY <1>1, <1>2
=============================================================================
