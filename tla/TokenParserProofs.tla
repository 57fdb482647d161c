-------------------------- MODULE TokenParserProofs --------------------------
(***************************************************************************)
(* Proofs about TokenParser, for any number of processes, keys, rotations, *)
(* failures and crashes.                                                   *)
(***************************************************************************)
EXTENDS TokenParser, TLAPS

(* The last verdict is that of a process that still serves: a process that *)
(* dies takes its verdicts with it, so the keys it judged by are still     *)
(* there to compare with.                                                  *)
VerdictIsOfTheServing ==
  verdict # NoVerdict => phase[verdict.process] = "serving"

(* While a process serves, the parser knows the keys of its start or none. *)
IInv ==
  /\ TypeOK
  /\ AllKeysOrNone
  /\ VerdictIsOfTheServing
  /\ JudgedByTheKeysOfTheStart

-----------------------------------------------------------------------------
(* A token accepted against a set of keys was signed by one of them and    *)
(* has not expired; a token that is valid for these keys is accepted       *)
(* (Parse and keyFunction).                                                *)
LEMMA AcceptsByTheKeys ==
  ASSUME NEW p \in Process, NEW t \in Token, TypeOK,
         publicKeys[p] \in {{}, asked[p]}
  PROVE  LET valid == t.signer \in asked[p] /\ t.kid = t.signer /\ ~t.expired
         IN  /\ Accepts(p, t) => valid
             /\ valid => Accepts(p, t) \/ publicKeys[p] = {}
<1>1. NoKey \notin publicKeys[p] /\ NoKey \notin asked[p]
  BY ParserAssumption DEF TypeOK
<1>2. Accepts(p, t) <=>
        t.kid \in publicKeys[p] /\ t.signer = t.kid /\ ~t.expired
  BY <1>1 DEF Accepts, keyFunction
<1> QED BY <1>2

(* A load that succeeds has all the keys that were published, or none: one *)
(* that is not an RSA key makes it fail (unmarshalKeys).                   *)
LEMMA LoadsAllOrNone ==
  ASSUME NEW answer \in KeysAnswer, Unmarshals(answer), published \in SUBSET Key
  PROVE  /\ Unmarshaled(answer) \in {{}, published}
         /\ Unmarshaled(answer) \in SUBSET RsaKey
BY DEF Unmarshals, Unmarshaled

-----------------------------------------------------------------------------
LEMMA InitIInv == Init => IInv
BY ParserAssumption
   DEF Init, IInv, TypeOK, Phase, AllKeysOrNone, VerdictIsOfTheServing,
       JudgedByTheKeysOfTheStart

(* The types.                                                              *)
LEMMA TypePreserved ==
  ASSUME TypeOK, [Next]_vars
  PROVE  TypeOK'
<1> USE ParserAssumption DEF TypeOK, Phase
<1>1. CASE UNCHANGED vars
  BY <1>1 DEF vars
<1>2. ASSUME NEW keys \in SUBSET Key \ {{}}, Rotate(keys)
      PROVE  TypeOK'
  BY <1>2 DEF Rotate
<1>3. ASSUME NEW p \in Process, Start(p)
      PROVE  TypeOK'
  BY <1>3 DEF Start
<1>4. ASSUME NEW p \in Process, NEW answer \in KeysAnswer,
             NewParser(p, answer)
      PROVE  TypeOK'
  <2>1. (IF Unmarshals(answer) THEN Unmarshaled(answer) ELSE {})
          \in SUBSET RsaKey
    BY LoadsAllOrNone
  <2>2. publicKeys' \in [Process -> SUBSET RsaKey]
    BY <1>4, <2>1 DEF NewParser
  <2>3. /\ phase' \in [Process -> Phase]
        /\ asked' \in [Process -> SUBSET Key]
    BY <1>4 DEF NewParser
  <2>4. spent' \in [rotations : 0 .. MaxRotations,
                    failures : 0 .. MaxFailures, crashes : 0 .. MaxCrashes]
    BY <1>4 DEF NewParser
  <2>5. UNCHANGED <<published, answering, verdict>>
    BY <1>4 DEF NewParser
  <2> QED BY <2>2, <2>3, <2>4, <2>5 DEF NoVerdict
<1>5. ASSUME NEW p \in Process, Crash(p)
      PROVE  TypeOK'
  <2>1. verdict' \in {verdict, NoVerdict}
    BY <1>5 DEF Crash
  <2>2. /\ phase' \in [Process -> Phase]
        /\ publicKeys' \in [Process -> SUBSET RsaKey]
    BY <1>5 DEF Crash
  <2>3. spent' \in [rotations : 0 .. MaxRotations,
                    failures : 0 .. MaxFailures, crashes : 0 .. MaxCrashes]
    BY <1>5 DEF Crash
  <2>4. UNCHANGED <<published, answering, asked>>
    BY <1>5 DEF Crash
  <2>5. \/ verdict' = NoVerdict
        \/ verdict' \in [process : Process, token : Token, accepted : BOOLEAN]
    BY <2>1
  <2> QED BY <2>2, <2>3, <2>4, <2>5 DEF NoVerdict
<1>6. ASSUME NEW p \in Process, NEW t \in Token, Parse(p, t)
      PROVE  TypeOK'
  <2>1. Accepts(p, t) \in BOOLEAN
    BY DEF Accepts
  <2> QED BY <1>6, <2>1 DEF Parse
<1>7. CASE AuthHangs \/ AuthReturns
  BY <1>7 DEF AuthHangs, AuthReturns
<1>8. ASSUME NEW p \in Process, RequestHangs(p) \/ LivenessProbe(p)
      PROVE  TypeOK'
  BY <1>8 DEF RequestHangs, LivenessProbe
<1> QED BY <1>1, <1>2, <1>3, <1>4, <1>5, <1>6, <1>7, <1>8 DEF Next

(* The rest.                                                               *)
LEMMA NextIInv ==
  ASSUME IInv, [Next]_vars
  PROVE  IInv'
<1>0. TypeOK'
  BY TypePreserved DEF IInv
<1> USE ParserAssumption DEF IInv, TypeOK, Phase
<1>1. CASE UNCHANGED vars
  BY <1>0, <1>1
     DEF vars, AllKeysOrNone, VerdictIsOfTheServing, JudgedByTheKeysOfTheStart
<1>2. ASSUME NEW keys \in SUBSET Key \ {{}}, Rotate(keys)
      PROVE  IInv'
  BY <1>0, <1>2
     DEF Rotate, AllKeysOrNone, VerdictIsOfTheServing,
         JudgedByTheKeysOfTheStart
<1>3. ASSUME NEW p \in Process, Start(p)
      PROVE  IInv'
  BY <1>0, <1>3
     DEF Start, NoVerdict, AllKeysOrNone, VerdictIsOfTheServing,
         JudgedByTheKeysOfTheStart
<1>4. ASSUME NEW p \in Process, NEW answer \in KeysAnswer,
             NewParser(p, answer)
      PROVE  IInv'
  <2>1. AllKeysOrNone'
    BY <1>4, LoadsAllOrNone DEF NewParser, AllKeysOrNone
  <2>2. verdict = NoVerdict \/ verdict.process # p
    BY <1>4 DEF NewParser, VerdictIsOfTheServing
  <2>3. VerdictIsOfTheServing'
    BY <1>4, <2>2 DEF NewParser, VerdictIsOfTheServing, NoVerdict
  <2>4. JudgedByTheKeysOfTheStart'
    BY <1>4, <2>2 DEF NewParser, JudgedByTheKeysOfTheStart, NoVerdict
  <2> QED BY <1>0, <2>1, <2>3, <2>4
<1>5. ASSUME NEW p \in Process, Crash(p)
      PROVE  IInv'
  <2>1. AllKeysOrNone'
    BY <1>5 DEF Crash, AllKeysOrNone
  <2>2. \/ verdict' = NoVerdict
        \/ verdict' = verdict /\ verdict.process # p
    BY <1>5 DEF Crash
  <2>3. VerdictIsOfTheServing'
    BY <1>5, <2>2 DEF Crash, VerdictIsOfTheServing, NoVerdict
  <2>4. JudgedByTheKeysOfTheStart'
    BY <1>5, <2>2 DEF Crash, JudgedByTheKeysOfTheStart, NoVerdict
  <2> QED BY <1>0, <2>1, <2>3, <2>4
<1>6. ASSUME NEW p \in Process, NEW t \in Token, Parse(p, t)
      PROVE  IInv'
  <2>1. publicKeys[p] \in {{}, asked[p]}
    BY <1>6 DEF Parse, AllKeysOrNone
  <2>2. verdict' = [process |-> p, token |-> t, accepted |-> Accepts(p, t)]
    BY <1>6 DEF Parse
  <2>3. JudgedByTheKeysOfTheStart'
    BY <1>6, <2>1, <2>2, AcceptsByTheKeys
       DEF Parse, JudgedByTheKeysOfTheStart
  <2>4. AllKeysOrNone' /\ VerdictIsOfTheServing'
    BY <1>6, <2>2 DEF Parse, AllKeysOrNone, VerdictIsOfTheServing
  <2> QED BY <1>0, <2>3, <2>4
<1>7. CASE AuthHangs \/ AuthReturns
  BY <1>0, <1>7
     DEF AuthHangs, AuthReturns, AllKeysOrNone, VerdictIsOfTheServing,
         JudgedByTheKeysOfTheStart
<1>8. ASSUME NEW p \in Process, RequestHangs(p) \/ LivenessProbe(p)
      PROVE  IInv'
  BY <1>0, <1>8
     DEF RequestHangs, LivenessProbe, NoVerdict, AllKeysOrNone,
         VerdictIsOfTheServing, JudgedByTheKeysOfTheStart
<1> QED BY <1>1, <1>2, <1>3, <1>4, <1>5, <1>6, <1>7, <1>8 DEF Next

(* The invariant of the proofs.                                            *)
THEOREM ParserInvariant == Spec => []IInv
<1>1. Init => IInv
  BY InitIInv
<1>2. IInv /\ [Next]_vars => IInv'
  BY NextIInv
<1> QED BY <1>1, <1>2, PTL DEF Spec

(* The variables of the parser and of the processes keep their types.      *)
THEOREM ParserTypeCorrect == Spec => []TypeOK
<1>1. IInv => TypeOK
  BY DEF IInv
<1> QED BY <1>1, ParserInvariant, PTL

(* Whatever the auth service publishes later, a token is judged by the     *)
(* keys that were published when the process started: it is accepted only  *)
(* if it was signed by one of them, and refused only if it was not, unless *)
(* the process has started without keys (token_parser.go:59, 104).         *)
THEOREM TokensAreJudgedByTheKeysOfTheStart ==
  Spec => []JudgedByTheKeysOfTheStart
<1>1. IInv => JudgedByTheKeysOfTheStart
  BY DEF IInv
<1> QED BY <1>1, ParserInvariant, PTL

(* A process that serves has taken all the keys it was sent or none, never *)
(* a part of them (token_parser.go:120-139).                               *)
THEOREM KeysAreTakenWhole == Spec => []AllKeysOrNone
<1>1. IInv => AllKeysOrNone
  BY DEF IInv
<1> QED BY <1>1, ParserInvariant, PTL
=============================================================================
