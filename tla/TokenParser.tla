----------------------------- MODULE TokenParser -----------------------------
(***************************************************************************)
(* The start of a process (main.go) and the parser of tokens that it       *)
(* builds (token/token_parser.go): the public keys are asked of the auth   *)
(* service once, and every token is checked against them for as long as    *)
(* the process lives.  The auth service may change its keys at any time,   *)
(* and it may hang: the request has no timeout (http.DefaultClient under   *)
(* context.Background()), so only the platform ends a start that is stuck. *)
(***************************************************************************)
EXTENDS Naturals, FiniteSets

CONSTANTS
  Process,      \* processes of this service
  Key,          \* pairs of keys of the auth service, named by their ids
  RsaKey,       \* those that are RSA keys
  NoKey,        \* an id that is not there, or the key of somebody else
  MaxRotations, \* bound: changes of the published keys
  MaxFailures,  \* bound: failures of the auth service
  MaxCrashes    \* bound: crashes of processes

ASSUME ParserAssumption ==
  /\ RsaKey \subseteq Key
  /\ NoKey \notin Key \union Process
  /\ {MaxRotations, MaxFailures, MaxCrashes} \subseteq Nat

(* `kid' is the id in the header, `signer' the key that signed.            *)
Token == [kid : Key \union {NoKey}, signer : Key \union {NoKey},
          expired : BOOLEAN]

(* What the auth service sends for its keys: them, or an error of its own  *)
(* in JSON, or something else with an error status, or nothing at all.     *)
KeysAnswer == {"keys", "jsonError", "otherError", "noAnswer"}

VARIABLES
  published,  \* auth service: the keys it publishes, and has published
  answering,  \* auth service: it answers, FALSE while it hangs
  phase,      \* per process: how far it is, "waiting" if its request is stuck
  publicKeys, \* per process: parserImpl.publicKeys
  asked,      \* per process: what was published when it asked for the keys
  verdict,    \* the last Parse of any process
  spent       \* how often each bounded thing has happened

vars == <<published, answering, phase, publicKeys, asked, verdict, spent>>

Phase == {"down", "starting", "waiting", "serving"}

NoVerdict == [process |-> NoKey, token |-> NoKey, accepted |-> FALSE]

TypeOK ==
  /\ published \in SUBSET Key
  /\ answering \in BOOLEAN
  /\ phase \in [Process -> Phase]
  /\ publicKeys \in [Process -> SUBSET RsaKey]
  /\ asked \in [Process -> SUBSET Key]
  /\ \/ verdict = NoVerdict
     \/ verdict \in [process : Process, token : Token, accepted : BOOLEAN]
  /\ spent \in [rotations : 0 .. MaxRotations, failures : 0 .. MaxFailures,
                crashes : 0 .. MaxCrashes]

Init ==
  /\ published \in SUBSET Key \ {{}}
  /\ answering = TRUE
  /\ phase = [p \in Process |-> "down"]
  /\ publicKeys = [p \in Process |-> {}]
  /\ asked = [p \in Process |-> {}]
  /\ verdict = NoVerdict
  /\ spent = [rotations |-> 0, failures |-> 0, crashes |-> 0]

-----------------------------------------------------------------------------
(* The auth service replaces its keys.                                     *)
Rotate(keys) ==
  /\ spent.rotations < MaxRotations
  /\ keys # published
  /\ published' = keys
  /\ spent' = [spent EXCEPT !.rotations = @ + 1]
  /\ UNCHANGED <<answering, phase, publicKeys, asked, verdict>>

(* The auth service takes requests and does not answer them any more, and  *)
(* answers new ones again.                                                 *)
AuthHangs ==
  /\ answering
  /\ answering' = FALSE
  /\ UNCHANGED <<published, phase, publicKeys, asked, verdict, spent>>

AuthReturns ==
  /\ ~answering
  /\ answering' = TRUE
  /\ UNCHANGED <<published, phase, publicKeys, asked, verdict, spent>>

(* The platform starts a process that is down: restartPolicy Always.       *)
Start_Once(p) ==   \* mistake: gives up after a failure
  /\ phase[p] = "down"
  /\ asked[p] = {}
  /\ phase' = [phase EXCEPT ![p] = "starting"]
  /\ UNCHANGED <<published, answering, publicKeys, asked, verdict, spent>>

Start(p) ==
  /\ phase[p] = "down"
  /\ phase' = [phase EXCEPT ![p] = "starting"]
  /\ UNCHANGED <<published, answering, publicKeys, asked, verdict, spent>>

(* The request for the keys is taken by an auth service that hangs: it is  *)
(* stuck, even if the service answers others again.                        *)
RequestHangs(p) ==
  /\ phase[p] = "starting"
  /\ ~answering
  /\ phase' = [phase EXCEPT ![p] = "waiting"]
  /\ UNCHANGED <<published, answering, publicKeys, asked, verdict, spent>>

(* The liveness probe of openshift/app.yml asks a port that main opens     *)
(* only after the keys are loaded: when it has failed three times, the     *)
(* platform kills the process.                                             *)
LivenessProbe_Readiness(p) ==   \* mistake: only keeps requests from it
  /\ phase[p] = "waiting"
  /\ UNCHANGED vars

LivenessProbe(p) ==
  /\ phase[p] = "waiting"
  /\ phase' = [phase EXCEPT ![p] = "down"]
  /\ UNCHANGED <<published, answering, publicKeys, asked, verdict, spent>>

(* unmarshalKeys: a body that is not JSON is an error, and so is one key   *)
(* that is not an RSA key among any others; a body without keys has none.  *)
Unmarshals_Some(answer) ==   \* mistake: keys of other types are skipped
  answer \in {"keys", "jsonError"}

Unmarshals(answer) ==
  \/ answer = "keys" /\ published \subseteq RsaKey
  \/ answer = "jsonError"

Unmarshaled(answer) == IF answer = "keys" THEN published \cap RsaKey ELSE {}

(* NewParser, through loadKeys.  The status is not looked at.  On an error *)
(* main panics, else it goes on to serve.  A request that is stuck may be  *)
(* answered in the end, or fail; a hanging auth service sends nothing.     *)
NewParser_NotRsa(p, answer) ==   \* mistake: any key will do
  /\ phase[p] \in {"starting", "waiting"}
  /\ answering
  /\ answer = "keys"
  /\ phase' = [phase EXCEPT ![p] = "serving"]
  /\ publicKeys' = [publicKeys EXCEPT ![p] = published]
  /\ asked' = [asked EXCEPT ![p] = published]
  /\ UNCHANGED <<published, answering, verdict, spent>>

NewParser(p, answer) ==
  /\ phase[p] \in {"starting", "waiting"}
  /\ answering \/ answer = "noAnswer"
  /\ answer # "keys" => spent.failures < MaxFailures
  /\ spent' = IF answer = "keys" THEN spent
              ELSE [spent EXCEPT !.failures = @ + 1]
  /\ phase' = [phase EXCEPT ![p] =
                 IF Unmarshals(answer) THEN "serving" ELSE "down"]
  /\ publicKeys' = [publicKeys EXCEPT ![p] =
                      IF Unmarshals(answer) THEN Unmarshaled(answer) ELSE {}]
  /\ asked' = [asked EXCEPT ![p] = published]
  /\ UNCHANGED <<published, answering, verdict>>

Crash(p) ==
  /\ phase[p] = "serving"
  /\ spent.crashes < MaxCrashes
  /\ phase' = [phase EXCEPT ![p] = "down"]
  /\ publicKeys' = [publicKeys EXCEPT ![p] = {}]
  /\ verdict' = IF verdict.process = p THEN NoVerdict ELSE verdict
  /\ spent' = [spent EXCEPT !.crashes = @ + 1]
  /\ UNCHANGED <<published, answering, asked>>

(* keyFunction finds the key by the id, jwt.Parse (external) verifies the  *)
(* signature with it and then the expiry.                                  *)
keyFunction_Now(p, token) ==   \* mistake: asks for the keys of today
  IF token.kid \in published THEN token.kid ELSE NoKey

keyFunction(p, token) ==
  IF token.kid \in publicKeys[p] THEN token.kid ELSE NoKey

Accepts(p, token) ==
  /\ keyFunction(p, token) # NoKey
  /\ token.signer = keyFunction(p, token)
  /\ ~token.expired

Parse(p, token) ==
  /\ phase[p] = "serving"
  /\ verdict' = [process |-> p, token |-> token,
                 accepted |-> Accepts(p, token)]
  /\ UNCHANGED <<published, answering, phase, publicKeys, asked, spent>>

Next ==
  \/ \E keys \in SUBSET Key \ {{}} : Rotate(keys)
  \/ AuthHangs
  \/ AuthReturns
  \/ \E p \in Process :
       \/ Start(p)
       \/ RequestHangs(p)
       \/ LivenessProbe(p)
       \/ \E answer \in KeysAnswer : NewParser(p, answer)
       \/ Crash(p)
       \/ \E token \in Token : Parse(p, token)

(* The platform starts processes and kills those that are stuck.  The auth *)
(* service does not have to answer, nor to come back; while it answers, it *)
(* answers a new request, but no request that is stuck.                    *)
Fairness ==
  \A p \in Process :
    /\ WF_vars(Start(p))
    /\ WF_vars(LivenessProbe(p))
    /\ WF_vars(/\ answering /\ phase[p] = "starting"
               /\ \E answer \in KeysAnswer : NewParser(p, answer))

Spec == Init /\ [][Next]_vars /\ Fairness

-----------------------------------------------------------------------------
(* A running process judges tokens by the keys of its start, whatever the  *)
(* auth service has published since: what it accepts is valid and was      *)
(* signed by one of them, what it refuses is not, unless the process has   *)
(* started without any key (token_parser.go:59-75, 104).                   *)
JudgedByTheKeysOfTheStart ==
  verdict # NoVerdict =>
    LET token == verdict.token
        known == asked[verdict.process]
        valid == token.signer \in known /\ token.kid = token.signer
                   /\ ~token.expired
    IN  /\ verdict.accepted => valid
        /\ valid => verdict.accepted \/ publicKeys[verdict.process] = {}

(* A process that serves has taken all the keys it was sent or none, never *)
(* some: one key that is not understood keeps it from starting             *)
(* (token_parser.go:120-139).                                              *)
AllKeysOrNone ==
  \A p \in Process :
    phase[p] = "serving" => publicKeys[p] \in {{}, asked[p]}

(* Whatever fails on the way, a process comes up in the end and stays up,  *)
(* if the auth service ends up answering, with keys that the code          *)
(* understands: neither a panic (main.go:49-60) nor a request for the keys *)
(* that is never answered (token_parser.go:78) keeps it down.              *)
ProcessesServe ==
  <>[](answering /\ published \subseteq RsaKey)
    => \A p \in Process : <>[](phase[p] = "serving")

(* token_parser.go:91 words the error for a status that is not 200,        *)
(* "unable to read public keys from the auth service": a process that is   *)
(* sent no keys does not serve.                                            *)
ServingMeansKeysWereRead ==
  \A p \in Process : phase[p] = "serving" => publicKeys[p] # {}
=============================================================================
