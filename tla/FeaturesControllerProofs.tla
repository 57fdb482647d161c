----------------------- MODULE FeaturesControllerProofs -----------------------
(***************************************************************************)
(* Proofs about FeaturesController, for every number of replicas, callers, *)
(* people and questions, and every number of edits, restarts, sign-ins and *)
(* failures: the types, that errors have a cause, and that answers, sent   *)
(* or confirmed by a 304, are current and the asker's own.                 *)
(***************************************************************************)
EXTENDS EntityTagProofs, FiniteSetTheorems

-----------------------------------------------------------------------------
(* What a request asks for, and what the client may answer.                *)

LEMMA EntityIsEntry ==
  ASSUME NEW v \in Version, NEW w \in Version, NEW n \in Configured(v), NEW asker
  PROVE  /\ toUserFeature(Feature(v, n), w, asker) \in Entry
         /\ toUserFeature(Feature(v, n), w, asker).name = n
<1>1. n \in Name /\ v[n] \in Setting
  BY FeaturesAssumption DEF Configured, Version
<1>2. v[n].description \in Description /\ v[n].enabled \in BOOLEAN
  BY <1>1 DEF Setting
<1>3. \A level : fromFeatureLevel(level) \in LevelName
  BY DEF fromFeatureLevel, LevelName
<1>4. ComputeEnablementLevel(v[n], InternalUser(asker)) \in LevelName
  BY <1>3 DEF ComputeEnablementLevel, LevelName
<1>5. IsEnabled(w, n, asker) \in BOOLEAN
  BY DEF IsEnabled
<1> QED
  BY <1>1, <1>2, <1>4, <1>5 DEF toUserFeature, Feature, UserFeature, Entry

LEMMA AccountsAreEntries ==
  ASSUME NEW versions \in Seq(Version), NEW n, NEW asker,
         NEW lo \in Nat \ {0}, NEW hi \in Nat, hi <= Len(versions)
  PROVE  Accounts(versions, n, asker, lo, hi) \subseteq Entry
<1> SUFFICES ASSUME NEW s \in lo .. hi, n \in Configured(versions[s]),
                    NEW e \in s .. hi
             PROVE  toUserFeature(Feature(versions[s], n), versions[e], asker)
                      \in Entry
  BY DEF Accounts
<1>1. versions[s] \in Version /\ versions[e] \in Version
  OBVIOUS
<1> QED
  BY <1>1, EntityIsEntry

LEMMA ListsAreTyped ==
  ASSUME NEW call, NEW lo \in Nat \ {0}, NEW hi \in Nat, hi <= Len(history),
         history \in Seq(Version)
  PROVE  Lists(call, lo, hi) \subseteq Seq(Entry)
<1> DEFINE entries == UNION {Accounts(history, n, call.user, lo, hi) : n \in Name}
<1>1. entries \subseteq Entry
  BY AccountsAreEntries
<1>2. \A list \in Lists(call, lo, hi) :
        \E k \in Nat : list \in [1 .. k -> entries]
  <2> DEFINE size == IF Selects(call) THEN Cardinality(Name)
                                      ELSE Len(call.names)
  <2>1. \A list \in Lists(call, lo, hi) :
          \E k \in 0 .. size : list \in [1 .. k -> entries]
    BY DEF Lists
  <2>2. 0 .. size \subseteq Nat
    OBVIOUS
  <2> QED
    BY <2>1, <2>2
<1> HIDE DEF entries
<1>3. ASSUME NEW k \in Nat, NEW list \in [1 .. k -> entries]
      PROVE  list \in Seq(Entry)
  BY <1>1
<1> QED
  BY <1>2, <1>3

LEMMA SortedIsTyped ==
  ASSUME NEW list \in Seq(Entry), NEW sorted \in SortByName(list)
  PROVE  sorted \in Seq(Entry) /\ Len(sorted) = Len(list)
<1>1. PICK p \in [DOMAIN list -> DOMAIN list] :
        sorted = [i \in DOMAIN list |-> list[p[i]]]
  BY DEF SortByName
<1>2. DOMAIN list = 1 .. Len(list) /\ Len(list) \in Nat
  OBVIOUS
<1>3. \A i \in 1 .. Len(list) : list[p[i]] \in Entry
  BY <1>1, <1>2
<1> QED
  BY <1>1, <1>2, <1>3

LEMMA QueryIsTyped ==
  ASSUME NEW query \in Query
  PROVE  /\ query.feature \in Name \union {Missing}
         /\ query.group \in Name \union {Missing}
         /\ query.names \in Seq(Name) \union {Missing}
BY ControllerAssumption DEF AnyQuery

LEMMA BodyIsTyped ==
  ASSUME NEW query \in Query, NEW list \in Seq(Entry)
  PROVE  Body(query, list) \in Seq(ConvertedFeature)
<1>1. ASSUME NEW entry \in Entry
      PROVE  convertFeatureData(entry) \in ConvertedFeature
  BY DEF convertFeatureData, ConvertedFeature, Entry
<1>2. CASE query.feature # Missing /\ list = << >>
  <2>1. query.feature \in Name
    BY <1>2, QueryIsTyped
  <2>2. UnknownFeature(query.feature) \in ConvertedFeature
    BY <2>1 DEF UnknownFeature, ConvertedFeature
  <2> QED
    BY <1>2, <2>2 DEF Body
<1>3. CASE ~(query.feature # Missing /\ list = << >>)
  <2>1. DOMAIN list = 1 .. Len(list) /\ Len(list) \in Nat
    OBVIOUS
  <2>2. \A i \in 1 .. Len(list) : convertFeatureData(list[i]) \in ConvertedFeature
    BY <1>1
  <2>3. Body(query, list) = [i \in 1 .. Len(list) |-> convertFeatureData(list[i])]
    BY <1>3, <2>1 DEF Body
  <2> QED
    BY <2>1, <2>2, <2>3
<1> QED
  BY <1>2, <1>3

-----------------------------------------------------------------------------
(* Types.                                                                  *)

ReplyType == [status : FeaturesResponses \union {Nothing},
              tag : EntityTag \union {Missing}, body : Seq(ConvertedFeature)]

LEMMA FreshRequest ==
  ASSUME NEW t \in Token
  PROVE  /\ NoRequest(t) \in RequestData
         /\ NoRequest(t).since = 1
         /\ NoReply \in ReplyType /\ NoReply.status = Nothing
<1>1. /\ (CHOOSE p \in Replica : TRUE) \in Replica
      /\ (CHOOSE q \in Query : TRUE) \in Query
  BY ControllerAssumption
<1>2. << >> \in Seq(ConvertedFeature)
  OBVIOUS
<1> QED
  BY <1>1, <1>2 DEF NoRequest, RequestData, NoReply, ReplyType

LEMMA InitTyped == Init => TypeOK
<1> SUFFICES ASSUME Init PROVE TypeOK
  OBVIOUS
<1> USE DEF Init
<1>1. history \in Seq(Version) /\ history # << >> /\ Len(history) = 1
  <2>1. PICK version \in Version : history = <<version>>
    OBVIOUS
  <2> QED
    BY <2>1
<1>2. profiles \in Seq([Person -> Profile]) /\ profiles # << >> /\ Len(profiles) = 1
  <2>1. PICK all \in [Person -> Profile] : profiles = <<all>>
    OBVIOUS
  <2> QED
    BY <2>1
<1>3. NoToken \in Token
  BY DEF Token
<1>4. /\ request \in [Caller -> RequestData]
      /\ reply \in [Caller -> ReplyType]
      /\ \A c \in Caller : request[c].since = 1 /\ reply[c].status = Nothing
  BY <1>3, FreshRequest
<1>5. repo \in [Replica -> Nat] /\ \A p \in Replica : repo[p] <= Len(history)
  BY <1>1
<1>6. ready \in [Replica -> BOOLEAN] /\ answering \in BOOLEAN
  OBVIOUS
<1>7. cache \in [Caller -> [Query -> Kept \union {Missing}]]
  OBVIOUS
<1>8. /\ stage \in [Caller -> Stage] /\ user \in [Caller -> Profile \union {Anonymous}]
      /\ start \in [Caller -> Nat]
      /\ \A c \in Caller : stage[c] # "replied"
  BY DEF Stage
<1>9. spent \in [edits : Nat, restarts : Nat, changes : Nat, failures : Nat]
  OBVIOUS
<1>10. token \in [Caller -> Token]
  OBVIOUS
<1>11. \A c \in Caller : /\ request[c].since <= Len(profiles)
                         /\ reply[c].status # Nothing <=> stage[c] = "replied"
  BY <1>2, <1>4, <1>8
<1> QED
  BY <1>1, <1>2, <1>4, <1>5, <1>6, <1>7, <1>8, <1>9, <1>10, <1>11
     DEF TypeOK, ReplyType

ServerTyped ==
  /\ history \in Seq(Version) /\ history # << >>
  /\ repo \in [Replica -> Nat]
  /\ \A p \in Replica : repo[p] <= Len(history)
  /\ ready \in [Replica -> BOOLEAN]

CallerTyped ==
  /\ profiles \in Seq([Person -> Profile]) /\ profiles # << >>
  /\ answering \in BOOLEAN
  /\ token \in [Caller -> Token]
  /\ cache \in [Caller -> [Query -> Kept \union {Missing}]]

HandlerTyped ==
  /\ stage \in [Caller -> Stage]
  /\ request \in [Caller -> RequestData]
  /\ user \in [Caller -> Profile \union {Anonymous}]
  /\ start \in [Caller -> Nat]
  /\ reply \in [Caller -> ReplyType]
  /\ \A c \in Caller :
       /\ request[c].since <= Len(profiles)
       /\ reply[c].status # Nothing <=> stage[c] = "replied"

SpentTyped == spent \in [edits : Nat, restarts : Nat, changes : Nat, failures : Nat]

LEMMA TypesInParts ==
  /\ TypeOK <=> ServerTyped /\ CallerTyped /\ HandlerTyped /\ SpentTyped
  /\ TypeOK' <=> ServerTyped' /\ CallerTyped' /\ HandlerTyped' /\ SpentTyped'
BY DEF TypeOK, ServerTyped, CallerTyped, HandlerTyped, SpentTyped, ReplyType

LEMMA ServerUnchanged ==
  ASSUME ServerTyped, UNCHANGED serverVars PROVE ServerTyped'
BY DEF ServerTyped, serverVars

LEMMA CallerUnchanged ==
  ASSUME CallerTyped, UNCHANGED callerVars PROVE CallerTyped'
BY DEF CallerTyped, callerVars

LEMMA HandlerUnchanged ==
  ASSUME HandlerTyped, UNCHANGED <<handlerVars, profiles>> PROVE HandlerTyped'
BY DEF HandlerTyped, handlerVars

LEMMA BrokenOffTyped ==
  ASSUME HandlerTyped, NEW callers, BreakOff(callers), UNCHANGED profiles,
         CallerTyped
  PROVE  HandlerTyped'
<1>1. NoToken \in Token
  BY DEF Token
<1>2. /\ NoRequest(NoToken) \in RequestData /\ NoRequest(NoToken).since = 1
      /\ NoReply \in ReplyType /\ NoReply.status = Nothing
  BY <1>1, FreshRequest
<1>3. 1 <= Len(profiles)
  BY DEF CallerTyped
<1>4. /\ stage' \in [Caller -> Stage]
      /\ user' \in [Caller -> Profile \union {Anonymous}]
      /\ start' \in [Caller -> Nat]
  BY DEF BreakOff, HandlerTyped, Stage
<1>5. request' \in [Caller -> RequestData] /\ reply' \in [Caller -> ReplyType]
  BY <1>2 DEF BreakOff, HandlerTyped
<1>6. ASSUME NEW c \in Caller
      PROVE  /\ request'[c].since <= Len(profiles)
             /\ reply'[c].status # Nothing <=> stage'[c] = "replied"
  BY <1>2, <1>3 DEF BreakOff, HandlerTyped
<1> QED
  BY <1>4, <1>5, <1>6 DEF HandlerTyped

LEMMA RepliedTyped ==
  ASSUME HandlerTyped, NEW c \in Caller, NEW status \in FeaturesResponses,
         NEW tag \in EntityTag \union {Missing}, NEW body \in Seq(ConvertedFeature),
         Reply(c, status, tag, body), UNCHANGED <<request, user, start, profiles>>
  PROVE  HandlerTyped'
<1>1. [status |-> status, tag |-> tag, body |-> body] \in ReplyType
  BY DEF ReplyType
<1>2. status # Nothing
  BY DEF FeaturesResponses, Nothing, OK, NotModified, BadRequest, Unauthorized,
       InternalServerError
<1>3. stage' \in [Caller -> Stage] /\ reply' \in [Caller -> ReplyType]
  BY <1>1 DEF Reply, HandlerTyped, Stage
<1>4. \A d \in Caller : reply'[d].status # Nothing <=> stage'[d] = "replied"
  BY <1>1, <1>2 DEF Reply, HandlerTyped, ReplyType
<1> QED
  BY <1>3, <1>4 DEF HandlerTyped

(* The statuses of the errors that the handlers send.                      *)
LEMMA ErrorStatuses ==
  /\ JSONErrorResponse(FeaturesResponses, NewUnauthorizedError) = Unauthorized
  /\ JSONErrorResponse(FeaturesResponses, PlainError) = InternalServerError
  /\ Recovered = InternalServerError
BY DEF JSONErrorResponse, FeaturesResponses, NewUnauthorizedError, PlainError,
     Recovered, ErrorHandler, ErrorToJSONAPIError, Unauthorized,
     InternalServerError, BadRequest, NotFound, Forbidden, Conflict, OK, NotModified

LEMMA ErrorReplied ==
  ASSUME HandlerTyped, NEW c \in Caller, NEW err \in {NewUnauthorizedError, PlainError},
         ReplyError(c, err), UNCHANGED <<request, user, start, profiles>>
  PROVE  HandlerTyped'
<1>1. JSONErrorResponse(FeaturesResponses, err) \in FeaturesResponses
  BY ErrorStatuses DEF FeaturesResponses
<1>2. << >> \in Seq(ConvertedFeature)
  OBVIOUS
<1> HIDE DEF FeaturesResponses
<1>3. PICK status \in FeaturesResponses :
        status = JSONErrorResponse(FeaturesResponses, err)
  BY <1>1
<1> QED
  BY <1>2, <1>3, RepliedTyped DEF ReplyError

(* Whatever the client may answer, sorted, is a list of entries.           *)
LEMMA PromisedIsTyped ==
  ASSUME ServerTyped, HandlerTyped, NEW c \in Caller, NEW asker,
         NEW list \in Promised(c, asker)
  PROVE  list \in Seq(Entry)
<1>1. Since(c) \in Nat \ {0}
  BY DEF Since, HandlerTyped
<1>2. request[c].replica \in Replica
  BY DEF HandlerTyped, RequestData
<1>3. repo[request[c].replica] \in Nat /\ repo[request[c].replica] <= Len(history)
  BY <1>2 DEF ServerTyped
<1>4. << >> \in Seq(Entry)
  OBVIOUS
<1>5. Lists(Dispatch(request[c].query, asker), Since(c), repo[request[c].replica])
        \subseteq Seq(Entry)
  BY <1>1, <1>3, ListsAreTyped DEF ServerTyped
<1> QED
  BY <1>4, <1>5 DEF Promised

LEMMA ConditionalTyped ==
  ASSUME HandlerTyped, NEW c \in Caller, NEW list \in Seq(Entry),
         Conditional(c, list), UNCHANGED <<request, user, start, profiles>>
  PROVE  HandlerTyped'
<1>1. request[c].query \in Query
  BY DEF HandlerTyped, RequestData
<1>2. /\ Tag(request[c].query, list) \in EntityTag \union {Missing}
      /\ Body(request[c].query, list) \in Seq(ConvertedFeature)
      /\ << >> \in Seq(ConvertedFeature)
  BY <1>1, TagIsTag, BodyIsTyped
<1>3. OK \in FeaturesResponses /\ NotModified \in FeaturesResponses
  BY DEF FeaturesResponses
<1> QED
  BY <1>2, <1>3, RepliedTyped DEF Conditional

(* A profile is asked for with the token of a person only.                 *)
PeopleHaveProfiles ==
  \A c \in Caller : stage[c] = "profile" => request[c].token \in Person

LEMMA NextTyped == TypeOK /\ PeopleHaveProfiles /\ [Next]_vars => TypeOK'
<1> SUFFICES ASSUME ServerTyped, CallerTyped, HandlerTyped, SpentTyped,
                    PeopleHaveProfiles, [Next]_vars
             PROVE  ServerTyped' /\ CallerTyped' /\ HandlerTyped' /\ SpentTyped'
  BY TypesInParts
<1>1. ASSUME NEW n \in Name, NEW setting \in Settings \union {Absent},
             Edit(n, setting)
      PROVE  ServerTyped' /\ CallerTyped' /\ HandlerTyped' /\ SpentTyped'
  <2>1. [history[Len(history)] EXCEPT ![n] = setting] \in Version
    BY <1>1 DEF ServerTyped, Version
  <2>2. ServerTyped'
    <3>1. /\ history' = Append(history, [history[Len(history)] EXCEPT ![n] = setting])
          /\ UNCHANGED <<repo, ready>>
      BY <1>1 DEF Edit
    <3>2. /\ history' \in Seq(Version) /\ history' # << >>
          /\ Len(history') = Len(history) + 1
      BY <2>1, <3>1 DEF ServerTyped
    <3>3. \A p \in Replica : repo[p] <= Len(history')
      BY <3>2 DEF ServerTyped
    <3> QED
      BY <3>1, <3>2, <3>3 DEF ServerTyped
  <2>3. SpentTyped'
    <3>1. spent' = [spent EXCEPT !.edits = @ + 1]
      BY <1>1 DEF Edit
    <3> QED
      BY <3>1 DEF SpentTyped
  <2> QED
    BY <1>1, <2>2, <2>3, CallerUnchanged, HandlerUnchanged DEF Edit, callerVars
<1>2. ASSUME NEW p \in Replica, Refresh(p)
      PROVE  ServerTyped' /\ CallerTyped' /\ HandlerTyped' /\ SpentTyped'
  <2>1. ServerTyped'
    BY <1>2 DEF Refresh, ServerTyped
  <2> QED
    BY <1>2, <2>1, CallerUnchanged, HandlerUnchanged
       DEF Refresh, callerVars, SpentTyped
<1>3. ASSUME NEW p \in Replica, OnReady(p)
      PROVE  ServerTyped' /\ CallerTyped' /\ HandlerTyped' /\ SpentTyped'
  <2>1. ServerTyped'
    BY <1>3 DEF OnReady, ServerTyped
  <2> QED
    BY <1>3, <2>1, CallerUnchanged, HandlerUnchanged
       DEF OnReady, callerVars, SpentTyped
<1>4. ASSUME NEW p \in Replica, Restart(p)
      PROVE  ServerTyped' /\ CallerTyped' /\ HandlerTyped' /\ SpentTyped'
  <2>1. ServerTyped'
    BY <1>4 DEF Restart, ServerTyped
  <2>2. CallerTyped'
    BY <1>4, CallerUnchanged DEF Restart
  <2>3. HandlerTyped'
    BY <1>4, BrokenOffTyped DEF Restart, callerVars
  <2>4. SpentTyped'
    BY <1>4 DEF Restart, SpentTyped
  <2> QED
    BY <2>1, <2>2, <2>3, <2>4
<1>5. ASSUME NEW c \in Caller, NEW t \in Token, SignIn(c, t)
      PROVE  ServerTyped' /\ CallerTyped' /\ HandlerTyped' /\ SpentTyped'
  <2>1. CallerTyped'
    BY <1>5 DEF SignIn, CallerTyped
  <2>2. SpentTyped'
    BY <1>5 DEF SignIn, SpentTyped
  <2> QED
    BY <1>5, <2>1, <2>2, ServerUnchanged, HandlerUnchanged DEF SignIn
<1>6. ASSUME NEW person \in Person, NEW profile \in Profile,
             UpdateProfile(person, profile)
      PROVE  ServerTyped' /\ CallerTyped' /\ HandlerTyped' /\ SpentTyped'
  <2>1. [profiles[Len(profiles)] EXCEPT ![person] = profile]
          \in [Person -> Profile]
    BY DEF CallerTyped
  <2>2. /\ profiles' \in Seq([Person -> Profile])
        /\ Len(profiles') = Len(profiles) + 1 /\ profiles' # << >>
    BY <1>6, <2>1 DEF UpdateProfile, CallerTyped
  <2>3. CallerTyped'
    BY <1>6, <2>2 DEF UpdateProfile, CallerTyped
  <2>4. \A c \in Caller : request[c].since <= Len(profiles')
    <3>1. \A c \in Caller : request[c].since \in Nat
      BY DEF HandlerTyped, RequestData
    <3>2. Len(profiles) \in Nat
      BY DEF CallerTyped
    <3> QED
      BY <2>2, <3>1, <3>2 DEF HandlerTyped
  <2>5. HandlerTyped'
    BY <1>6, <2>4 DEF UpdateProfile, HandlerTyped, handlerVars
  <2>6. SpentTyped'
    BY <1>6 DEF UpdateProfile, SpentTyped
  <2> QED
    BY <1>6, <2>3, <2>5, <2>6, ServerUnchanged DEF UpdateProfile
<1>7. CASE AuthHangs
  <2>1. CallerTyped'
    BY <1>7 DEF AuthHangs, CallerTyped
  <2>2. spent' = [spent EXCEPT !.failures = @ + 1]
    BY <1>7 DEF AuthHangs
  <2>3. SpentTyped'
    BY <2>2 DEF SpentTyped
  <2> QED
    BY <1>7, <2>1, <2>3, ServerUnchanged, HandlerUnchanged DEF AuthHangs
<1>8. CASE AuthRecovers
  <2>1. CallerTyped' /\ SpentTyped'
    BY <1>8 DEF AuthRecovers, CallerTyped, SpentTyped
  <2> QED
    BY <1>8, <2>1, ServerUnchanged, HandlerUnchanged DEF AuthRecovers
<1>9. ASSUME NEW c \in Caller, NEW p \in Replica, NEW q \in Query, Send(c, p, q)
      PROVE  ServerTyped' /\ CallerTyped' /\ HandlerTyped' /\ SpentTyped'
  <2>1. token[c] \in Token /\ cache[c][q] \in Kept \union {Missing}
    BY DEF CallerTyped
  <2>2. Len(profiles) \in Nat \ {0}
    BY DEF CallerTyped
  <2>3. [replica |-> p, query |-> q, token |-> token[c],
         ifNoneMatch |-> IF cache[c][q] = Missing THEN Missing
                                                  ELSE cache[c][q].tag,
         since |-> Len(profiles)] \in RequestData
    BY <2>1, <2>2 DEF RequestData, Kept
  <2>4. /\ stage' \in [Caller -> Stage]
        /\ request' \in [Caller -> RequestData]
    BY <1>9, <2>3 DEF Send, HandlerTyped, Stage
  <2>5. \A d \in Caller : /\ request'[d].since <= Len(profiles)
                          /\ reply[d].status # Nothing <=> stage'[d] = "replied"
    BY <1>9, <2>2 DEF Send, HandlerTyped
  <2>6. HandlerTyped'
    BY <1>9, <2>4, <2>5 DEF Send, HandlerTyped, callerVars
  <2> QED
    BY <1>9, <2>6, ServerUnchanged, CallerUnchanged DEF Send, SpentTyped
<1>10. ASSUME NEW c \in Caller, Receive(c)
       PROVE  ServerTyped' /\ CallerTyped' /\ HandlerTyped' /\ SpentTyped'
  <2>1. HandlerTyped'
    BY <1>10, BrokenOffTyped DEF Receive
  <2>2. reply[c] \in ReplyType /\ request[c].query \in Query
    BY DEF HandlerTyped, RequestData
  <2>3. reply[c].tag # Missing =>
          [tag |-> reply[c].tag, body |-> reply[c].body] \in Kept
    BY <2>2 DEF ReplyType, Kept
  <2>4. cache' \in [Caller -> [Query -> Kept \union {Missing}]]
    BY <1>10, <2>2, <2>3 DEF Receive, CallerTyped
  <2>5. CallerTyped'
    BY <1>10, <2>4 DEF Receive, CallerTyped
  <2> QED
    BY <1>10, <2>1, <2>5, ServerUnchanged DEF Receive, SpentTyped
<1>11. ASSUME NEW c \in Caller, Lose(c)
       PROVE  ServerTyped' /\ CallerTyped' /\ HandlerTyped' /\ SpentTyped'
  <2>1. HandlerTyped'
    BY <1>11, BrokenOffTyped DEF Lose, callerVars
  <2>2. SpentTyped'
    BY <1>11 DEF Lose, SpentTyped
  <2> QED
    BY <1>11, <2>1, <2>2, ServerUnchanged, CallerUnchanged DEF Lose
<1>12. ASSUME NEW c \in Caller, CheckToken(c)
       PROVE  ServerTyped' /\ CallerTyped' /\ HandlerTyped' /\ SpentTyped'
  <2>1. UNCHANGED <<request, user, start, profiles>>
    BY <1>12 DEF CheckToken, callerVars
  <2>2. ASSUME ReplyError(c, NewUnauthorizedError) PROVE HandlerTyped'
    BY <2>1, <2>2, ErrorReplied
  <2>3. ASSUME stage' \in {[stage EXCEPT ![c] = "checked"],
                           [stage EXCEPT ![c] = "profile"]},
               UNCHANGED reply
        PROVE  HandlerTyped'
    <3>1. stage[c] = "sent" /\ stage'[c] \in {"checked", "profile"}
      BY <1>12, <2>3 DEF CheckToken, HandlerTyped
    <3>2. stage' \in [Caller -> Stage]
      BY <2>3 DEF HandlerTyped, Stage
    <3>3. \A d \in Caller : reply[d].status # Nothing <=> stage'[d] = "replied"
      BY <2>3, <3>1 DEF HandlerTyped
    <3> QED
      BY <2>1, <2>3, <3>2, <3>3 DEF HandlerTyped
  <2>4. HandlerTyped'
    BY <1>12, <2>2, <2>3 DEF CheckToken
  <2> QED
    BY <1>12, <2>4, ServerUnchanged, CallerUnchanged DEF CheckToken, SpentTyped
<1>13. ASSUME NEW c \in Caller, GetUserProfile(c)
       PROVE  ServerTyped' /\ CallerTyped' /\ HandlerTyped' /\ SpentTyped'
  <2>1. request[c].token \in Person
    BY <1>13 DEF GetUserProfile, PeopleHaveProfiles
  <2>2. profiles[Len(profiles)] \in [Person -> Profile]
    BY DEF CallerTyped
  <2>3. ForwardedProfile(request[c].token) \in Profile
    BY <2>1, <2>2 DEF ForwardedProfile
  <2>4. /\ stage' \in [Caller -> Stage]
        /\ user' \in [Caller -> Profile \union {Anonymous}]
        /\ \A d \in Caller : reply[d].status # Nothing <=> stage'[d] = "replied"
    BY <1>13, <2>3 DEF GetUserProfile, HandlerTyped, Stage
  <2>5. HandlerTyped'
    BY <1>13, <2>4 DEF GetUserProfile, HandlerTyped, callerVars
  <2> QED
    BY <1>13, <2>5, ServerUnchanged, CallerUnchanged DEF GetUserProfile, SpentTyped
<1>14. ASSUME NEW c \in Caller, NEW err \in {NewUnauthorizedError, PlainError},
              ProfileFails(c, err)
       PROVE  ServerTyped' /\ CallerTyped' /\ HandlerTyped' /\ SpentTyped'
  <2>1. HandlerTyped'
    BY <1>14, ErrorReplied DEF ProfileFails, callerVars
  <2>2. SpentTyped'
    BY <1>14 DEF ProfileFails, SpentTyped
  <2> QED
    BY <1>14, <2>1, <2>2, ServerUnchanged, CallerUnchanged DEF ProfileFails
<1>15. ASSUME NEW c \in Caller, AnswerNoQuestion(c)
       PROVE  ServerTyped' /\ CallerTyped' /\ HandlerTyped' /\ SpentTyped'
  <2>1. << >> \in Seq(ConvertedFeature) /\ OK \in FeaturesResponses
    BY DEF FeaturesResponses
  <2>2. HandlerTyped'
    BY <1>15, <2>1, RepliedTyped DEF AnswerNoQuestion, callerVars
  <2> QED
    BY <1>15, <2>2, ServerUnchanged, CallerUnchanged
       DEF AnswerNoQuestion, SpentTyped
<1>16. ASSUME NEW c \in Caller, AskClient(c)
       PROVE  ServerTyped' /\ CallerTyped' /\ HandlerTyped' /\ SpentTyped'
  <2>1. request[c].replica \in Replica
    BY DEF HandlerTyped, RequestData
  <2>2. start' \in [Caller -> Nat] /\ stage' \in [Caller -> Stage]
    BY <1>16, <2>1 DEF AskClient, HandlerTyped, ServerTyped, Stage
  <2>3. HandlerTyped'
    BY <1>16, <2>2 DEF AskClient, HandlerTyped, callerVars
  <2> QED
    BY <1>16, <2>3, ServerUnchanged, CallerUnchanged DEF AskClient, SpentTyped
<1>17. ASSUME NEW c \in Caller, Answer(c)
       PROVE  ServerTyped' /\ CallerTyped' /\ HandlerTyped' /\ SpentTyped'
  <2>1. PICK list \in Promised(c, user[c]) : AnswerWith(c, list)
    BY <1>17 DEF Answer
  <2>2. PICK sorted \in SortByName(list) : Conditional(c, sorted)
    BY <2>1 DEF AnswerWith
  <2>3. list \in Seq(Entry)
    BY PromisedIsTyped
  <2>4. sorted \in Seq(Entry)
    BY <2>3, SortedIsTyped
  <2>5. HandlerTyped'
    BY <2>1, <2>2, <2>4, ConditionalTyped DEF AnswerWith, callerVars
  <2> QED
    BY <2>1, <2>5, ServerUnchanged, CallerUnchanged DEF AnswerWith, SpentTyped
<1>18. ASSUME NEW c \in Caller, Panic(c)
       PROVE  ServerTyped' /\ CallerTyped' /\ HandlerTyped' /\ SpentTyped'
  <2>1. << >> \in Seq(ConvertedFeature) /\ Recovered \in FeaturesResponses
    BY ErrorStatuses DEF FeaturesResponses
  <2>2. HandlerTyped'
    BY <1>18, <2>1, RepliedTyped DEF Panic, PanicReply, callerVars
  <2> QED
    BY <1>18, <2>2, ServerUnchanged, CallerUnchanged
       DEF Panic, PanicReply, SpentTyped
<1>19. CASE UNCHANGED vars
  BY <1>19, ServerUnchanged, CallerUnchanged, HandlerUnchanged
     DEF vars, callerVars, SpentTyped
<1> QED
  BY <1>1, <1>2, <1>3, <1>4, <1>5, <1>6, <1>7, <1>8, <1>9, <1>10, <1>11,
     <1>12, <1>13, <1>14, <1>15, <1>16, <1>17, <1>18, <1>19
     DEF Next, Surroundings, Step, Prepare

-----------------------------------------------------------------------------
(* What the client promised once, it still promises later.                 *)
(* Lists and Promised of any time.                                         *)
ListsOf(versions, call, lo, hi) ==
  LET entries == UNION {Accounts(versions, n, call.user, lo, hi) : n \in Name}
      size    == IF Selects(call) THEN Cardinality(Name) ELSE Len(call.names)
  IN  {list \in UNION {[1 .. k -> entries] : k \in 0 .. size} :
         IsAnswer(list, versions, call, lo, hi)}

PromisedOf(versions, version, query, asker, from) ==
  (IF from = 0 THEN {<< >>} ELSE {})
    \union ListsOf(versions, Dispatch(query, asker),
                   IF from = 0 THEN 1 ELSE from, version)

LEMMA PromisedNowAndThen ==
  ASSUME NEW c
  PROVE  /\ Promised(c, user[c]) =
              PromisedOf(history, repo[request[c].replica], request[c].query,
                         user[c], start[c])
         /\ Promised(c, user[c])' =
              PromisedOf(history', repo'[request'[c].replica],
                         request'[c].query, user'[c], start'[c])
BY DEF Promised, Lists, Since, PromisedOf, ListsOf

LEMMA ListsGrow ==
  ASSUME NEW earlier, NEW later, IsExtension(later, earlier),
         NEW lo \in Nat \ {0}, NEW h1 \in Nat, NEW h2 \in Nat, h1 <= h2,
         h1 <= Len(earlier), NEW call
  PROVE  ListsOf(earlier, call, lo, h1) \subseteq ListsOf(later, call, lo, h2)
<1> DEFINE E1 == UNION {Accounts(earlier, n, call.user, lo, h1) : n \in Name}
           E2 == UNION {Accounts(later, n, call.user, lo, h2) : n \in Name}
           size == IF Selects(call) THEN Cardinality(Name) ELSE Len(call.names)
<1>1. E1 \subseteq E2
  BY AccountsGrow
<1>2. SUFFICES ASSUME NEW k \in 0 .. size, NEW list \in [1 .. k -> E1],
                      IsAnswer(list, earlier, call, lo, h1)
               PROVE  list \in ListsOf(later, call, lo, h2)
  BY DEF ListsOf
<1>3. IsAnswer(list, later, call, lo, h2)
  BY <1>2, AnswerStays
<1> HIDE DEF E1, E2, size
<1>4. list \in [1 .. k -> E2]
  BY <1>1
<1> QED
  BY <1>3, <1>4 DEF ListsOf, E2, size

LEMMA PromisedGrows ==
  ASSUME NEW earlier, NEW later, IsExtension(later, earlier),
         NEW h1 \in Nat, NEW h2 \in Nat, h1 <= h2,
         h1 <= Len(earlier), NEW query, NEW asker, NEW from \in Nat
  PROVE  PromisedOf(earlier, h1, query, asker, from)
           \subseteq PromisedOf(later, h2, query, asker, from)
<1> DEFINE lo == IF from = 0 THEN 1 ELSE from
<1>1. lo \in Nat \ {0}
  OBVIOUS
<1> HIDE DEF lo
<1>2. ListsOf(earlier, Dispatch(query, asker), lo, h1)
        \subseteq ListsOf(later, Dispatch(query, asker), lo, h2)
  BY <1>1, ListsGrow
<1> QED
  BY <1>2 DEF PromisedOf, lo

-----------------------------------------------------------------------------
(* The inductive invariant.  A handler works for nobody until it knows     *)
(* whom it works for, then for the owner of the request's token, with the  *)
(* tag of what the caller keeps for the question.                          *)
ProgressInv(c) ==
  /\ stage[c] \in {"idle", "sent", "profile"} => user[c] = Anonymous
  /\ stage[c] = "profile" => request[c].token \in Person
  /\ stage[c] \in {"checked", "asked"} \/ Answered(c) => user[c] \in Askers(c)
  /\ stage[c] # "idle" =>
       request[c].ifNoneMatch =
         IF cache[c][request[c].query] = Missing THEN Missing
         ELSE cache[c][request[c].query].tag
  /\ stage[c] = "asked" \/ Answered(c) =>
       start[c] <= repo[request[c].replica]

(* A response with a tag comes from a list the client may have answered.   *)
IsReplyTo(c, list) ==
  LET tag == Tag(request[c].query, list)
  IN  /\ reply[c].tag = tag
      /\ \/ /\ reply[c].status = OK
            /\ reply[c].body = Body(request[c].query, list)
            /\ request[c].ifNoneMatch # tag
         \/ /\ reply[c].status = NotModified
            /\ request[c].ifNoneMatch = tag

ReplyInv(c) ==
  Answered(c) =>
    \E list \in Promised(c, user[c]) :
      \E sorted \in SortByName(list) : IsReplyTo(c, sorted)

(* ErrorsHaveACause for one caller.                                        *)
ErrorInv(c) ==
  /\ reply[c].status = Unauthorized =>
       \/ request[c].token = BadToken
       \/ request[c].token # NoToken /\ spent.failures > 0
  /\ reply[c].status = InternalServerError /\ spent.failures = 0 =>
       \E s, e \in Since(c) .. repo[request[c].replica] :
         \E n \in Selected(history[s], Dispatch(request[c].query, user[c]))
                   \cap Configured(history[e]) :
           Misconfigured(history[e][n])

RequestInv(c) == ProgressInv(c) /\ ReplyInv(c) /\ ErrorInv(c)

(* What a caller keeps is the answer that its tag is the tag of.           *)
CacheInv ==
  \A c \in Caller, q \in Query :
    cache[c][q] # Missing =>
      \E list \in Seq(Entry) :
        cache[c][q] = [tag |-> Tag(q, list), body |-> Body(q, list)]

IInv == TypeOK /\ CacheInv /\ \A c \in Caller : RequestInv(c)

(* A step, seen from a request: it ends there, it goes on unchanged while  *)
(* the world around it moves on, or it is the request's own.               *)
MovesOn ==
  /\ IsExtension(history', history)
  /\ IsExtension(profiles', profiles)
  /\ spent'.failures >= spent.failures

Ends(c) == stage'[c] = "idle" /\ user'[c] = Anonymous

GoesOn(c) ==
  /\ stage'[c] = stage[c] /\ request'[c] = request[c] /\ user'[c] = user[c]
  /\ start'[c] = start[c] /\ reply'[c] = reply[c] /\ cache'[c] = cache[c]
  /\ repo'[request[c].replica] >= repo[request[c].replica]

IsOwn(c) == (\E p \in Replica, q \in Query : Send(c, p, q)) \/ Step(c)

LEMMA EndingKeeps ==
  ASSUME TypeOK', NEW c \in Caller, Ends(c) PROVE RequestInv(c)'
<1>1. stage'[c] = "idle" /\ user'[c] = Anonymous
  BY DEF Ends
<1>2. reply'[c].status = Nothing
  BY <1>1 DEF TypeOK
<1>3. ErrorInv(c)'
  BY <1>2 DEF ErrorInv, Nothing, Unauthorized, InternalServerError
<1> QED
  BY <1>1, <1>3 DEF RequestInv, ProgressInv, ReplyInv, Answered

LEMMA GoingOnKeeps ==
  ASSUME TypeOK, TypeOK', MovesOn, NEW c \in Caller, GoesOn(c), RequestInv(c)
  PROVE  RequestInv(c)'
<1> USE DEF GoesOn
<1>1. request[c] \in RequestData /\ request[c].replica \in Replica
  BY DEF TypeOK, RequestData
<1>2. PICK now, then \in Nat :
        /\ now = repo[request[c].replica] /\ then = repo'[request[c].replica]
        /\ now <= then /\ now <= Len(history)
  <2>1. repo[request[c].replica] \in Nat /\ repo'[request[c].replica] \in Nat
    BY <1>1 DEF TypeOK
  <2> QED
    BY <1>1, <2>1 DEF TypeOK
<1>3. Askers(c) \subseteq Askers(c)'
  <2>1. Len(profiles) <= Len(profiles') /\ Len(profiles) \in Nat /\ Len(profiles') \in Nat
    BY DEF MovesOn, IsExtension
  <2>2. request[c].since \in Nat \ {0}
    BY <1>1 DEF RequestData
  <2>3. ASSUME NEW k \in request[c].since .. Len(profiles)
        PROVE  k \in request[c].since .. Len(profiles') /\ profiles'[k] = profiles[k]
    BY <2>1, <2>2 DEF MovesOn, IsExtension
  <2> QED
    BY <2>3 DEF Askers
<1>4. ProgressInv(c)'
  <2>1. ASSUME stage[c] = "asked" \/ Answered(c) PROVE start[c] <= then
    <3>1. start[c] <= now /\ start[c] \in Nat
      BY <1>2, <2>1 DEF RequestInv, ProgressInv, TypeOK
    <3> QED
      BY <1>2, <3>1
  <2> QED
    BY <1>2, <1>3, <2>1 DEF RequestInv, ProgressInv, Answered
<1>5. Promised(c, user[c]) \subseteq Promised(c, user[c])'
  <2>1. start[c] \in Nat
    BY DEF TypeOK
  <2>2. PromisedOf(history, now, request[c].query, user[c], start[c])
          \subseteq PromisedOf(history', then, request[c].query, user[c], start[c])
    BY <1>2, <2>1, PromisedGrows DEF MovesOn
  <2> QED
    BY <1>2, <2>2, PromisedNowAndThen
<1>6. ReplyInv(c)'
  BY <1>5 DEF RequestInv, ReplyInv, Answered, IsReplyTo
<1>7. spent.failures \in Nat /\ spent'.failures \in Nat
      /\ spent'.failures >= spent.failures
  BY DEF MovesOn, TypeOK
<1>8. ASSUME reply'[c].status = Unauthorized
      PROVE  \/ request'[c].token = BadToken
             \/ request'[c].token # NoToken /\ spent'.failures > 0
  BY <1>7, <1>8 DEF RequestInv, ErrorInv
<1>9. ASSUME reply'[c].status = InternalServerError, spent'.failures = 0
      PROVE  \E s, e \in Since(c)' .. repo'[request'[c].replica] :
               \E n \in Selected(history'[s], Dispatch(request'[c].query, user'[c]))
                         \cap Configured(history'[e]) :
                 Misconfigured(history'[e][n])
  <2>1. spent.failures = 0
    BY <1>7, <1>9
  <2>2. PICK s, e \in Since(c) .. now :
          \E n \in Selected(history[s], Dispatch(request[c].query, user[c]))
                    \cap Configured(history[e]) :
            Misconfigured(history[e][n])
    BY <1>2, <1>9, <2>1 DEF RequestInv, ErrorInv
  <2>3. Since(c) \in Nat \ {0} /\ Since(c)' = Since(c)
    BY DEF Since, TypeOK
  <2>4. history'[s] = history[s] /\ history'[e] = history[e]
    BY <1>2, <2>3 DEF MovesOn, IsExtension
  <2>5. s \in Since(c) .. then /\ e \in Since(c) .. then
    BY <1>2, <2>3
  <2> QED
    BY <1>2, <2>2, <2>3, <2>4, <2>5
<1>10. ErrorInv(c)'
  BY <1>8, <1>9 DEF ErrorInv
<1> QED
  BY <1>4, <1>6, <1>10 DEF RequestInv

-----------------------------------------------------------------------------
(* The steps of a request.                                                 *)

LEMMA SendKeeps ==
  ASSUME TypeOK, TypeOK', NEW c \in Caller, NEW p \in Replica, NEW q \in Query,
         Send(c, p, q), RequestInv(c)
  PROVE  RequestInv(c)'
<1>1. /\ stage[c] = "idle" /\ stage'[c] = "sent"
      /\ request'[c].query = q
      /\ request'[c].ifNoneMatch = IF cache[c][q] = Missing THEN Missing
                                                            ELSE cache[c][q].tag
      /\ user' = user /\ cache' = cache
  BY DEF Send, callerVars, TypeOK
<1>2. ProgressInv(c)'
  BY <1>1 DEF RequestInv, ProgressInv, Answered
<1>3. ReplyInv(c)'
  BY <1>1 DEF ReplyInv, Answered
<1>4. reply'[c].status = Nothing
  BY <1>1 DEF TypeOK
<1>5. ErrorInv(c)'
  BY <1>4 DEF ErrorInv, Nothing, Unauthorized, InternalServerError
<1> QED
  BY <1>2, <1>3, <1>5 DEF RequestInv

(* A refusal or a failure has no tag.                                      *)
LEMMA ErrorKeeps ==
  ASSUME TypeOK, TypeOK', NEW c \in Caller,
         NEW err \in {NewUnauthorizedError, PlainError}, ReplyError(c, err),
         UNCHANGED <<request, user, cache, profiles>>,
         stage[c] # "idle", RequestInv(c)
  PROVE  /\ ProgressInv(c)' /\ ReplyInv(c)'
         /\ reply'[c].status = IF err = NewUnauthorizedError THEN Unauthorized
                                                             ELSE InternalServerError
<1>1. /\ stage'[c] = "replied" /\ reply'[c].tag = Missing
      /\ reply'[c].status = JSONErrorResponse(FeaturesResponses, err)
  BY DEF ReplyError, Reply, TypeOK
<1>2. /\ JSONErrorResponse(FeaturesResponses, NewUnauthorizedError) = Unauthorized
      /\ JSONErrorResponse(FeaturesResponses, PlainError) = InternalServerError
  BY ErrorStatuses
<1>3. reply'[c].status = IF err = NewUnauthorizedError THEN Unauthorized
                                                       ELSE InternalServerError
  BY <1>1, <1>2
<1>4. /\ request'[c] = request[c] /\ user'[c] = user[c] /\ cache'[c] = cache[c]
  OBVIOUS
<1>5. ProgressInv(c)'
  BY <1>1, <1>4 DEF RequestInv, ProgressInv, Answered
<1>6. ReplyInv(c)'
  BY <1>1 DEF ReplyInv, Answered
<1> QED
  BY <1>3, <1>5, <1>6

LEMMA CheckTokenKeeps ==
  ASSUME TypeOK, TypeOK', NEW c \in Caller, CheckToken(c), RequestInv(c)
  PROVE  RequestInv(c)'
<1>1. /\ stage[c] = "sent" /\ request' = request /\ user' = user
      /\ cache' = cache /\ profiles' = profiles /\ spent' = spent
  BY DEF CheckToken, callerVars
<1>2. request[c].token \in Person \union {NoToken, BadToken}
  BY DEF TypeOK, RequestData, Token
<1>3. CASE request[c].token = BadToken
  <2>1. ReplyError(c, NewUnauthorizedError)
    <3>1. request[c].token # NoToken
      BY <1>3, ControllerAssumption
    <3> QED
      BY <1>3, <3>1 DEF CheckToken
  <2>2. /\ ProgressInv(c)' /\ ReplyInv(c)'
        /\ reply'[c].status = Unauthorized
    BY <1>1, <2>1, ErrorKeeps
  <2>3. ErrorInv(c)'
    BY <1>1, <1>3, <2>2 DEF ErrorInv, Unauthorized, InternalServerError
  <2> QED
    BY <2>2, <2>3 DEF RequestInv
<1>4. CASE request[c].token # BadToken
  <2>1. /\ reply' = reply
        /\ stage'[c] = IF request[c].token = NoToken THEN "checked" ELSE "profile"
    BY <1>4 DEF CheckToken, TypeOK
  <2>2. user[c] = Anonymous
    BY <1>1 DEF RequestInv, ProgressInv
  <2>3. stage'[c] = "checked" => user'[c] \in Askers(c)'
    BY <1>1, <2>1, <2>2 DEF Askers
  <2>4. stage'[c] = "profile" => request'[c].token \in Person
    BY <1>1, <1>2, <1>4, <2>1
  <2>5. stage'[c] \in {"checked", "profile"}
    BY <2>1
  <2>6. ProgressInv(c)'
    BY <1>1, <2>2, <2>3, <2>4, <2>5 DEF RequestInv, ProgressInv, Answered
  <2>7. ReplyInv(c)'
    BY <2>5 DEF ReplyInv, Answered
  <2>8. reply'[c].status = Nothing
    BY <2>5 DEF TypeOK
  <2>9. ErrorInv(c)'
    BY <2>8 DEF ErrorInv, Nothing, Unauthorized, InternalServerError
  <2> QED
    BY <2>6, <2>7, <2>9 DEF RequestInv
<1> QED
  BY <1>3, <1>4

LEMMA GetUserProfileKeeps ==
  ASSUME TypeOK, TypeOK', NEW c \in Caller, GetUserProfile(c), RequestInv(c)
  PROVE  RequestInv(c)'
<1>1. /\ stage[c] = "profile" /\ stage'[c] = "checked"
      /\ user'[c] = profiles[Len(profiles)][request[c].token]
      /\ request' = request /\ cache' = cache /\ profiles' = profiles
  BY DEF GetUserProfile, callerVars, TypeOK, ForwardedProfile
<1>2. request[c].token \in Person
  BY <1>1 DEF RequestInv, ProgressInv
<1>3. Len(profiles) \in request[c].since .. Len(profiles)
  BY DEF TypeOK, RequestData
<1>4. user'[c] \in Askers(c)'
  BY <1>1, <1>2, <1>3, ControllerAssumption DEF Askers
<1>5. ProgressInv(c)'
  BY <1>1, <1>4 DEF RequestInv, ProgressInv, Answered
<1>6. ReplyInv(c)'
  BY <1>1 DEF ReplyInv, Answered
<1>7. reply'[c].status = Nothing
  BY <1>1 DEF TypeOK
<1>8. ErrorInv(c)'
  BY <1>7 DEF ErrorInv, Nothing, Unauthorized, InternalServerError
<1> QED
  BY <1>5, <1>6, <1>8 DEF RequestInv

LEMMA ProfileFailsKeeps ==
  ASSUME TypeOK, TypeOK', NEW c \in Caller,
         NEW err \in {NewUnauthorizedError, PlainError}, ProfileFails(c, err),
         RequestInv(c)
  PROVE  RequestInv(c)'
<1>1. /\ stage[c] = "profile" /\ ReplyError(c, err)
      /\ UNCHANGED <<request, user, cache, profiles>>
      /\ spent' = [spent EXCEPT !.failures = @ + 1]
  BY DEF ProfileFails, callerVars
<1>2. ProgressInv(c)' /\ ReplyInv(c)'
  BY <1>1, ErrorKeeps
<1>3. spent'.failures > 0
  BY <1>1 DEF TypeOK
<1>4. request'[c].token # NoToken
  BY <1>1, ControllerAssumption DEF RequestInv, ProgressInv
<1>5. ErrorInv(c)'
  <2>1. spent'.failures # 0
    BY <1>3 DEF TypeOK
  <2> QED
    BY <1>3, <1>4, <2>1 DEF ErrorInv
<1> QED
  BY <1>2, <1>5 DEF RequestInv

LEMMA AnswerNoQuestionKeeps ==
  ASSUME TypeOK, TypeOK', NEW c \in Caller, AnswerNoQuestion(c), RequestInv(c)
  PROVE  RequestInv(c)'
<1>1. /\ stage[c] = "checked" /\ stage'[c] = "replied"
      /\ reply'[c].tag = Missing /\ reply'[c].status = OK
      /\ request' = request /\ user' = user /\ cache' = cache
  BY DEF AnswerNoQuestion, Reply, callerVars, TypeOK
<1>2. ProgressInv(c)' /\ ReplyInv(c)'
  BY <1>1 DEF RequestInv, ProgressInv, ReplyInv, Answered
<1>3. ErrorInv(c)'
  BY <1>1 DEF ErrorInv, OK, Unauthorized, InternalServerError
<1> QED
  BY <1>2, <1>3 DEF RequestInv

LEMMA AskClientKeeps ==
  ASSUME TypeOK, TypeOK', NEW c \in Caller, AskClient(c), RequestInv(c)
  PROVE  RequestInv(c)'
<1>1. /\ stage[c] = "checked" /\ stage'[c] = "asked"
      /\ request' = request /\ user' = user /\ cache' = cache
      /\ profiles' = profiles
  BY DEF AskClient, callerVars, TypeOK
<1>2. user'[c] \in Askers(c)'
  BY <1>1 DEF RequestInv, ProgressInv, Askers
<1>3. ProgressInv(c)' /\ ReplyInv(c)'
  <2>1. /\ start'[c] = IF ready[request[c].replica] THEN repo[request[c].replica]
                                                    ELSE 0
        /\ repo' = repo
    BY DEF AskClient, serverVars, TypeOK
  <2>2. repo[request[c].replica] \in Nat
    BY DEF TypeOK, RequestData
  <2>3. start'[c] <= repo'[request'[c].replica]
    BY <1>1, <2>1, <2>2
  <2> QED
    BY <1>1, <1>2, <2>3 DEF RequestInv, ProgressInv, ReplyInv, Answered
<1>4. reply'[c].status = Nothing
  BY <1>1 DEF TypeOK
<1>5. ErrorInv(c)'
  BY <1>4 DEF ErrorInv, Nothing, Unauthorized, InternalServerError
<1> QED
  BY <1>3, <1>5 DEF RequestInv

LEMMA AnswerKeeps ==
  ASSUME TypeOK, TypeOK', NEW c \in Caller, Answer(c), RequestInv(c)
  PROVE  RequestInv(c)'
<1>1. PICK list \in Promised(c, user[c]) : AnswerWith(c, list)
  BY DEF Answer
<1>2. PICK sorted \in SortByName(list) : Conditional(c, sorted)
  BY <1>1 DEF AnswerWith
<1>3. /\ stage[c] = "asked"
      /\ request' = request /\ user' = user /\ cache' = cache /\ start' = start
      /\ profiles' = profiles /\ history' = history /\ repo' = repo
  BY <1>1 DEF AnswerWith, callerVars, serverVars
<1>4. stage'[c] = "replied" /\ reply'[c].status \in {OK, NotModified}
  BY <1>2 DEF Conditional, Reply, TypeOK
<1>5. IsReplyTo(c, sorted)'
  BY <1>2, <1>3 DEF Conditional, Reply, TypeOK, IsReplyTo
<1>6. Promised(c, user[c])' = Promised(c, user[c])
  BY <1>3, PromisedNowAndThen
<1>7. ReplyInv(c)'
  BY <1>1, <1>2, <1>5, <1>6 DEF ReplyInv
<1>8. user'[c] \in Askers(c)'
  BY <1>3 DEF RequestInv, ProgressInv, Askers
<1>9. ProgressInv(c)'
  BY <1>3, <1>4, <1>8 DEF RequestInv, ProgressInv
<1>10. ErrorInv(c)'
  BY <1>4 DEF ErrorInv, OK, NotModified, Unauthorized, InternalServerError
<1> QED
  BY <1>7, <1>9, <1>10 DEF RequestInv

LEMMA PanicKeeps ==
  ASSUME TypeOK, TypeOK', NEW c \in Caller, Panic(c), RequestInv(c)
  PROVE  RequestInv(c)'
<1>1. /\ stage[c] = "asked" /\ stage'[c] = "replied"
      /\ reply'[c].tag = Missing /\ reply'[c].status = InternalServerError
      /\ request' = request /\ user' = user /\ cache' = cache /\ start' = start
      /\ history' = history /\ repo' = repo
  BY ErrorStatuses DEF Panic, PanicReply, Reply, callerVars, serverVars, TypeOK
<1>2. ProgressInv(c)' /\ ReplyInv(c)'
  BY <1>1 DEF RequestInv, ProgressInv, ReplyInv, Answered
<1>3. \A version, n, asker :
        Panics(version, n, asker) =>
          (n \in Name =>
             n \in Configured(version) /\ Misconfigured(version[n]))
  BY DEF Panics, UnleashPanics, LevelStrategyPanics, Misconfigured, Configured
<1>4. \E s, e \in Since(c) .. repo[request[c].replica] :
        \E n \in Selected(history[s], Dispatch(request[c].query, user[c]))
                  \cap Configured(history[e]) :
          Misconfigured(history[e][n])
  <2>1. PICK s, e \in Since(c) .. repo[request[c].replica] :
          \E n \in Selected(history[s], Dispatch(request[c].query, user[c])) :
            s <= e /\ Panics(history[e], n, user[c])
    BY DEF Panic
  <2>2. Selected(history[s], Dispatch(request[c].query, user[c])) \subseteq Name
    BY DEF Selected, Configured
  <2> QED
    BY <1>3, <2>1, <2>2
<1>5. Since(c)' = Since(c)
  BY <1>1 DEF Since
<1>6. ErrorInv(c)'
  BY <1>1, <1>4, <1>5 DEF ErrorInv, Unauthorized, InternalServerError
<1> QED
  BY <1>2, <1>6 DEF RequestInv

LEMMA OwnStepKeeps ==
  ASSUME TypeOK, TypeOK', NEW c \in Caller, IsOwn(c), RequestInv(c)
  PROVE  RequestInv(c)'
BY SendKeeps, CheckTokenKeeps, GetUserProfileKeeps, ProfileFailsKeeps,
   AnswerNoQuestionKeeps, AskClientKeeps, AnswerKeeps, PanicKeeps
   DEF IsOwn, Step, Prepare

-----------------------------------------------------------------------------
(* Every step is one of the three for every request.                       *)
LEMMA HandlerStepMovesOn ==
  ASSUME TypeOK, NEW c \in Caller, Step(c)
  PROVE  /\ history' = history /\ repo' = repo /\ profiles' = profiles
         /\ cache' = cache /\ spent'.failures >= spent.failures
         /\ \A d \in Caller \ {c} :
              /\ stage'[d] = stage[d] /\ request'[d] = request[d]
              /\ user'[d] = user[d] /\ start'[d] = start[d] /\ reply'[d] = reply[d]
<1> DEFINE Moves ==
  /\ history' = history /\ repo' = repo /\ profiles' = profiles
  /\ cache' = cache /\ spent'.failures >= spent.failures
  /\ \A d \in Caller \ {c} :
       /\ stage'[d] = stage[d] /\ request'[d] = request[d]
       /\ user'[d] = user[d] /\ start'[d] = start[d] /\ reply'[d] = reply[d]
<1> USE DEF serverVars, callerVars, Reply, TypeOK
<1>1. CASE CheckToken(c)
  BY <1>1 DEF CheckToken, ReplyError
<1>2. CASE GetUserProfile(c)
  BY <1>2 DEF GetUserProfile
<1>3. ASSUME NEW err, ProfileFails(c, err) PROVE Moves
  BY <1>3 DEF ProfileFails, ReplyError
<1>4. CASE AnswerNoQuestion(c)
  BY <1>4 DEF AnswerNoQuestion
<1>5. CASE AskClient(c)
  BY <1>5 DEF AskClient
<1>6. CASE Answer(c)
  <2>1. PICK list, sorted :
          /\ Conditional(c, sorted)
          /\ UNCHANGED <<serverVars, callerVars, request, user, start, spent>>
    BY <1>6 DEF Answer, AnswerWith
  <2> QED
    BY <2>1 DEF Conditional
<1>7. CASE Panic(c)
  BY <1>7 DEF Panic, PanicReply
<1> QED
  BY <1>1, <1>2, <1>3, <1>4, <1>5, <1>6, <1>7 DEF Step, Prepare

LEMMA BreakingOffEnds ==
  ASSUME NEW callers, BreakOff(callers), NEW d \in Caller
  PROVE  IF d \in callers THEN Ends(d)
         ELSE /\ stage'[d] = stage[d] /\ request'[d] = request[d]
              /\ user'[d] = user[d] /\ start'[d] = start[d] /\ reply'[d] = reply[d]
BY DEF BreakOff, Ends

(* When nothing but the world around changes.                              *)
LEMMA WorldMovesOn ==
  ASSUME TypeOK, UNCHANGED <<handlerVars, cache>>,
         \A p \in Replica : repo'[p] >= repo[p], NEW d \in Caller
  PROVE  GoesOn(d)
BY DEF GoesOn, handlerVars, TypeOK, RequestData

LEMMA ThreeWays ==
  ASSUME IInv, [Next]_vars
  PROVE  MovesOn /\ \A d \in Caller : Ends(d) \/ GoesOn(d) \/ IsOwn(d)
<1> DEFINE Goal == MovesOn /\ \A d \in Caller : Ends(d) \/ GoesOn(d) \/ IsOwn(d)
<1>1. TypeOK
  BY DEF IInv
<1>2. \A d \in Caller : stage[d] = "idle" => user[d] = Anonymous
  BY DEF IInv, RequestInv, ProgressInv
<1>3. /\ Len(history) \in Nat /\ Len(profiles) \in Nat
      /\ \A p \in Replica : repo[p] \in Nat
      /\ spent.failures \in Nat
  BY <1>1 DEF TypeOK
<1>4. IsExtension(history, history) /\ IsExtension(profiles, profiles)
      /\ spent.failures >= spent.failures /\ \A p \in Replica : repo[p] >= repo[p]
  BY <1>3, SameIsExtension
<1>5. ASSUME NEW n \in Name, NEW setting \in Settings \union {Absent},
             Edit(n, setting)
      PROVE  Goal
  <2>1. [history[Len(history)] EXCEPT ![n] = setting] \in Version
    BY <1>1 DEF TypeOK, Version
  <2>2. IsExtension(history', history)
    BY <1>1, <1>5, <2>1, LongerIsExtension DEF Edit, TypeOK
  <2>3. spent'.failures = spent.failures /\ profiles' = profiles
    BY <1>1, <1>5 DEF Edit, TypeOK, callerVars
  <2>4. MovesOn
    BY <1>4, <2>2, <2>3 DEF MovesOn
  <2> QED
    BY <1>1, <1>4, <1>5, <2>4, WorldMovesOn DEF Edit, callerVars
<1>6. ASSUME NEW p \in Replica, Refresh(p) \/ OnReady(p) PROVE Goal
  <2>1. \A q \in Replica : repo'[q] >= repo[q]
    <3>1. CASE Refresh(p)
      <4>1. /\ repo[p] < Len(history)
            /\ \A q \in Replica : repo'[q] = IF q = p THEN Len(history) ELSE repo[q]
        BY <1>1, <3>1 DEF Refresh, TypeOK
      <4> QED
        BY <1>3, <1>4, <4>1
    <3>2. CASE OnReady(p)
      BY <1>4, <3>2 DEF OnReady
    <3> QED
      BY <1>6, <3>1, <3>2
  <2>2. MovesOn
    BY <1>4, <1>6 DEF Refresh, OnReady, callerVars, MovesOn
  <2> QED
    BY <1>1, <1>6, <2>1, <2>2, WorldMovesOn DEF Refresh, OnReady, callerVars
<1>7. ASSUME NEW c \in Caller, NEW t \in Token, SignIn(c, t) PROVE Goal
  <2>1. spent'.failures = spent.failures
    BY <1>1, <1>7 DEF SignIn, TypeOK
  <2>2. MovesOn
    BY <1>4, <1>7, <2>1 DEF SignIn, serverVars, MovesOn
  <2> QED
    BY <1>1, <1>4, <1>7, <2>2, WorldMovesOn DEF SignIn, serverVars
<1>8. ASSUME NEW person \in Person, NEW profile \in Profile,
             UpdateProfile(person, profile)
      PROVE  Goal
  <2>1. [profiles[Len(profiles)] EXCEPT ![person] = profile] \in [Person -> Profile]
    BY <1>1 DEF TypeOK
  <2>2. IsExtension(profiles', profiles)
    BY <1>1, <1>8, <2>1, LongerIsExtension DEF UpdateProfile, TypeOK
  <2>3. spent'.failures = spent.failures /\ history' = history /\ repo' = repo
    BY <1>1, <1>8 DEF UpdateProfile, TypeOK, serverVars
  <2>4. MovesOn
    BY <1>4, <2>2, <2>3 DEF MovesOn
  <2> QED
    BY <1>1, <1>4, <1>8, <2>3, <2>4, WorldMovesOn DEF UpdateProfile
<1>9. ASSUME AuthHangs \/ AuthRecovers PROVE Goal
  <2>1. spent'.failures >= spent.failures
    BY <1>1, <1>9 DEF AuthHangs, AuthRecovers, TypeOK
  <2>2. MovesOn
    BY <1>4, <1>9, <2>1 DEF AuthHangs, AuthRecovers, serverVars, MovesOn
  <2> QED
    BY <1>1, <1>4, <1>9, <2>2, WorldMovesOn DEF AuthHangs, AuthRecovers, serverVars
<1>10. ASSUME NEW c \in Caller, NEW p \in Replica, NEW q \in Query, Send(c, p, q)
       PROVE  Goal
  <2>1. MovesOn
    BY <1>4, <1>10 DEF Send, serverVars, callerVars, MovesOn
  <2>2. IsOwn(c)
    BY <1>10 DEF IsOwn
  <2>3. ASSUME NEW d \in Caller, d # c PROVE GoesOn(d)
    BY <1>1, <1>4, <1>10, <2>3
       DEF Send, serverVars, callerVars, GoesOn, TypeOK, RequestData
  <2> QED
    BY <2>1, <2>2, <2>3
<1>11. ASSUME NEW c \in Caller, Receive(c) PROVE Goal
  <2>1. MovesOn
    BY <1>4, <1>11 DEF Receive, serverVars, MovesOn
  <2>2. ASSUME NEW d \in Caller, d # c PROVE GoesOn(d)
    <3>1. cache'[d] = cache[d] /\ repo' = repo
      BY <1>1, <1>11, <2>2 DEF Receive, TypeOK, serverVars
    <3>2. request[d].replica \in Replica
      BY <1>1 DEF TypeOK, RequestData
    <3> QED
      BY <1>4, <1>11, <2>2, <3>1, <3>2, BreakingOffEnds DEF Receive, GoesOn
  <2>3. Ends(c)
    BY <1>11, BreakingOffEnds DEF Receive
  <2> QED
    BY <2>1, <2>2, <2>3
<1>12. ASSUME NEW c \in Caller, Lose(c) PROVE Goal
  <2>1. spent'.failures >= spent.failures
    BY <1>1, <1>12 DEF Lose, TypeOK
  <2>2. MovesOn
    BY <1>4, <1>12, <2>1 DEF Lose, serverVars, callerVars, MovesOn
  <2>3. ASSUME NEW d \in Caller, d # c PROVE GoesOn(d)
    <3>1. request[d].replica \in Replica
      BY <1>1 DEF TypeOK, RequestData
    <3> QED
      BY <1>4, <1>12, <2>3, <3>1, BreakingOffEnds
         DEF Lose, GoesOn, serverVars, callerVars
  <2>4. Ends(c)
    BY <1>12, BreakingOffEnds DEF Lose
  <2> QED
    BY <2>2, <2>3, <2>4
<1>13. ASSUME NEW p \in Replica, Restart(p) PROVE Goal
  <2>1. spent'.failures = spent.failures
    BY <1>1, <1>13 DEF Restart, TypeOK
  <2>2. MovesOn
    BY <1>4, <1>13, <2>1 DEF Restart, callerVars, MovesOn
  <2>3. ASSUME NEW d \in Caller PROVE Ends(d) \/ GoesOn(d)
    <3>1. CASE stage[d] # "idle" /\ request[d].replica = p
      BY <1>13, <3>1, BreakingOffEnds DEF Restart
    <3>2. CASE stage[d] = "idle"
      BY <1>2, <1>13, <3>2, BreakingOffEnds DEF Restart, Ends
    <3>3. CASE stage[d] # "idle" /\ request[d].replica # p
      <4>1. request[d].replica \in Replica
        BY <1>1 DEF TypeOK, RequestData
      <4>2. repo'[request[d].replica] = repo[request[d].replica]
        BY <1>1, <1>13, <3>3, <4>1 DEF Restart, TypeOK
      <4> QED
        BY <1>4, <1>13, <3>3, <4>1, <4>2, BreakingOffEnds
           DEF Restart, GoesOn, callerVars
    <3> QED
      BY <3>1, <3>2, <3>3
  <2> QED
    BY <2>2, <2>3
<1>14. ASSUME NEW c \in Caller, Step(c) PROVE Goal
  <2>1. /\ history' = history /\ repo' = repo /\ profiles' = profiles
        /\ cache' = cache /\ spent'.failures >= spent.failures
        /\ \A d \in Caller \ {c} :
             /\ stage'[d] = stage[d] /\ request'[d] = request[d]
             /\ user'[d] = user[d] /\ start'[d] = start[d] /\ reply'[d] = reply[d]
    BY <1>1, <1>14, HandlerStepMovesOn
  <2>2. MovesOn
    BY <1>4, <2>1 DEF MovesOn
  <2>3. IsOwn(c)
    BY <1>14 DEF IsOwn
  <2>4. ASSUME NEW d \in Caller, d # c PROVE GoesOn(d)
    <3>1. request[d].replica \in Replica
      BY <1>1 DEF TypeOK, RequestData
    <3> QED
      BY <1>4, <2>1, <2>4, <3>1 DEF GoesOn
  <2> QED
    BY <2>2, <2>3, <2>4
<1>15. CASE UNCHANGED vars
  BY <1>1, <1>4, <1>15, WorldMovesOn DEF vars, serverVars, callerVars, MovesOn
<1> QED
  BY <1>5, <1>6, <1>7, <1>8, <1>9, <1>10, <1>11, <1>12, <1>13, <1>14, <1>15
     DEF Next, Surroundings

-----------------------------------------------------------------------------
LEMMA CacheKept ==
  ASSUME IInv, [Next]_vars PROVE CacheInv'
<1>1. CASE cache' = cache
  BY <1>1 DEF IInv, CacheInv
<1>2. ASSUME NEW c \in Caller, Receive(c), cache' # cache PROVE CacheInv'
  <2>1. /\ stage[c] = "replied" /\ reply[c].status = OK
        /\ cache' = [cache EXCEPT ![c][request[c].query] =
                       IF reply[c].tag = Missing THEN Missing
                       ELSE [tag |-> reply[c].tag, body |-> reply[c].body]]
    BY <1>2 DEF Receive
  <2>2. TypeOK /\ request[c].query \in Query
    BY DEF IInv, TypeOK, RequestData
  <2>3. ASSUME reply[c].tag # Missing
        PROVE  \E list \in Seq(Entry) :
                 [tag |-> reply[c].tag, body |-> reply[c].body] =
                   [tag |-> Tag(request[c].query, list),
                    body |-> Body(request[c].query, list)]
    <3>1. PICK list \in Promised(c, user[c]) :
            \E sorted \in SortByName(list) : IsReplyTo(c, sorted)
      BY <2>1, <2>3 DEF IInv, RequestInv, ReplyInv, Answered
    <3>2. PICK sorted \in SortByName(list) : IsReplyTo(c, sorted)
      BY <3>1
    <3>3. list \in Seq(Entry)
      BY <2>2, PromisedIsTyped, TypesInParts
    <3>4. sorted \in Seq(Entry)
      BY <3>3, SortedIsTyped
    <3>5. /\ reply[c].tag = Tag(request[c].query, sorted)
          /\ reply[c].body = Body(request[c].query, sorted)
      BY <2>1, <3>2 DEF IsReplyTo, OK, NotModified
    <3> QED
      BY <3>4, <3>5
  <2>4. ASSUME NEW d \in Caller, NEW q \in Query, cache'[d][q] # Missing
        PROVE  \E list \in Seq(Entry) :
                 cache'[d][q] = [tag |-> Tag(q, list), body |-> Body(q, list)]
    <3>1. CASE d = c /\ q = request[c].query
      <4>1. cache'[d][q] = IF reply[c].tag = Missing THEN Missing
                       ELSE [tag |-> reply[c].tag, body |-> reply[c].body]
        BY <2>1, <2>2, <3>1 DEF TypeOK
      <4> QED
        BY <2>3, <2>4, <3>1, <4>1
    <3>2. CASE ~(d = c /\ q = request[c].query)
      <4>1. cache'[d][q] = cache[d][q]
        BY <2>1, <2>2, <3>2 DEF TypeOK
      <4> QED
        BY <2>4, <4>1 DEF IInv, CacheInv
    <3> QED
      BY <3>1, <3>2
  <2> QED
    BY <2>4 DEF CacheInv
<1>3. cache' = cache \/ \E c \in Caller : Receive(c)
  <2>1. TypeOK
    BY DEF IInv
  <2>2. \A c \in Caller : Step(c) => cache' = cache
    BY <2>1, HandlerStepMovesOn
  <2> QED
    BY <2>2 DEF Next, Surroundings, vars, callerVars, Edit, Refresh, OnReady,
         UpdateProfile, AuthHangs, AuthRecovers, SignIn, Send, Restart, Lose
<1> QED
  BY <1>1, <1>2, <1>3

LEMMA InitInv == Init => IInv
<1> SUFFICES ASSUME Init PROVE IInv
  OBVIOUS
<1>1. TypeOK
  BY InitTyped
<1>2. CacheInv
  BY DEF Init, CacheInv
<1>3. ASSUME NEW c \in Caller PROVE RequestInv(c)
  <2>1. /\ stage[c] = "idle" /\ user[c] = Anonymous /\ reply[c].status = Nothing
    BY <1>1, FreshRequest DEF Init, NoReply
  <2> QED
    BY <2>1 DEF RequestInv, ProgressInv, ReplyInv, ErrorInv, Answered, Nothing,
         Unauthorized, InternalServerError
<1> QED
  BY <1>1, <1>2, <1>3 DEF IInv

LEMMA NextInv == IInv /\ [Next]_vars => IInv'
<1> SUFFICES ASSUME IInv, [Next]_vars PROVE IInv'
  OBVIOUS
<1>1. TypeOK'
  BY NextTyped DEF IInv, RequestInv, ProgressInv, PeopleHaveProfiles
<1>2. CacheInv'
  BY CacheKept
<1>3. ASSUME NEW c \in Caller PROVE RequestInv(c)'
  <2>1. TypeOK /\ RequestInv(c) /\ MovesOn
    BY ThreeWays DEF IInv
  <2>2. Ends(c) \/ GoesOn(c) \/ IsOwn(c)
    BY ThreeWays
  <2> QED
    BY <1>1, <2>1, <2>2, EndingKeeps, GoingOnKeeps, OwnStepKeeps
<1> QED
  BY <1>1, <1>2, <1>3 DEF IInv

(* The inductive invariant holds in every reachable state.                 *)
THEOREM ControllerInvariant == Spec => []IInv
BY InitInv, NextInv, PTL DEF Spec

(* The variables have their types: what is stored, sent and kept is what   *)
(* the handlers make (features.go:67-122, generator.go:248-279).           *)
THEOREM ControllerTypeCorrect == Spec => []TypeOK
<1>1. IInv => TypeOK
  BY DEF IInv
<1> QED
  BY <1>1, ControllerInvariant, PTL

(* An answer refused or failed has a cause: a token that is not good, the  *)
(* auth service, or a feature without a level (features.go:86-93).         *)
THEOREM ErrorsAreCaused == Spec => []ErrorsHaveACause
<1>1. IInv => ErrorsHaveACause
  BY DEF IInv, RequestInv, ErrorInv, ErrorsHaveACause
<1> QED
  BY <1>1, ControllerInvariant, PTL

(* A 304 vouches for the answer that the caller keeps: its tag is that of  *)
(* the answer it would have been sent, so it is the same answer.           *)
LEMMA AnswersAreExplained ==
  ASSUME SeparatorsAreFree, IInv PROVE AnswersAreCurrent
<1> SUFFICES ASSUME NEW c \in Caller, Answered(c)
             PROVE  /\ reply[c].status = NotModified =>
                         cache[c][request[c].query] # Missing
                    /\ \E asker \in Askers(c) :
                         Shown(c) \in Bodies(request[c].query, Promised(c, asker))
  BY DEF AnswersAreCurrent
<1> DEFINE query == request[c].query
<1>1. TypeOK /\ query \in Query
  BY DEF IInv, TypeOK, RequestData
<1>2. /\ user[c] \in Askers(c)
      /\ request[c].ifNoneMatch =
           IF cache[c][query] = Missing THEN Missing ELSE cache[c][query].tag
  <2>1. stage[c] # "idle"
    BY DEF Answered
  <2> QED
    BY <2>1 DEF IInv, RequestInv, ProgressInv
<1>3. PICK list \in Promised(c, user[c]) :
        \E sorted \in SortByName(list) : IsReplyTo(c, sorted)
  BY DEF IInv, RequestInv, ReplyInv
<1>4. PICK sorted \in SortByName(list) : IsReplyTo(c, sorted)
  BY <1>3
<1>5. sorted \in Seq(Entry)
  BY <1>1, PromisedIsTyped, SortedIsTyped, TypesInParts
<1>6. Body(query, sorted) \in Bodies(query, Promised(c, user[c]))
  BY DEF Bodies
<1>7. ASSUME reply[c].status = NotModified
      PROVE  cache[c][query] # Missing /\ Shown(c) = Body(query, sorted)
  <2>1. /\ reply[c].tag # Missing /\ reply[c].tag = Tag(query, sorted)
        /\ request[c].ifNoneMatch = Tag(query, sorted)
    BY <1>4, <1>7 DEF Answered, IsReplyTo, OK, NotModified
  <2>2. cache[c][query] # Missing /\ cache[c][query].tag = Tag(query, sorted)
    BY <1>2, <2>1
  <2>3. PICK kept \in Seq(Entry) :
          cache[c][query] = [tag |-> Tag(query, kept), body |-> Body(query, kept)]
    BY <1>1, <2>2 DEF IInv, CacheInv
  <2>4. kept = sorted
    <3>1. Tag(query, kept) = Tag(query, sorted)
      BY <2>2, <2>3
    <3> QED
      BY <1>5, <3>1, TagTells
  <2> QED
    BY <1>7, <2>2, <2>3, <2>4 DEF Shown
<1>8. ASSUME reply[c].status # NotModified
      PROVE  Shown(c) = Body(query, sorted)
  BY <1>4, <1>8 DEF IsReplyTo, Shown
<1>9. Shown(c) = Body(query, sorted)
  BY <1>7, <1>8
<1> QED
  BY <1>2, <1>6, <1>7, <1>9

(* An answer, sent or confirmed by a 304, is one to the question, for its  *)
(* asker, from contents of the time: for every history of edits, sign-ins, *)
(* restarts and failures, provided that no name and no description holds a *)
(* character that the tags are joined with (generator.go:248-279,          *)
(* features.go:98-121).                                                    *)
THEOREM CurrentAnswers == SeparatorsAreFree => (Spec => []AnswersAreCurrent)
<1> SUFFICES ASSUME SeparatorsAreFree PROVE Spec => []AnswersAreCurrent
  OBVIOUS
<1>1. IInv => AnswersAreCurrent
  BY AnswersAreExplained
<1> QED
  BY <1>1, ControllerInvariant, PTL

-----------------------------------------------------------------------------
(* Sorting.  Two sorted lists that hold the same, entry for entry, are the *)
(* same: what List sends does not depend on the order of the client's      *)
(* answer (features.go:98-100).                                            *)
OneToOne(f, S) == \A i, j \in S : f[i] = f[j] => i = j

LEMMA NoWayIntoFewer ==
  ASSUME NEW m \in Nat, NEW n \in Nat, NEW f \in [1 .. m -> 1 .. n],
         OneToOne(f, 1 .. m)
  PROVE  m <= n
<1> SUFFICES ASSUME n < m PROVE FALSE
  OBVIOUS
<1>1. /\ IsFiniteSet(1 .. m) /\ IsFiniteSet(1 .. n)
      /\ Cardinality(1 .. m) = m /\ Cardinality(1 .. n) = n
  <2>1. m \in Int /\ n \in Int /\ 1 \in Int
    OBVIOUS
  <2>2. /\ IsFiniteSet(1 .. m) /\ IsFiniteSet(1 .. n)
        /\ Cardinality(1 .. m) = IF 1 > m THEN 0 ELSE m - 1 + 1
        /\ Cardinality(1 .. n) = IF 1 > n THEN 0 ELSE n - 1 + 1
    BY <2>1, FS_Interval, Zenon
  <2> QED
    BY <2>2
<1>2. Cardinality(1 .. n) < Cardinality(1 .. m)
  BY <1>1
<1>3. \E i, j \in 1 .. m : i # j /\ f[i] = f[j]
  BY <1>1, <1>2, FS_PigeonHole, Zenon
<1> QED
  BY <1>3 DEF OneToOne

LEMMA PermutationCovers ==
  ASSUME NEW n \in Nat, NEW p \in [1 .. n -> 1 .. n], OneToOne(p, 1 .. n),
         NEW k \in 1 .. n
  PROVE  \E i \in 1 .. n : p[i] = k
<1> SUFFICES ASSUME \A i \in 1 .. n : p[i] # k PROVE FALSE
  OBVIOUS
<1> DEFINE f == [i \in 1 .. n |-> IF p[i] = n THEN k ELSE p[i]]
<1>1. n - 1 \in Nat /\ f \in [1 .. n -> 1 .. n - 1]
  <2>1. n - 1 \in Nat
    OBVIOUS
  <2>2. ASSUME NEW i \in 1 .. n PROVE f[i] \in 1 .. n - 1
    <3>1. CASE p[i] = n
      <4>1. k # n
        BY <3>1
      <4> QED
        BY <3>1, <4>1
    <3>2. CASE p[i] # n
      <4>1. p[i] \in 1 .. n
        OBVIOUS
      <4> QED
        BY <3>2, <4>1
    <3> QED
      BY <3>1, <3>2
  <2> QED
    BY <2>1, <2>2
<1>2. OneToOne(f, 1 .. n)
  BY DEF OneToOne
<1> HIDE DEF f
<1>3. n <= n - 1
  BY <1>1, <1>2, NoWayIntoFewer
<1> QED
  BY <1>3

IsSorted(list) ==
  \A i, j \in DOMAIN list : i < j => Rank[list[i].name] <= Rank[list[j].name]

(* One list holds what the other holds.                                    *)
IsWithin(one, two) ==
  \E f \in [DOMAIN one -> DOMAIN two] :
    /\ OneToOne(f, DOMAIN one)
    /\ \A i \in DOMAIN one : one[i] = two[f[i]]

LEMMA RankIsTyped ==
  ASSUME NEW list \in Seq(Entry), NEW i \in 1 .. Len(list)
  PROVE  list[i].name \in Name /\ Rank[list[i].name] \in Nat
<1>1. list[i] \in Entry
  OBVIOUS
<1>2. list[i].name \in Name
  BY <1>1 DEF Entry
<1> QED
  BY <1>2, ControllerAssumption

(* The i-th of a sorted list within another is not before the i-th there.  *)
LEMMA SortedWithin ==
  ASSUME NEW one \in Seq(Entry), NEW two \in Seq(Entry),
         IsSorted(one), IsSorted(two), IsWithin(one, two),
         NEW i \in 1 .. Len(one), i \in 1 .. Len(two)
  PROVE  Rank[two[i].name] <= Rank[one[i].name]
<1> SUFFICES ASSUME ~(Rank[two[i].name] <= Rank[one[i].name]) PROVE FALSE
  OBVIOUS
<1>1. /\ DOMAIN one = 1 .. Len(one) /\ DOMAIN two = 1 .. Len(two)
      /\ Len(one) \in Nat /\ Len(two) \in Nat
  OBVIOUS
<1>2. PICK f \in [1 .. Len(one) -> 1 .. Len(two)] :
        /\ OneToOne(f, 1 .. Len(one))
        /\ \A k \in 1 .. Len(one) : one[k] = two[f[k]]
  BY <1>1 DEF IsWithin
<1>3. ASSUME NEW k \in 1 .. i PROVE f[k] \in 1 .. i - 1
  <2>1. k \in 1 .. Len(one) /\ f[k] \in 1 .. Len(two)
    <3>1. k \in 1 .. Len(one)
      BY <1>1
    <3> QED
      BY <1>2, <3>1
  <2>2. Rank[one[k].name] <= Rank[one[i].name]
    <3>1. CASE k = i
      BY <3>1, RankIsTyped
    <3>2. CASE k < i
      BY <1>1, <2>1, <3>2 DEF IsSorted
    <3> QED
      BY <3>1, <3>2
  <2>3. Rank[two[f[k]].name] <= Rank[one[i].name]
    BY <1>2, <2>1, <2>2
  <2>4. \A j \in 1 .. Len(two) : i <= j => Rank[two[i].name] <= Rank[two[j].name]
    <3> TAKE j \in 1 .. Len(two)
    <3>1. CASE j = i
      BY <3>1, RankIsTyped
    <3>2. CASE i < j
      BY <1>1, <3>2 DEF IsSorted
    <3> QED
      BY <3>1, <3>2
  <2>5. PICK a, b, d \in Nat : /\ a = Rank[two[i].name] /\ b = Rank[one[i].name]
                               /\ d = Rank[two[f[k]].name]
    BY <2>1, RankIsTyped
  <2>6. ~(i <= f[k])
    BY <2>1, <2>3, <2>4, <2>5
  <2> QED
    BY <2>1, <2>6
<1> DEFINE g == [k \in 1 .. i |-> f[k]]
<1>4. i - 1 \in Nat /\ i \in Nat /\ g \in [1 .. i -> 1 .. i - 1]
  BY <1>3
<1>5. OneToOne(g, 1 .. i)
  BY <1>1, <1>2 DEF OneToOne
<1> HIDE DEF g
<1>6. i <= i - 1
  BY <1>4, <1>5, NoWayIntoFewer
<1> QED
  BY <1>6

(* In a list of one time an entry is known by its name.                    *)
KnownByName(one, two) ==
  \A i \in DOMAIN one, j \in DOMAIN two :
    one[i].name = two[j].name => one[i] = two[j]

LEMMA SortedOnce ==
  ASSUME NEW one \in Seq(Entry), NEW two \in Seq(Entry),
         IsSorted(one), IsSorted(two), IsWithin(one, two), IsWithin(two, one),
         KnownByName(one, two)
  PROVE  one = two
<1>1. /\ DOMAIN one = 1 .. Len(one) /\ DOMAIN two = 1 .. Len(two)
      /\ Len(one) \in Nat /\ Len(two) \in Nat
  OBVIOUS
<1>2. Len(one) = Len(two)
  <2>1. Len(one) <= Len(two)
    <3>1. PICK f \in [1 .. Len(one) -> 1 .. Len(two)] : OneToOne(f, 1 .. Len(one))
      BY <1>1 DEF IsWithin
    <3> QED
      BY <1>1, <3>1, NoWayIntoFewer
  <2>2. Len(two) <= Len(one)
    <3>1. PICK f \in [1 .. Len(two) -> 1 .. Len(one)] : OneToOne(f, 1 .. Len(two))
      BY <1>1 DEF IsWithin
    <3> QED
      BY <1>1, <3>1, NoWayIntoFewer
  <2>3. PICK m, n \in Nat : m = Len(one) /\ n = Len(two)
    BY <1>1
  <2> QED
    BY <2>1, <2>2, <2>3
<1>3. ASSUME NEW i \in 1 .. Len(one) PROVE one[i] = two[i]
  <2>1. i \in 1 .. Len(two)
    BY <1>2
  <2>2. Rank[two[i].name] <= Rank[one[i].name]
    BY <2>1, SortedWithin
  <2>3. Rank[one[i].name] <= Rank[two[i].name]
    BY <2>1, SortedWithin
  <2>4. /\ one[i].name \in Name /\ Rank[one[i].name] \in Nat
        /\ two[i].name \in Name /\ Rank[two[i].name] \in Nat
    BY <2>1, RankIsTyped
  <2>5. Rank[one[i].name] = Rank[two[i].name]
    BY <2>2, <2>3, <2>4
  <2>6. one[i].name = two[i].name
    BY <2>4, <2>5, ControllerAssumption
  <2> QED
    BY <1>1, <2>1, <2>6 DEF KnownByName
<1> QED
  BY <1>2, <1>3, SeqEqual

LEMMA WithinAndWithin ==
  ASSUME NEW one, NEW two, NEW three, IsWithin(one, two), IsWithin(two, three)
  PROVE  IsWithin(one, three)
<1>1. PICK f \in [DOMAIN one -> DOMAIN two] :
        /\ OneToOne(f, DOMAIN one)
        /\ \A i \in DOMAIN one : one[i] = two[f[i]]
  BY DEF IsWithin
<1>2. PICK g \in [DOMAIN two -> DOMAIN three] :
        /\ OneToOne(g, DOMAIN two)
        /\ \A i \in DOMAIN two : two[i] = three[g[i]]
  BY DEF IsWithin
<1> DEFINE h == [i \in DOMAIN one |-> g[f[i]]]
<1>3. h \in [DOMAIN one -> DOMAIN three]
  BY <1>1, <1>2
<1>4. OneToOne(h, DOMAIN one)
  BY <1>1, <1>2 DEF OneToOne
<1>5. \A i \in DOMAIN one : one[i] = three[h[i]]
  BY <1>1, <1>2
<1> HIDE DEF h
<1> QED
  BY <1>3, <1>4, <1>5 DEF IsWithin

LEMMA SortedHoldsTheSame ==
  ASSUME NEW list \in Seq(Entry), NEW sorted \in SortByName(list)
  PROVE  IsSorted(sorted) /\ IsWithin(sorted, list) /\ IsWithin(list, sorted)
<1> DEFINE n == Len(list)
<1>1. n \in Nat /\ DOMAIN list = 1 .. n
  OBVIOUS
<1> HIDE DEF n
<1>2. PICK p \in [1 .. n -> 1 .. n] :
        /\ OneToOne(p, 1 .. n)
        /\ sorted = [i \in 1 .. n |-> list[p[i]]]
        /\ \A i, j \in 1 .. n :
             i < j => Rank[sorted[i].name] <= Rank[sorted[j].name]
  BY <1>1 DEF SortByName, OneToOne
<1>3. DOMAIN sorted = 1 .. n
  BY <1>2
<1>4. IsSorted(sorted)
  BY <1>2, <1>3 DEF IsSorted
<1>5. IsWithin(sorted, list)
  BY <1>1, <1>2, <1>3 DEF IsWithin
<1>6. IsWithin(list, sorted)
  <2>1. \A k \in 1 .. n : \E i \in 1 .. n : p[i] = k
    BY <1>1, <1>2, PermutationCovers
  <2> DEFINE f == [k \in 1 .. n |-> CHOOSE i \in 1 .. n : p[i] = k]
  <2>2. \A k \in 1 .. n : f[k] \in 1 .. n /\ p[f[k]] = k
    BY <2>1
  <2>3. f \in [1 .. n -> 1 .. n]
    BY <2>2
  <2> HIDE DEF f
  <2>4. OneToOne(f, 1 .. n)
    BY <2>2 DEF OneToOne
  <2>5. \A k \in 1 .. n : list[k] = sorted[f[k]]
    BY <1>2, <2>2
  <2> QED
    BY <1>1, <1>3, <2>3, <2>4, <2>5 DEF IsWithin
<1> QED
  BY <1>4, <1>5, <1>6

-----------------------------------------------------------------------------
(* The answers that one version accounts for.                              *)
LEMMA AccountsOfOneVersion ==
  ASSUME NEW versions, NEW n, NEW asker, NEW v \in Nat
  PROVE  Accounts(versions, n, asker, v, v) =
           IF n \in Configured(versions[v])
           THEN {toUserFeature(Feature(versions[v], n), versions[v], asker)}
           ELSE {}
<1>1. v .. v = {v}
  OBVIOUS
<1>2. \A s \in {v} : s .. v = {v}
  BY <1>1
<1> QED
  BY <1>1, <1>2 DEF Accounts

LEMMA EntriesOfOneVersion ==
  ASSUME NEW versions, NEW call, NEW v \in Nat,
         NEW list \in ListsOf(versions, call, v, v), NEW i \in DOMAIN list
  PROVE  list[i] = toUserFeature(Feature(versions[v], list[i].name),
                                 versions[v], call.user)
<1> DEFINE entries == UNION {Accounts(versions, n, call.user, v, v) : n \in Name}
<1>1. PICK k : list \in [1 .. k -> entries]
  BY DEF ListsOf
<1>2. list[i] \in entries
  BY <1>1
<1>3. PICK n \in Name : list[i] \in Accounts(versions, n, call.user, v, v)
  BY <1>2
<1>4. list[i] = toUserFeature(Feature(versions[v], n), versions[v], call.user)
  BY <1>3, AccountsOfOneVersion
<1>5. list[i].name = n
  BY <1>4 DEF toUserFeature, UserFeature, Feature
<1> QED
  BY <1>4, <1>5

LEMMA AnswersOfOneVersion ==
  ASSUME NEW versions, NEW call, NEW v \in Nat,
         NEW one \in ListsOf(versions, call, v, v),
         NEW two \in ListsOf(versions, call, v, v)
  PROVE  IsWithin(one, two)
<1>1. v .. v = {v}
  OBVIOUS
<1>2. CASE Selects(call)
  <2>1. /\ {one[i].name : i \in DOMAIN one} = Selected(versions[v], call)
        /\ \A i, j \in DOMAIN one : one[i].name = one[j].name => i = j
        /\ {two[i].name : i \in DOMAIN two} = Selected(versions[v], call)
    BY <1>1, <1>2 DEF ListsOf, IsAnswer, IsSelection
  <2>2. ASSUME NEW i \in DOMAIN one
        PROVE  \E j \in DOMAIN two : two[j].name = one[i].name
    <3>1. one[i].name \in {two[j].name : j \in DOMAIN two}
      BY <2>1
    <3> QED
      BY <3>1
  <2> DEFINE f == [i \in DOMAIN one |->
                    CHOOSE j \in DOMAIN two : two[j].name = one[i].name]
  <2>3. \A i \in DOMAIN one : f[i] \in DOMAIN two /\ two[f[i]].name = one[i].name
    BY <2>2
  <2>4. f \in [DOMAIN one -> DOMAIN two]
    BY <2>3
  <2> HIDE DEF f
  <2>5. OneToOne(f, DOMAIN one)
    BY <2>1, <2>3 DEF OneToOne
  <2>6. \A i \in DOMAIN one : one[i] = two[f[i]]
    BY <2>3, EntriesOfOneVersion
  <2> QED
    BY <2>4, <2>5, <2>6 DEF IsWithin
<1>3. CASE ~Selects(call)
  <2> DEFINE Explains(answers) ==
        \A i \in DOMAIN call.names :
          IF answers[i] = Absent
          THEN \E s \in v .. v : call.names[i] \notin Configured(versions[s])
          ELSE answers[i] \in Accounts(versions, call.names[i], call.user, v, v)
  <2>1. PICK a1 : /\ a1 = [i \in DOMAIN call.names |-> a1[i]]
                  /\ one = Found(a1) /\ Explains(a1)
    BY <1>3 DEF ListsOf, IsAnswer, IsLookUp
  <2>2. PICK a2 : /\ a2 = [i \in DOMAIN call.names |-> a2[i]]
                  /\ two = Found(a2) /\ Explains(a2)
    BY <1>3 DEF ListsOf, IsAnswer, IsLookUp
  <2>3. ASSUME NEW i \in DOMAIN call.names PROVE a1[i] = a2[i]
    <3>1. CASE call.names[i] \in Configured(versions[v])
      <4>1. a1[i] # Absent /\ a2[i] # Absent
        BY <1>1, <2>1, <2>2, <3>1
      <4>2. /\ a1[i] \in Accounts(versions, call.names[i], call.user, v, v)
            /\ a2[i] \in Accounts(versions, call.names[i], call.user, v, v)
        BY <2>1, <2>2, <4>1
      <4> QED
        BY <3>1, <4>2, AccountsOfOneVersion
    <3>2. CASE call.names[i] \notin Configured(versions[v])
      <4>1. Accounts(versions, call.names[i], call.user, v, v) = {}
        BY <3>2, AccountsOfOneVersion
      <4> QED
        BY <2>1, <2>2, <4>1
    <3> QED
      BY <3>1, <3>2
  <2> HIDE DEF Explains
  <2>4. [i \in DOMAIN call.names |-> a1[i]] = [i \in DOMAIN call.names |-> a2[i]]
    BY <2>3
  <2>5. a1 = a2
    BY <2>1, <2>2, <2>4
  <2>7. one = two
    BY <2>1, <2>2, <2>5
  <2> DEFINE f == [i \in DOMAIN one |-> i]
  <2>8. /\ f \in [DOMAIN one -> DOMAIN two] /\ OneToOne(f, DOMAIN one)
        /\ \A i \in DOMAIN one : one[i] = two[f[i]]
    BY <2>7 DEF OneToOne
  <2> QED
    BY <2>8 DEF IsWithin
<1> QED
  BY <1>2, <1>3

(* The body tells two lists apart, unless somebody describes a feature in  *)
(* the words that Show has for a feature that is not there.                *)
LEMMA ConvertedTells ==
  ASSUME NEW e \in Entry, NEW f \in Entry,
         convertFeatureData(e) = convertFeatureData(f)
  PROVE  e = f
<1>1. /\ convertFeatureData(e).id = e.name
      /\ convertFeatureData(e).description = e.description
      /\ convertFeatureData(e).enabled = e.enabled
      /\ convertFeatureData(e).userEnabled = e.userEnabled
      /\ convertFeatureData(e).enablementLevel =
           IF e.enablementLevel = UnknownLevel THEN Missing ELSE e.enablementLevel
  BY DEF convertFeatureData
<1>2. /\ convertFeatureData(f).id = f.name
      /\ convertFeatureData(f).description = f.description
      /\ convertFeatureData(f).enabled = f.enabled
      /\ convertFeatureData(f).userEnabled = f.userEnabled
      /\ convertFeatureData(f).enablementLevel =
           IF f.enablementLevel = UnknownLevel THEN Missing ELSE f.enablementLevel
  BY DEF convertFeatureData
<1>3. e.enablementLevel \in LevelName /\ f.enablementLevel \in LevelName
  BY DEF Entry
<1>4. e.enablementLevel = f.enablementLevel
  BY <1>1, <1>2, <1>3, ControllerAssumption
<1> QED
  BY <1>1, <1>2, <1>4 DEF Entry

(* A sequence has one length.                                              *)
LEMMA SameDomain ==
  ASSUME NEW m \in Nat, NEW n \in Nat, 1 .. m = 1 .. n PROVE m = n
<1>1. m <= n
  <2>1. m = 0 \/ m \in 1 .. m
    OBVIOUS
  <2> QED
    BY <2>1
<1>2. n <= m
  <2>1. n = 0 \/ n \in 1 .. n
    OBVIOUS
  <2> QED
    BY <2>1
<1> QED
  BY <1>1, <1>2

LEMMA BodyTells ==
  ASSUME UnknownText \notin Description, NEW query,
         NEW one \in Seq(Entry), NEW two \in Seq(Entry),
         Body(query, one) = Body(query, two)
  PROVE  one = two
<1>1. /\ DOMAIN one = 1 .. Len(one) /\ Len(one) \in Nat
      /\ DOMAIN two = 1 .. Len(two) /\ Len(two) \in Nat
  OBVIOUS
<1> DEFINE Converted(list) == [i \in DOMAIN list |-> convertFeatureData(list[i])]
<1>2. CASE Body(query, one) = Converted(one) /\ Body(query, two) = Converted(two)
  <2>1. Converted(one) = Converted(two)
    BY <1>2
  <2>2. DOMAIN one = DOMAIN two
    <3>1. DOMAIN Converted(one) = DOMAIN one /\ DOMAIN Converted(two) = DOMAIN two
      OBVIOUS
    <3> QED
      BY <2>1, <3>1
  <2>3. Len(one) = Len(two)
    BY <1>1, <2>2, SameDomain
  <2>4. ASSUME NEW i \in 1 .. Len(one) PROVE one[i] = two[i]
    <3>1. i \in DOMAIN one /\ i \in DOMAIN two
      BY <1>1, <2>2
    <3>2. /\ Converted(one)[i] = convertFeatureData(one[i])
          /\ Converted(two)[i] = convertFeatureData(two[i])
      BY <3>1
    <3>3. one[i] \in Entry /\ two[i] \in Entry
      BY <1>1, <3>1
    <3> HIDE DEF Converted
    <3> QED
      BY <2>1, <3>2, <3>3, ConvertedTells
  <2> QED
    BY <2>3, <2>4, SeqEqual
<1>3. ASSUME NEW list \in Seq(Entry), list # << >>,
             query.feature # Missing,
             Converted(list) = <<UnknownFeature(query.feature)>>
      PROVE  FALSE
  <2>1. 1 \in DOMAIN list /\ list[1] \in Entry
    BY <1>3
  <2>2. Converted(list)[1] = convertFeatureData(list[1])
    BY <2>1
  <2>3. convertFeatureData(list[1]) = UnknownFeature(query.feature)
    BY <1>3, <2>2
  <2>4. list[1].description = UnknownText
    BY <2>3 DEF convertFeatureData, UnknownFeature
  <2> QED
    BY <2>1, <2>4 DEF Entry
<1>4. CASE one = << >> /\ two = << >>
  BY <1>4
<1> QED
  BY <1>2, <1>3, <1>4 DEF Body

(* A caller that has the present answer is told so: from one content there *)
(* is one sorted list, one body and one tag (features.go:98-100, 116).     *)
LEMMA UnchangedIsConfirmed ==
  ASSUME UnknownText \notin Description, IInv PROVE UnchangedIsNotModified
<1> SUFFICES ASSUME NEW c \in Caller, Answered(c), start[c] = Len(history),
                    cache[c][request[c].query] # Missing,
                    cache[c][request[c].query].body \in
                      Bodies(request[c].query,
                             Lists(Dispatch(request[c].query, user[c]),
                                   Len(history), Len(history)))
             PROVE  reply[c].status = NotModified
  BY DEF UnchangedIsNotModified
<1> DEFINE query == request[c].query
           call  == Dispatch(query, user[c])
           now   == Len(history)
<1>1. /\ TypeOK /\ query \in Query /\ request[c].replica \in Replica
      /\ now \in Nat \ {0} /\ history \in Seq(Version)
  BY DEF IInv, TypeOK, RequestData
<1>2. /\ request[c].ifNoneMatch = cache[c][query].tag
      /\ start[c] <= repo[request[c].replica]
  <2>1. stage[c] # "idle"
    BY DEF Answered
  <2> QED
    BY <2>1 DEF IInv, RequestInv, ProgressInv
<1>3. repo[request[c].replica] = now
  <2>1. repo[request[c].replica] \in Nat /\ repo[request[c].replica] <= now
    BY <1>1 DEF TypeOK
  <2> QED
    BY <1>1, <1>2, <2>1
<1>4. PICK kept \in Seq(Entry) :
        cache[c][query] = [tag |-> Tag(query, kept), body |-> Body(query, kept)]
  BY <1>1 DEF IInv, CacheInv
<1>5. PICK old \in ListsOf(history, call, now, now) :
        \E sorted \in SortByName(old) : cache[c][query].body = Body(query, sorted)
  BY DEF Bodies, Lists, ListsOf
<1>6. PICK oldSorted \in SortByName(old) :
        Body(query, kept) = Body(query, oldSorted)
  BY <1>4, <1>5
<1>7. PICK new \in Promised(c, user[c]) :
        \E sorted \in SortByName(new) : IsReplyTo(c, sorted)
  BY DEF IInv, RequestInv, ReplyInv
<1>8. PICK newSorted \in SortByName(new) : IsReplyTo(c, newSorted)
  BY <1>7
<1>9. new \in ListsOf(history, call, now, now)
  BY <1>1, <1>3, <1>7, PromisedNowAndThen DEF PromisedOf
<1>10. old \in Seq(Entry) /\ new \in Seq(Entry)
  <2>1. Lists(call, now, now) \subseteq Seq(Entry)
    BY <1>1, ListsAreTyped
  <2>2. Lists(call, now, now) = ListsOf(history, call, now, now)
    BY DEF Lists, ListsOf
  <2> QED
    BY <1>5, <1>9, <2>1, <2>2
<1> HIDE DEF query, call, now
<1>11. oldSorted \in Seq(Entry) /\ newSorted \in Seq(Entry)
  BY <1>10, SortedIsTyped
<1>12. /\ IsSorted(oldSorted) /\ IsSorted(newSorted)
       /\ IsWithin(oldSorted, old) /\ IsWithin(old, oldSorted)
       /\ IsWithin(newSorted, new) /\ IsWithin(new, newSorted)
  BY <1>10, SortedHoldsTheSame
<1>13. IsWithin(old, new) /\ IsWithin(new, old)
  BY <1>1, <1>5, <1>9, AnswersOfOneVersion
<1>14. IsWithin(oldSorted, newSorted)
  <2>1. IsWithin(oldSorted, new)
    BY <1>12, <1>13, WithinAndWithin
  <2> QED
    BY <1>12, <2>1, WithinAndWithin
<1>15. IsWithin(newSorted, oldSorted)
  <2>1. IsWithin(newSorted, old)
    BY <1>12, <1>13, WithinAndWithin
  <2> QED
    BY <1>12, <2>1, WithinAndWithin
<1>16. KnownByName(oldSorted, newSorted)
  <2> SUFFICES ASSUME NEW i \in DOMAIN oldSorted, NEW j \in DOMAIN newSorted,
                      oldSorted[i].name = newSorted[j].name
               PROVE  oldSorted[i] = newSorted[j]
    BY DEF KnownByName
  <2>1. PICK k \in DOMAIN old : oldSorted[i] = old[k]
    BY <1>12 DEF IsWithin
  <2>2. PICK l \in DOMAIN new : newSorted[j] = new[l]
    BY <1>12 DEF IsWithin
  <2>3. old[k] = toUserFeature(Feature(history[now], old[k].name),
                               history[now], call.user)
    BY <1>1, <1>5, EntriesOfOneVersion
  <2>4. new[l] = toUserFeature(Feature(history[now], new[l].name),
                               history[now], call.user)
    BY <1>1, <1>9, EntriesOfOneVersion
  <2> QED
    BY <2>1, <2>2, <2>3, <2>4
<1>17. oldSorted = newSorted
  BY <1>11, <1>12, <1>14, <1>15, <1>16, SortedOnce
<1>18. kept = newSorted
  BY <1>6, <1>11, <1>17, BodyTells
<1>19. request[c].ifNoneMatch = Tag(query, newSorted)
  BY <1>2, <1>4, <1>18
<1> QED
  BY <1>8, <1>19 DEF IsReplyTo, query

(* A caller that has the present answer is not sent it again, whichever    *)
(* replica gave it and in whatever order the client had the features       *)
(* (features.go:116), provided that nobody describes a feature in the      *)
(* words that Show has for a feature that is not there (features.go:195).  *)
THEOREM UnchangedAnswers ==
  UnknownText \notin Description => (Spec => []UnchangedIsNotModified)
<1> SUFFICES ASSUME UnknownText \notin Description
             PROVE  Spec => []UnchangedIsNotModified
  OBVIOUS
<1>1. IInv => UnchangedIsNotModified
  BY UnchangedIsConfirmed
<1> QED
  BY <1>1, ControllerInvariant, PTL
=============================================================================
