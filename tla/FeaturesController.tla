------------------------- MODULE FeaturesController -------------------------
(***************************************************************************)
(* FeaturesController (controller/features.go) in the replicas that        *)
(* openshift/app.yml runs, with the conditional requests generated from    *)
(* goasupport/conditional_request/generator.go, and what surrounds them:   *)
(* the toggles server, the auth service that knows the users' profiles,    *)
(* and callers that keep answers and ask whether they are still good.      *)
(*                                                                         *)
(* The toggles client of a replica is represented by what it promises      *)
(* (module TogglesPromise).  A caller has one request at a time, sent to   *)
(* either replica, and revalidates every time: Cache-Control says          *)
(* max-age=0 (configuration.go:126).                                       *)
(***************************************************************************)
EXTENDS FeatureAnswers, ErrorResponses

CONSTANTS
  Replica,     \* processes of this service
  Caller,      \* clients that ask them
  Person,      \* owners of valid tokens
  NoToken,     \* a request without a token
  BadToken,    \* an expired token, or one signed by an unknown key
  Missing,     \* a parameter, header or attribute that is not there
  Query,       \* the requests that callers make
  Profile,     \* the profiles that people have
  Rank,        \* the place of each name in the order of strings
  MaxEdits,    \* bound: edits at the toggles server
  MaxRestarts, \* bound: restarts of replicas
  MaxChanges,  \* bound: sign-ins and changes of profiles
  MaxFailures  \* bound: lost responses and failures of the auth service

Newline == "\n"
Bar     == "|"

Token == Person \union {NoToken, BadToken}

(* What tags are made of: the characters of names and descriptions, and    *)
(* the words and separators that the service adds.                         *)
TagWord == STRING \union LevelName
             \union {Bar, Newline, "true", "false", "empty"}

EntityTag == Seq(TagWord)

(* Show has a feature; List has the other parameters, all optional.        *)
AnyQuery == [feature : Name \union {Missing}, group : Name \union {Missing},
             names : Seq(Name) \union {Missing},
             strategy : StrategyName \union {Missing}]

ASSUME ControllerAssumption ==
  /\ Query \subseteq AnyQuery
  /\ Replica # {} /\ Query # {}
  /\ Profile \subseteq User
  /\ Rank \in [Name -> Nat]
  /\ \A m, n \in Name : Rank[m] = Rank[n] => m = n
  /\ NoToken \notin Person /\ BadToken \notin Person /\ NoToken # BadToken
  /\ Description \subseteq Seq(STRING)
  /\ Missing \notin EntityTag \union LevelName
  /\ {MaxEdits, MaxRestarts, MaxChanges, MaxFailures} \subseteq Nat

(* The toggles server has so many features and no more.                    *)
ASSUME NamesAssumption == IsFiniteSet(Name)

(* Values are joined with bars and entities with newlines, unquoted.  No   *)
(* two lists have the same tag if no name and no description holds a       *)
(* newline, and no name a bar.                                             *)
SeparatorsAreFree ==
  /\ \A n \in Name : \A i \in DOMAIN n : n[i] \notin {Bar, Newline}
  /\ \A d \in Description : \A i \in DOMAIN d : d[i] # Newline

-----------------------------------------------------------------------------
(* The order of look-ups in List; the first parameter that is there wins.  *)
HasCall(query) ==
  \E field \in {"feature", "group", "names", "strategy"} :
    query[field] # Missing

Ask(method, names, strategy, user) ==
  [method |-> method, names |-> names, strategy |-> strategy, user |-> user]

Dispatch(query, user) ==
  IF query.feature # Missing
  THEN Ask("GetFeature", <<query.feature>>, DefaultStrategy, user)
  ELSE IF query.group # Missing
  THEN Ask("GetFeaturesByPattern", <<query.group>>, DefaultStrategy, user)
  ELSE IF query.names # Missing
  THEN Ask("GetFeaturesByName", query.names, DefaultStrategy, user)
  ELSE Ask("GetFeaturesByStrategy", << >>, query.strategy, user)

(* sort.Sort by name.  It is not stable: entries of one name, which a list *)
(* of names with repetitions yields, come in any order.                    *)
SortByName_None(list) == {list}   \* mistake: as the client returns it

SortByName(list) ==
  {sorted \in {[i \in DOMAIN list |-> list[p[i]]] :
                 p \in {q \in [DOMAIN list -> DOMAIN list] :
                          \A i, j \in DOMAIN list : q[i] = q[j] => i = j}} :
     \A i, j \in DOMAIN list :
       i < j => Rank[sorted[i].name] <= Rank[sorted[j].name]}

(* convertFeatureData: an unknown level is left out.                       *)
convertFeatureData(entry) ==
  [id |-> entry.name, description |-> entry.description,
   enabled |-> entry.enabled, userEnabled |-> entry.userEnabled,
   enablementLevel |-> IF entry.enablementLevel = UnknownLevel
                       THEN Missing ELSE entry.enablementLevel]

UnknownText == <<"unknown feature">>

(* What a response says of one feature.                                    *)
ConvertedFeature ==
  [id : Name, description : Description \union {UnknownText},
   enabled : BOOLEAN, userEnabled : BOOLEAN,
   enablementLevel : LevelName \union {Missing}]

UnknownFeature(n) ==
  [id |-> n, description |-> UnknownText, enabled |-> FALSE,
   userEnabled |-> FALSE, enablementLevel |-> Missing]

(* convertFeatures of a list; convertFeature of what Show found, if any.   *)
Body(query, list) ==
  IF query.feature # Missing /\ list = << >>
  THEN <<UnknownFeature(query.feature)>>
  ELSE [i \in DOMAIN list |-> convertFeatureData(list[i])]

-----------------------------------------------------------------------------
(* Entity tags.  A tag is the text that is hashed: two texts are taken to  *)
(* have different MD5 sums.                                                *)
FormatBool(b) == IF b THEN <<"true">> ELSE <<"false">>

generateETagValue_NoUser(entry) ==   \* mistake: not the user's enablement
  entry.name \o <<Bar>> \o entry.description \o <<Bar>>
    \o FormatBool(entry.enabled) \o <<Bar>> \o <<entry.enablementLevel>>

generateETagValue(entry) ==
  entry.name \o <<Bar>> \o entry.description \o <<Bar>>
    \o FormatBool(entry.enabled) \o <<Bar>> \o <<entry.enablementLevel>>
    \o <<Bar>> \o FormatBool(entry.userEnabled)

ZeroTag == <<Bar, Bar, "false", Bar, Bar, "false">>

GenerateEmptyTag == <<"empty">>

GenerateEntitiesTag(list) ==
  LET tag[i \in 1 .. Len(list)] ==
        IF i = 1 THEN generateETagValue(list[1])
                 ELSE tag[i - 1] \o <<Newline>> \o generateETagValue(list[i])
  IN  tag[Len(list)]

Tag(query, list) ==
  IF list # << >> THEN GenerateEntitiesTag(list)
  ELSE IF query.feature # Missing THEN ZeroTag
  ELSE GenerateEmptyTag

-----------------------------------------------------------------------------
VARIABLES
  history,   \* toggles server: every content so far
  repo,      \* per replica: the version it holds, 0 if none
  ready,     \* per replica: UnleashClientListener.ready
  profiles,  \* auth service: everybody's profile, every state so far
  answering, \* auth service: it answers, FALSE while it hangs
  token,     \* per caller: whom it is signed in as
  cache,     \* per caller and query: the last tagged answer, or Missing
  stage,     \* per caller: how far its request has come
  request,   \* per caller: the request
  user,      \* per caller: the profile the handler works with
  start,     \* per caller: repo when the client was asked, 0 if not ready
  reply,     \* per caller: the response
  spent      \* how often each bounded thing has happened

serverVars == <<history, repo, ready>>
callerVars == <<profiles, answering, token, cache>>
handlerVars == <<stage, request, user, start, reply>>
vars == <<serverVars, callerVars, handlerVars, spent>>

Stage == {"idle", "sent", "profile", "checked", "asked", "replied"}

NoReply == [status |-> Nothing, tag |-> Missing, body |-> << >>]
NoRequest(t) ==
  [replica |-> CHOOSE p \in Replica : TRUE, query |-> CHOOSE q \in Query : TRUE,
   token |-> t, ifNoneMatch |-> Missing, since |-> 1]

RequestData ==
  [replica : Replica, query : Query, token : Token,
   ifNoneMatch : EntityTag \union {Missing}, since : Nat \ {0}]

Kept == [tag : EntityTag, body : Seq(ConvertedFeature)]

TypeOK ==
  /\ history \in Seq(Version) /\ history # << >>
  /\ repo \in [Replica -> Nat]
  /\ \A p \in Replica : repo[p] <= Len(history)
  /\ ready \in [Replica -> BOOLEAN]
  /\ profiles \in Seq([Person -> Profile]) /\ profiles # << >>
  /\ answering \in BOOLEAN
  /\ token \in [Caller -> Token]
  /\ cache \in [Caller -> [Query -> Kept \union {Missing}]]
  /\ stage \in [Caller -> Stage]
  /\ request \in [Caller -> RequestData]
  /\ user \in [Caller -> Profile \union {Anonymous}]
  /\ start \in [Caller -> Nat]
  /\ reply \in [Caller -> [status : FeaturesResponses \union {Nothing},
                           tag : EntityTag \union {Missing},
                           body : Seq(ConvertedFeature)]]
  /\ \A c \in Caller :
       /\ request[c].since <= Len(profiles)
       /\ reply[c].status # Nothing <=> stage[c] = "replied"
  /\ spent \in [edits : Nat, restarts : Nat, changes : Nat, failures : Nat]

Init ==
  /\ history \in {<<version>> : version \in Version}
  /\ repo = [p \in Replica |-> 0]
  /\ ready = [p \in Replica |-> FALSE]
  /\ profiles \in {<<all>> : all \in [Person -> Profile]}
  /\ answering = TRUE
  /\ token \in [Caller -> Token]
  /\ cache = [c \in Caller |-> [q \in Query |-> Missing]]
  /\ stage = [c \in Caller |-> "idle"]
  /\ request = [c \in Caller |-> NoRequest(NoToken)]
  /\ user = [c \in Caller |-> Anonymous]
  /\ start = [c \in Caller |-> 0]
  /\ reply = [c \in Caller |-> NoReply]
  /\ spent = [edits |-> 0, restarts |-> 0, changes |-> 0, failures |-> 0]

-----------------------------------------------------------------------------
(* The surroundings of a handler.                                          *)

Edit(n, setting) ==
  /\ spent.edits < MaxEdits
  /\ history[Len(history)][n] # setting
  /\ history' =
       Append(history, [history[Len(history)] EXCEPT ![n] = setting])
  /\ spent' = [spent EXCEPT !.edits = @ + 1]
  /\ UNCHANGED <<repo, ready, callerVars, handlerVars>>

Refresh(p) ==
  /\ repo[p] < Len(history)
  /\ repo' = [repo EXCEPT ![p] = Len(history)]
  /\ UNCHANGED <<history, ready, callerVars, handlerVars, spent>>

OnReady(p) ==
  /\ repo[p] > 0
  /\ ~ready[p]
  /\ ready' = [ready EXCEPT ![p] = TRUE]
  /\ UNCHANGED <<history, repo, callerVars, handlerVars, spent>>

(* A replica dies and starts again.  Its requests break off.               *)
BreakOff(callers) ==
  /\ stage' = [c \in Caller |-> IF c \in callers THEN "idle" ELSE stage[c]]
  /\ request' = [c \in Caller |->
       IF c \in callers THEN NoRequest(NoToken) ELSE request[c]]
  /\ user' = [c \in Caller |-> IF c \in callers THEN Anonymous ELSE user[c]]
  /\ start' = [c \in Caller |-> IF c \in callers THEN 0 ELSE start[c]]
  /\ reply' = [c \in Caller |-> IF c \in callers THEN NoReply ELSE reply[c]]

Restart(p) ==
  /\ spent.restarts < MaxRestarts
  /\ repo' = [repo EXCEPT ![p] = 0]
  /\ ready' = [ready EXCEPT ![p] = FALSE]
  /\ BreakOff({c \in Caller : stage[c] # "idle" /\ request[c].replica = p})
  /\ spent' = [spent EXCEPT !.restarts = @ + 1]
  /\ UNCHANGED <<history, callerVars>>

(* A caller signs in or out, or its token expires, whatever it has sent.   *)
SignIn(c, t) ==
  /\ spent.changes < MaxChanges
  /\ t # token[c]
  /\ token' = [token EXCEPT ![c] = t]
  /\ spent' = [spent EXCEPT !.changes = @ + 1]
  /\ UNCHANGED <<serverVars, profiles, answering, cache, handlerVars>>

(* Somebody opts in to another level, or verifies an address.              *)
UpdateProfile(person, profile) ==
  /\ spent.changes < MaxChanges
  /\ profile # profiles[Len(profiles)][person]
  /\ profiles' = Append(profiles,
                        [profiles[Len(profiles)] EXCEPT ![person] = profile])
  /\ spent' = [spent EXCEPT !.changes = @ + 1]
  /\ UNCHANGED <<serverVars, answering, token, cache, handlerVars>>

(* The auth service hangs: it takes requests and does not answer them.     *)
AuthHangs ==
  /\ answering
  /\ spent.failures < MaxFailures
  /\ answering' = FALSE
  /\ spent' = [spent EXCEPT !.failures = @ + 1]
  /\ UNCHANGED <<serverVars, profiles, token, cache, handlerVars>>

AuthRecovers ==
  /\ ~answering
  /\ answering' = TRUE
  /\ UNCHANGED <<serverVars, profiles, token, cache, handlerVars, spent>>

(* A caller asks, with the tag of the answer it keeps for that question.   *)
Send(c, p, q) ==
  /\ stage[c] = "idle"
  /\ stage' = [stage EXCEPT ![c] = "sent"]
  /\ request' = [request EXCEPT ![c] =
       [replica |-> p, query |-> q, token |-> token[c],
        ifNoneMatch |-> IF cache[c][q] = Missing THEN Missing
                                                 ELSE cache[c][q].tag,
        since |-> Len(profiles)]]
  /\ UNCHANGED <<serverVars, callerVars, user, start, reply, spent>>

(* The response arrives.  The caller keeps it if it has a tag, and drops   *)
(* what it has if the answer has none.                                     *)
Receive(c) ==
  /\ stage[c] = "replied"
  /\ cache' =
       IF reply[c].status = OK
       THEN [cache EXCEPT ![c][request[c].query] =
               IF reply[c].tag = Missing THEN Missing
               ELSE [tag |-> reply[c].tag, body |-> reply[c].body]]
       ELSE cache
  /\ BreakOff({c})
  /\ UNCHANGED <<serverVars, profiles, answering, token, spent>>

(* The response is lost, or the caller gives up waiting for it.  What the  *)
(* handler still does then, it does for nobody.                            *)
Lose(c) ==
  /\ stage[c] # "idle"
  /\ spent.failures < MaxFailures
  /\ BreakOff({c})
  /\ spent' = [spent EXCEPT !.failures = @ + 1]
  /\ UNCHANGED <<serverVars, callerVars>>

-----------------------------------------------------------------------------
(* The handler.  List and Show do the same but for the question they ask   *)
(* and the form of the answer.                                             *)

Reply(c, status, tag, body) ==
  /\ stage' = [stage EXCEPT ![c] = "replied"]
  /\ reply' = [reply EXCEPT ![c] =
                 [status |-> status, tag |-> tag, body |-> body]]

ReplyError(c, err) ==
  Reply(c, JSONErrorResponse(FeaturesResponses, err), Missing, << >>)

(* The token, if there is one, must parse.                                 *)
CheckToken_Required(c) ==   \* mistake: a token is required
  /\ stage[c] = "sent"
  /\ IF request[c].token \in {BadToken, NoToken}
     THEN ReplyError(c, NewUnauthorizedError)
     ELSE stage' = [stage EXCEPT ![c] = "profile"] /\ UNCHANGED reply
  /\ UNCHANGED <<serverVars, callerVars, request, user, start, spent>>

CheckToken(c) ==
  /\ stage[c] = "sent"
  /\ CASE request[c].token = BadToken ->
            ReplyError(c, NewUnauthorizedError)
       [] request[c].token = NoToken ->
            stage' = [stage EXCEPT ![c] = "checked"] /\ UNCHANGED reply
       [] OTHER ->
            stage' = [stage EXCEPT ![c] = "profile"] /\ UNCHANGED reply
  /\ UNCHANGED <<serverVars, callerVars, request, user, start, spent>>

(* The token is forwarded to the auth service, which answers with the      *)
(* profile of its owner as it is now.  The HTTP client has no timeout: as  *)
(* long as the service hangs, the handler waits.                           *)
ForwardedProfile(t) == profiles[Len(profiles)][t]

GetUserProfile(c) ==
  /\ stage[c] = "profile"
  /\ answering
  /\ stage' = [stage EXCEPT ![c] = "checked"]
  /\ user' = [user EXCEPT ![c] = ForwardedProfile(request[c].token)]
  /\ UNCHANGED <<serverVars, callerVars, request, start, reply, spent>>

(* It refuses the token, or fails in some other way: no answer as if the   *)
(* user were nobody.                                                       *)
ProfileFails(c, err) ==
  /\ stage[c] = "profile"
  /\ spent.failures < MaxFailures
  /\ ReplyError(c, err)
  /\ spent' = [spent EXCEPT !.failures = @ + 1]
  /\ UNCHANGED <<serverVars, callerVars, request, user, start>>

(* No parameter, no question: the empty list, without a tag.               *)
AnswerNoQuestion(c) ==
  /\ stage[c] = "checked"
  /\ ~HasCall(request[c].query)
  /\ Reply(c, OK, Missing, << >>)
  /\ UNCHANGED <<serverVars, callerVars, request, user, start, spent>>

AskClient(c) ==
  /\ stage[c] = "checked"
  /\ HasCall(request[c].query)
  /\ stage' = [stage EXCEPT ![c] = "asked"]
  /\ start' = [start EXCEPT ![c] =
       IF ready[request[c].replica] THEN repo[request[c].replica] ELSE 0]
  /\ UNCHANGED <<serverVars, callerVars, request, user, reply, spent>>

(* What the toggles client may answer a call between two versions, and     *)
(* what it may answer a request: module TogglesPromise.                    *)
Lists(call, lo, hi) ==
  LET entries == UNION {Accounts(history, n, call.user, lo, hi) : n \in Name}
      size    == IF Selects(call) THEN Cardinality(Name) ELSE Len(call.names)
  IN  {list \in UNION {[1 .. k -> entries] : k \in 0 .. size} :
         IsAnswer(list, history, call, lo, hi)}

Since(c) == IF start[c] = 0 THEN 1 ELSE start[c]

Promised(c, asker) ==
  (IF start[c] = 0 THEN {<< >>} ELSE {})
    \union Lists(Dispatch(request[c].query, asker),
                 Since(c), repo[request[c].replica])

(* ConditionalRequest and ConditionalEntities: the tag is set, then        *)
(* compared with If-None-Match.                                            *)
Conditional_Found(c, list) ==   \* mistake: any If-None-Match will do
  LET query == request[c].query
      tag   == Tag(query, list)
  IN  IF request[c].ifNoneMatch # Missing
      THEN Reply(c, NotModified, tag, << >>)
      ELSE Reply(c, OK, tag, Body(query, list))

Conditional(c, list) ==
  LET query == request[c].query
      tag   == Tag(query, list)
  IN  IF request[c].ifNoneMatch = tag
      THEN Reply(c, NotModified, tag, << >>)
      ELSE Reply(c, OK, tag, Body(query, list))

(* Sorted, compared, converted and sent.                                   *)
AnswerWith(c, list) ==
  /\ stage[c] = "asked"
  /\ \E sorted \in SortByName(list) : Conditional(c, sorted)
  /\ UNCHANGED <<serverVars, callerVars, request, user, start, spent>>

Answer(c) ==
  /\ stage[c] = "asked"
  /\ \E list \in Promised(c, user[c]) : AnswerWith(c, list)

(* The client panics, Recover makes an error of it.                        *)
PanicReply(c) ==
  /\ stage[c] = "asked"
  /\ Reply(c, Recovered, Missing, << >>)
  /\ UNCHANGED <<serverVars, callerVars, request, user, start, spent>>

Panic_Any(c) ==   \* mistake: all features are asked for
  /\ stage[c] = "asked"
  /\ \E e \in Since(c) .. repo[request[c].replica] :
       \E n \in Name : Panics(history[e], n, user[c])
  /\ PanicReply(c)

Panic(c) ==
  /\ stage[c] = "asked"
  /\ \E s, e \in Since(c) .. repo[request[c].replica] :
       \E n \in Selected(history[s], Dispatch(request[c].query, user[c])) :
         s <= e /\ Panics(history[e], n, user[c])
  /\ PanicReply(c)

(* The steps of a handler before it turns to the toggles client.           *)
Prepare(c) ==
  \/ CheckToken(c)
  \/ GetUserProfile(c)
  \/ \E err \in {NewUnauthorizedError, PlainError} : ProfileFails(c, err)
  \/ AnswerNoQuestion(c)

Step(c) == Prepare(c) \/ AskClient(c) \/ Answer(c) \/ Panic(c)

(* What happens outside of the handlers, and breaks no request off.        *)
Surroundings ==
  \/ \E n \in Name, setting \in Settings \union {Absent} : Edit(n, setting)
  \/ \E p \in Replica : Refresh(p) \/ OnReady(p)
  \/ \E person \in Person, profile \in Profile :
       UpdateProfile(person, profile)
  \/ AuthHangs
  \/ AuthRecovers
  \/ \E c \in Caller :
       \/ \E t \in Token : SignIn(c, t)
       \/ \E p \in Replica, q \in Query : Send(c, p, q)
       \/ Receive(c)

Next ==
  \/ Surroundings
  \/ \E p \in Replica : Restart(p)
  \/ \E c \in Caller : Step(c) \/ Lose(c)

(* Goroutines are scheduled, polls succeed now and then, and callers come  *)
(* back with every question.  The auth service may hang for ever.          *)
Fairness ==
  /\ \A p \in Replica : WF_vars(Refresh(p)) /\ WF_vars(OnReady(p))
  /\ \A c \in Caller : WF_vars(Step(c)) /\ WF_vars(Receive(c))
  /\ \A c \in Caller, q \in Query : SF_vars(\E p \in Replica : Send(c, p, q))

Spec == Init /\ [][Next]_vars /\ Fairness

-----------------------------------------------------------------------------
(* Whom a request may be answered as: nobody without a token, else the     *)
(* owner of the token, with a profile of the time of the request.          *)
Askers(c) ==
  LET t == request[c].token
  IN  IF t = NoToken  THEN {Anonymous}
      ELSE IF t = BadToken THEN {}
      ELSE {profiles[k][t] : k \in request[c].since .. Len(profiles)}

Answered(c) == stage[c] = "replied" /\ reply[c].tag # Missing

(* What the caller has in its hands after the response.                    *)
Shown(c) == IF reply[c].status = NotModified
            THEN cache[c][request[c].query].body ELSE reply[c].body

Bodies(query, lists) ==
  {Body(query, sorted) : sorted \in UNION {SortByName(list) : list \in lists}}

(* Whatever the caller ends up with, sent or told to keep, is an answer to *)
(* its question, for the person who asked and no one else, from contents   *)
(* that the replica had at the time.  A 304 is never given for an answer   *)
(* to another user, or one that is out of date at this replica             *)
(* (generator.go:248-279, features.go:98-121).                             *)
AnswersAreCurrent ==
  \A c \in Caller :
    Answered(c) =>
      /\ reply[c].status = NotModified =>
           cache[c][request[c].query] # Missing
      /\ \E asker \in Askers(c) :
           Shown(c) \in Bodies(request[c].query, Promised(c, asker))

(* When nothing has changed, nothing is sent again: a caller that has the  *)
(* present answer, from whichever replica, is told that it is not modified *)
(* (features.go:116, "so that ETag comparison works").                     *)
UnchangedIsNotModified ==
  \A c \in Caller :
    LET query == request[c].query
        now   == Len(history)
    IN  /\ Answered(c)
        /\ start[c] = now
        /\ cache[c][query] # Missing
        /\ cache[c][query].body \in
             Bodies(query, Lists(Dispatch(query, user[c]), now, now))
        => reply[c].status = NotModified

(* A request fails for a reason.  Without a token it is never refused; it  *)
(* is refused only for a bad token or by the auth service; and while the   *)
(* auth service works it is only a level strategy without a level, of a    *)
(* feature that was asked for, that makes it fail (features.go:86-93).     *)
ErrorsHaveACause ==
  \A c \in Caller :
    /\ reply[c].status = Unauthorized =>
         \/ request[c].token = BadToken
         \/ request[c].token # NoToken /\ spent.failures > 0
    /\ reply[c].status = InternalServerError /\ spent.failures = 0 =>
         \E s, e \in Since(c) .. repo[request[c].replica] :
           \E n \in Selected(history[s], Dispatch(request[c].query, user[c]))
                     \cap Configured(history[e]) :
             Misconfigured(history[e][n])

-----------------------------------------------------------------------------
(* Every request comes to an end, unless it waits for an auth service that *)
(* hangs (features.go:157, through the HTTP client of line 43).  Nobody    *)
(* else waits for it: not those who have no token, nor those whose token   *)
(* is refused.                                                             *)
EveryRequestEnds ==
  \A c \in Caller :
    stage[c] # "idle" ~>
      \/ stage[c] = "idle"
      \/ stage[c] = "profile" /\ request[c].token \in Person /\ ~answering

(* A caller that keeps asking ends up with the present answer, whatever    *)
(* edits, restarts, lost responses and failures there were, and keeps it:  *)
(* no 304 holds it to an old one.  The auth service must come back, and    *)
(* the token and what is asked for must be such that there is an answer.   *)
(* (The run has no sign-ins; what they do to tags is AnswersAreCurrent.)   *)
Now == Len(history)

Asker(c) == IF token[c] = NoToken THEN Anonymous
            ELSE profiles[Len(profiles)][token[c]]

HasAnswer(c, q) ==
  /\ token[c] # BadToken
  /\ HasCall(q)
  /\ \A n \in Selected(history[Now], Dispatch(q, Asker(c))) :
       ~Panics(history[Now], n, Asker(c))

IsUpToDate(c, q) ==
  /\ cache[c][q] # Missing
  /\ cache[c][q].body \in Bodies(q, Lists(Dispatch(q, Asker(c)), Now, Now))

CallersCatchUp ==
  <>[]answering => \A c \in Caller : \A q \in Query :
    <>[](HasAnswer(c, q) => IsUpToDate(c, q))
=============================================================================
