# A verification model of fabric8-toggles-service

The service answers one question for the other services and the UI of
openshift.io: *which features may this user see, and why?* Administrators
configure features in a toggles server (unleash); every replica of this service
keeps a copy of them through the unleash client library, asks the auth service
for the profile of the user who calls, and computes the answer from the two. Its
answers carry entity tags, so that callers can keep them.

This directory holds TLA+ modules translated from the Go code, TLC
configurations that check them on small instances, and proofs that TLAPS checks
for every value of the constants. `PROJECT.json` maps every definition to the
lines it stands for and lists the runs, mutants, hazards, findings and theorems.

## 1. Inventory

### Components, their state and their operations

| component | code | state | operations |
|---|---|---|---|
| Levels and strategies | `featuretoggles/enablement_level.go`, `enable_by_*_strategy.go` | none (a loop variable) | `ComputeEnablementLevel`, the two `IsEnabled` of the strategies, level conversions |
| Toggles client | `featuretoggles/toggles_client_wrapper.go`, `user_feature.go` | the unleash client it wraps; per call a few locals | `GetFeature`, `GetFeaturesByName`, `GetFeaturesByPattern`, `GetFeaturesByStrategy`, `isFeatureEnabled`, `toUserFeature` |
| Listener | `featuretoggles/listeners.go` | `ready`, a plain bool shared by goroutines | `OnReady` (and callbacks that only log) |
| Unleash client and server (external) | used from `NewDefaultClient` | the server's features; each replica's copy | an edit, a poll every ten seconds, the ready callback |
| Features controller | `controller/features.go`, `auth/auth_client.go` | none of its own | `List`, `Show`, `getUserProfile`, sorting, conversion |
| Conditional requests | `goasupport/conditional_request/generator.go` (the code it generates) | the tags callers keep | tag generation, `If-None-Match`, 304 |
| Error responses | `jsonapi/*.go`, `errors/errors.go` | none | `ErrorToJSONAPIError`, `JSONErrorResponse`, the `ErrorHandler` middleware |
| Token parser and start-up | `token/token_parser.go`, `main.go` | the public keys, read once | `NewParser`, `Parse`; start, panic and restart of the process |
| Status controller | `controller/status.go` | none | a constant answer |
| Configuration, API design, test support | `configuration/`, `design/`, `test/` | read-only | - |

### How they interact

A request passes the middleware (`ErrorHandler`, `Recover`, the token context)
and reaches `List` or `Show`. The handler parses the token with the keys of the
process, forwards the token to the auth service for the profile, puts one
question to the toggles client, sorts what comes back by name, hashes it into a
tag, compares the tag with `If-None-Match`, and sends either 304 or the converted
features. Meanwhile, in goroutines of the unleash library, the copy of the
features is replaced at every successful poll and the ready flag is set after the
first; neither waits for requests, and requests take no lock across their reads.
`openshift/app.yml` runs two replicas, each with a copy of its own.

### What is hard

- **Interleaving inside one answer.** One answer takes several reads of a copy
  that may be replaced between any two of them: one read to select a group, or one
  for each name of a list, and one more per feature, by name, for the user's
  enablement (`toggles_client_wrapper.go:178`).
- **The ready flag** is read and written without synchronisation, before and
  during requests; a replica that is not ready answers with empty lists that look
  like any other, and the readiness probe does not ask about it.
- **Panics in the middle** of a list: a level strategy without a level.
- **Stale answers in callers' hands**: two replicas at different versions, users
  who sign in, out or change level, a tag that decides on its own whether the
  caller may keep what it has.
- **Start-up**: keys are read once; every failure on the way is a panic or is
  swallowed; the auth service can rotate its keys at any time. The request for the
  keys has no timeout: until it is answered the port stays closed, and only the
  liveness probe ends the wait.
- **Numeric edges**: the order of levels, the internal level that counts for
  internal users only, a blank list of addresses that splits into one blank item.

### What makes each part correct

- Levels: the loop returns the highest level that may count, and that level is the
  one that decides who is let in, except for external users with an internal
  profile (section 5).
- Client: an answer can be explained by what the server said during the request;
  a group comes from one version; nothing else makes a call fail; every call ends;
  the client catches up.
- Controller with conditional requests: what a caller ends up with, sent or told
  to keep, is a present answer for the person who asked; unchanged answers are not
  sent again; errors have a cause; callers that keep asking catch up.
- Parser: tokens are judged by all the keys of the start; a process comes up if
  the auth service ends up answering.

## 2. The modules

Dependencies, `A <- B` meaning that B extends A:

```
FeatureLevels <- ComputeLevel <- MCComputeLevel
                 ComputeLevel <- ComputeLevelProofs
FeatureLevels <- FeatureAnswers <- TogglesPromise
                 FeatureAnswers <- TogglesClient <- MCTogglesClient
                                   (Promise == INSTANCE TogglesPromise WITH ...)
                 FeatureAnswers <- FeatureAnswersProofs
TogglesClient <- TogglesClientProofs
TogglesClientProofs, FeatureAnswersProofs <- TogglesPromiseProofs
FeatureAnswers, ErrorResponses <- FeaturesController <- MCFeaturesController
FeaturesController, FeatureAnswersProofs <- EntityTagProofs <- FeaturesControllerProofs
FeaturesController <- TogglesService <- MCEntityTags
                      (Client(c) == INSTANCE TogglesClient WITH ...)
TogglesService, MCFeaturesController <- MCTogglesService
TogglesService, FeaturesControllerProofs <- TogglesServiceProofs
TokenParser <- MCTokenParser
TokenParser <- TokenParserProofs
```

**FeatureLevels** (pure): level texts and their order, `FeatureLevel.IsEnabled`,
the two activation strategies, what they do with missing parameters, and the
closed form of `ComputeEnablementLevel` that the other modules use. A parameter of
the e-mail strategy is the set of its comma-separated items with their padding.

**ComputeLevel**: `ComputeEnablementLevel` as the loop it is, one action per pass
(`Start`, `Iterate`, `Finish`). It earns the closed form.

**FeatureAnswers** (pure): questions (`Call`), contents of the server (`Version`),
which features a question is after (`Selected`; `Matches` is the regular
expression `^p$|^p\..*$` with the unquoted dots of `p`), what is said of one
feature (`toUserFeature`, from the copy and from the repository as it is *now*),
and `IsAnswer`, the answers that contents `lo .. hi` account for.

**TogglesPromise** (abstract): what `featuretoggles.Client` promises to handlers.
A question is answered in one step, `Answer`, by anything that `IsAnswer` allows
from the versions since it was asked, or, when it was asked before the client was
ready, perhaps by the empty list.

**TogglesClient** (detailed): the same client as the reads it makes. `repo` is the
version of the library's copy, `ready` the listener's flag. `Invoke` is the call
of one of the four methods, `AnswerNotReady` their early return, `Select` the one
read of a group or strategy, `GetFeature` the look-up of one name,
`ToUserFeature` the conversion of one copied feature, `Panic` its failure,
`Return` the end. Between any two of them come `Edit`, `Refresh`, `OnReady` and
`Restart`. `todo`, `found` and `result` are the locals of the methods. The module
implements TogglesPromise by the mapping that hides those locals: a request is
"asked" from `Invoke` to `Return`, and its answer is visible at `Return`
(`PromiseKept`).

**ErrorResponses** (pure): from the type of an error to a status.
`JSONErrorResponse` has the switch of `jsonapi_utility.go` with its fall-through:
a status the context has no method for sends nothing.

**FeaturesController**: `List` and `Show` in several replicas, with the toggles
client of each represented by its promise. `CheckToken`, `GetUserProfile`,
`ProfileFails`, `AnswerNoQuestion`, `AskClient`, `Answer` and `Panic` are the
handler in its order; `Conditional` is the generated `ConditionalRequest` and
`ConditionalEntities`, `SortByName` the sort, `Body` the conversion. Callers
(`Send`, `Receive`, `Lose`, `SignIn`) keep the last tagged answer per question and
revalidate it every time, at either replica, for `Cache-Control` says
`max-age=0`. A caller may give up at any time (`Lose`); what the handler still
does then, it does for nobody. Profiles change (`UpdateProfile`) while requests
are under way, and the auth service may hang (`AuthHangs`): `GetUserProfile`
waits for it, without a timeout.

**TogglesService** (composition): the handlers of FeaturesController, each calling
a TogglesClient that works step by step on the copy of the replica that has the
request: `Client(c)` is an instance of TogglesClient whose `repo` and `ready` are
those of that replica. `CallClient` is `AskClient` together with the client's
`Invoke`, `ClientStep` one step of the client while the handler waits,
`AnswerResult` and `ClientPanics` take the result, or the panic, to the response;
`Restart` and `Lose` end the client's call as well (`Forget`). All other actions
are those of FeaturesController. `ControllerKept` says that the whole implements
FeaturesController, whose `Answer` takes any answer the promise allows: together
with `PromiseKept` it is what lets the controller stand on the promise, with the
calls, the users and the replicas that the handlers really pass.

**TokenParser**: the life of a process (`Start`, `NewParser`, `Crash`), the keys
the auth service publishes (`Rotate`), and `Parse`. `NewParser` keeps the code's
error paths: a body that is not JSON or a key that is not RSA is a panic in
`main`; an error status by itself is nothing. The auth service may hang
(`AuthHangs`, `AuthReturns`); a request for the keys that it takes then is stuck
(`RequestHangs`): it may be answered later or never, and `LivenessProbe`, that of
`openshift/app.yml`, kills the process, whose port is not open yet.

**MC\*** modules give the constants small values; ***Proofs** modules hold proofs.
Definitions marked "mistake" are plausible bugs (a dropped guard, a swapped order)
that each property has been shown to catch; they are not part of any `Next`.

### Abstractions

- Names and descriptions are short sequences of characters and words; the only
  special character in names is the dot. Other metacharacters of regular
  expressions in a group's name are left out.
- `ready` rises at any time after the first poll: that is when the store becomes
  visible to the reader, which covers the unsynchronised flag. As it never falls
  while the process lives, checking it and reading the repository right after can
  be one step.
- A poll that fails only logs and is no step; the library's backup file, metrics
  and registration are left out.
- A tag is the text that is hashed: distinct texts are taken to have distinct MD5
  sums. The instances of MCFeaturesController and MCTogglesService keep newlines
  out of descriptions, and bars and newlines out of names (`SeparatorAssumption`),
  because the text is joined without quoting; MCEntityTags shows what happens
  otherwise (section 5).
- FeaturesController knows of a client that was not ready only that it was not:
  the promise then allows an answer from any version so far. TogglesService has no
  such slack.
- The work of a handler whose caller has given up is not followed further: it
  changes nothing that others see.
- `sort.Sort` is not stable: entries of one name come in any order.
- A profile has `Data` and `Attributes`, as the auth service sends it: a body
  without them would make `isFeatureEnabled` panic at line 164 of
  `toggles_client_wrapper.go`, and this is not modelled.
- Published keys have different ids, by which the model names them: of two with
  one id the code would keep the last (`token_parser.go:104`).
- A killed or crashed process loses its state at once; the half minute that the
  probe takes to fail three times is not measured.
- Logging, wording of errors and layout of bodies are left out.

## 3. What TLC checks

All runs finish within five minutes with two workers. `PROJECT.json` gives one or
more mutants of the code for each property that passes.

| run | question | bounds |
|---|---|---|
| `level_loop` | Does the loop return the highest level that counts, and whom does that level let in? | every feature of up to 3 strategies out of 7, internal and external user |
| `client_answers` | Is every call of every method answered as promised, whatever comes between its reads? | 1 request at a time, 2 names, 4 settings, 7 questions of 3 users, 2 edits |
| `client_selection` | Does a group or strategy come from one version? Do all calls end, and does the client catch up? Does the invariant of the proofs hold? | 3 names (one that only an unquoted dot matches), 1 setting, 2 edits, 1 restart |
| `controller_users` | Can one user be told to keep another's answer, or an old one? | `Show`, 2 replicas, 1 edit, 1 restart, 1 sign-in or profile change, 1 failure |
| `controller_lists` | Do sorting and tags tell changed lists from unchanged ones, both ways? | a group, a list that names one feature twice, no question; 3 settings, 1 edit |
| `service` | Do controller and client fit? Do requests end, and does a caller that keeps asking end up with the present answer? | `Show`, 2 replicas with step-by-step clients, any token, 2 settings, 1 edit, 1 restart, 1 failure (lost response, failing or hanging auth service) |
| `startup` | By which keys are tokens judged, and does a process come up? | 2 RSA keys and another, 2 rotations, 2 failures, 1 crash, an auth service that hangs and returns any number of times |
| `torn_entry`, `level_missing`, `blank_address`, `tag_collision`, `keys_missing` | disagreements with the documentation, section 5 | small |

Why the bounds are enough. Requests of one replica share nothing they write, so
one at a time shows every property of a request. An entry depends on at most two
versions, so two edits give the version before, between and after. Four settings
cover the outcomes that differ: on, off, shown to some by address and level, and
panicking. Callers share nothing but the servers, so one caller with two replicas
shows what a cache can get wrong; a change of user, an edit and a restart are each
needed once for a tag to be stale in each way. The composition leaves sign-ins to
`controller_users` and lists to `controller_lists`: what it adds is the client's
reads between the handler's steps, for which one feature is enough. Processes
share nothing, so one shows all that a parser does.

### What the passing properties say

- `LoopInv`, `LoopComputesLevel`: the loop keeps, and returns, the highest level
  retained. `LevelDecides`: a user is let in by the level strategies exactly when
  the user has opted in to the level shown or to a more cautious one, or is an
  external user whose profile says `internal`, no level is shown, and some
  strategy is for internal users (`LetInUnshown`). A user level that is not in the
  list counts as no opt-in. One mutant is the other fallback, `unknown`, of which a
  comment speaks (section 5).
- `Explained`: each entry is an account of one feature that the call asked for,
  from at most two versions of the time of the request, in order.
- `SelectionIsOneVersion`: a group has each feature of one version once; only a
  request made before the client was ready may get the empty list instead.
- `FailureHasACause`: only a misconfigured feature that was asked for makes a call
  fail.
- `PromiseKept`: all of this at once, as a refinement: order and repetitions of a
  list of names, and the reason for each name that is left out, included.
- `EveryCallEnds`, `CatchesUp`: calls end; the client becomes and stays ready with
  the server's content.
- `AnswersAreCurrent`: what a caller ends up with after a 200 or a 304 is an answer
  to its question, for the person who asked, from contents of the time of the
  request. `UnchangedIsNotModified`: the converse, nothing unchanged is sent again.
- `ErrorsHaveACause`: a request is refused only for its token or by the auth
  service; with a working auth service only a misconfigured feature that was asked
  for yields a 500.
- `ControllerKept`: with step-by-step clients every response is still one that the
  promise accounts for, for the user of the request.
- `EveryRequestEnds`: every request ends, except one with a token while the auth
  service hangs; callers without a token, or with a bad one, never wait for it.
- `CallersCatchUp`: if the auth service stays up in the end, a caller that keeps
  asking ends up with, and keeps, the present answer, unless its token is bad or
  what it asks for is misconfigured.
- `JudgedByTheKeysOfTheStart`, `AllKeysOrNone`, `ProcessesServe`: tokens are judged
  by the keys published when the process started, all of them or none; a process
  comes up and stays up if the auth service ends up answering, with keys the code
  understands, even if an earlier request for them is never answered.
- The type invariants also say that no handler finishes without a response: in
  FeaturesController a request that is replied to has a declared status.

### Fairness

Weak fairness of the steps of a request and of the ready callback: goroutines
are scheduled. Weak fairness of `Refresh`: the library polls every ten seconds
and some poll succeeds. The auth service is not assumed to answer: it may hang
for ever, and the handler, which calls it with the default HTTP client without a
timeout, then waits for ever. So `EveryRequestEnds` excepts those who wait for
it, and `CallersCatchUp` has its return as a premise. `CallersCatchUp` also
needs callers that come back with every question: strong fairness of `Send`,
because a caller has one request at a time.

The request for the keys goes through the same kind of client: `ProcessesServe`
has an auth service that ends up answering as its premise, and even then a
request that is stuck need not be answered; only a new one is, while the service
answers (the fairness of `NewParser` has both as conditions). What ends a stuck
start is the liveness probe, and what follows it the restart policy (`Always`),
both of `openshift/app.yml` and both weakly fair; without the probe the property
fails (its mutant). While the auth service hangs a process is killed and started
again and again, and never serves.

Edits, restarts, sign-ins and failures have no fairness, and are bounded, so
that the system is left alone in the end.

## 4. What is proved

Every safety property of the passing runs, and both refinements, are theorems:
TLAPS proves them for any number of names, settings, strategies, edits, restarts,
requests, callers, replicas, processes and keys. The assumptions are those the
modules name, and TLC evaluates them in every run that has them:
`EmailAssumption`, `SettingsAssumption`, `FeaturesAssumption`, `ClientAssumption`,
`ControllerAssumption` and `ParserAssumption` say what the constants are;
`AbsentAssumption` keeps the mark of a name without a feature apart from the
entries; `NamesAssumption` says that the server has finitely many features, which
a list of them needs to have a length.

Two theorems have a hypothesis besides. `SeparatorsAreFree` (no name or
description holds a newline, no name a bar) is what tags need to tell answers
apart; `tag_collision` shows that without it `AnswersAreCurrent` is lost.
`UnknownText \notin Description` (nobody describes a feature with the words
"unknown feature" that `Show` has for one that is not there) is what a body needs
to determine its tag: otherwise the same body could stand for two tags, and the
caller would be sent it again. The instances of `MCFeaturesController` satisfy
both (`SeparatorAssumption`, `TextAssumption`).

- **ComputeLevelProofs**: `LoopInvariant` with `LoopTypeCorrect`,
  `LoopKeepsTheHighest` (by `OneMoreStrategy`) and `LoopIsCorrect`;
  `LevelIsDecisive`, by `HighestDecides`: whoever a strategy lets in without the
  highest retained level is external, with an internal profile. The
  closed form of `ComputeEnablementLevel` is defined without recursion so that the
  other modules can be reasoned about; the loop is proved to compute it.
- **TogglesClientProofs**: `TypeCorrect`; `Invariant`, the inductive invariant
  `IInv`; `EntriesAreExplained`, `FailuresHaveACause`, and `FallbackIsNeverTaken`,
  about the steps that convert a copy: they find the client ready.
  `Explained` is not inductive by itself: the next entry comes from a copy made
  earlier, so `IInv` says that a copy is a selected feature of a version in the
  request's window (`FoundIsSelected`), that names still to look up were asked for
  (`TodoIsAsked`), that the window is not empty (`StartIsReached`,
  `ReadyMeansLoaded`) and that a free slot is clean (`IdleIsEmpty`). Steps of
  others only extend the history and the window (`NextGrows`, `WindowGrows`), which
  keeps the part of a request (`Untouched`); its own steps are one lemma each.
- **FeatureAnswersProofs** has no specification, only lemmas about `IsAnswer`. It
  defines when an answer is *under way* (`IsUnderWay`): a selection is split,
  without overlap, between the copies that wait and the entries appended; a list of
  names is a prefix of answers, each an entry or a name that some version of the
  time lacked, and the names still to look up. Each read is a step of it
  (`AnswerSelects`, `AnswerLooksUp`, `AnswerMovesOn`, `AnswerConverts`), edits leave
  it as it is (`UnderWayStays`), and an answer that is under way with nothing left
  is an answer (`AnswerEnds`). `Found`, which drops the names without a feature, is
  a recursive function; what it does for every list is proved from the smallest
  index at which it would go wrong, for induction itself is out of reach.
- **TogglesPromiseProofs**: `SelectionsAreWhole` and the refinement
  `PromiseIsKept`, from `IInv` and the invariant that the answer of every call is
  under way (`CallInv`, `PInv`). One lemma maps each action to its counterpart in
  TogglesPromise or to a stutter.
- **EntityTagProofs**: `TagsTellAnswersApart`. A tag is read from both ends: the
  first bar ends the name, since no name holds one; the last six words of an entity
  are its last three values, each with its bar, whatever bars the description
  holds; a newline ends the entity. So equal texts have equal first entities and equal rests. The empty list
  and the feature that is not there have tags that no list has.
- **FeaturesControllerProofs**: `ControllerInvariant`, whose `IInv` says how far
  each request has come and for whom (`ProgressInv`), that a tagged response comes
  from a list the client may have answered (`ReplyInv`), why it failed
  (`ErrorInv`), and that each kept answer is the one its tag is the tag of
  (`CacheInv`). Every step is, for every request, its end, its own, or one of the
  world around it that only adds to histories (`ThreeWays`), so one lemma covers
  all interference (`GoingOnKeeps`). From it: `ControllerTypeCorrect`,
  `ErrorsAreCaused`, `CurrentAnswers` (a 304 means equal tags, so equal lists) and
  `UnchangedAnswers` (one content gives one sorted list, however the features come,
  so one body and one tag).
- **TogglesServiceProofs**: `ServiceInvariant` and the refinement
  `ServiceKeepsController`. Its `SInv` adds to the controller's `IInv` that the
  client of a request is busy exactly while the handler waits, on the handler's
  question, with an answer under way (`LocalInv`): the lemmas of
  FeatureAnswersProofs serve once more, now with a copy that the controller's
  replicas share. What the client returns is then one of the lists promised
  (`AnswerIsPromised`), and what it dies of is a feature asked for. A step of
  anybody else leaves the client waiting, idle or forgotten (`UndisturbedKeeps`). So
  the controller's safety properties hold of the service too:
  `ServiceAnswersAreCurrent`, `ServiceConfirmsAnswers`, `ServiceErrorsAreCaused`.
- **TokenParserProofs**: `ParserInvariant`, `ParserTypeCorrect`,
  `TokensAreJudgedByTheKeysOfTheStart`, `KeysAreTakenWhole`. The strengthening is
  `VerdictIsOfTheServing`: the process that gave the last verdict still serves, so
  that the keys of its start are there to compare with.

Only model-checked: the liveness properties (`EveryCallEnds`, `CatchesUp`,
`EveryRequestEnds`, `CallersCatchUp`, `ProcessesServe`), which rest on fairness and
are out of reach of the prover.

## 5. Where the code and its documentation disagree

- `torn_entry`: the user's enablement is asked of the repository after the feature
  was copied; with a refresh in between, an entry says `user-enabled: true` and
  `enabled: false`. `design/features.go:37` calls `enabled` the global switch
  prior to any strategy.
- `level_missing`: whether a user is internal counts for the level shown, but is
  not passed to `IsEnabled` (`toggles_client_wrapper.go:178`). So an external user
  whose profile says `internal` gets a feature meant for internal users,
  `user-enabled: true` without an enablement level. The comment at
  `toggles_client_wrapper.go:167` says that internal users may have such a feature
  by opting in, `enablement_level_whitebox_test.go:129` that an external user is
  *not* allowed to, and `design/features.go:43` that a missing level means that the
  feature is not accessible. A user let in by address has a feature without a level,
  too.
- `blank_address`: a blank list of addresses splits into one blank address, which
  is that of every user who has none.
- `tag_collision`: the tag joins values with bars and entities with newlines,
  unquoted (`generator.go:331`). When a feature is removed and the text that its
  group was hashed from is pasted into the description of another, the tag is the
  same, and a caller that polls after both edits gets 304 for a list that has
  changed; the comment at `generator.go:293` says that the code checks whether the
  entities changed.
- `keys_missing`: in `token_parser.go:87` the branch for an error status tests an
  error that is nil; an error in JSON is taken for an empty set of keys, and the
  process serves and refuses every token.

And one that needs no run of its own: the comment at
`toggles_client_wrapper.go:171-172` says that a level which is not in the list is
converted "with a fallback to `unknown` if needed". `FeatureLevel.IsEnabled`
(`enablement_level.go:104`) falls back to `released`, and rightly so: `unknown` is
below all levels and would let such a user in wherever a strategy has a level.
`LevelDecides` states what the code does, for every user, and does not hold with
the fallback of the comment (`LevelIsEnabled_Unknown`).

## 6. Not modelled, and why

- Status controller: a constant answer. Configuration: read-only settings. API
  design: input of a code generator, used here only as documentation. Test
  support. The goa plugin (`WriteNames`) that writes the conditional code into the
  application is a build step, a loop without state of the running system; what it
  writes is modelled.
- `Close` of the client and the end of `main`: nothing is served afterwards.
- The non-verbose branch of `ErrorHandler`: `main.go:46` always passes true.
- The fall-through of `JSONErrorResponse` (`jsonapi_utility.go:142-174`), which
  returns nil for a status that the context cannot send, is in ErrorResponses, but
  no error that `List` or `Show` can meet reaches it; `TypeOK` of
  FeaturesController shows that.
- Last-Modified and `If-Modified-Since`: no entity of this service has a date.

## 7. Plan

Done, in this order: levels and their loop; the toggles client and its invariant;
the promise and the refinement; the controller with conditional requests; start-up
and tokens; an auth service that hangs, for requests and for starts, and callers
that give up; the composition of
controller and client; colliding tags; the proofs of all safety properties and of
both refinements. Left, proofs that would say more about the parts:

1. That one caller is enough: seen from one caller, a step of another is a stutter
   or a step of the world around it, so that the runs' bound on callers is itself a
   theorem (the shared counters that bound failures must be taken apart first).
2. What ErrorResponses does with every error the code can build, as lemmas rather
   than through `TypeOK` of FeaturesController.
3. The non-temporal half of the liveness arguments: that a step of each request is
   possible whenever it has not ended, as a statement about guards.
