------------------------------- MODULE Routes -------------------------------
(***************************************************************************)
(* How a page of the app reaches a service. A page writes an HTTP-shaped   *)
(* call; a table of the renderer (app/lib/ipc-routes.ts) turns it into a   *)
(* channel and a payload; the registry of the main process                 *)
(* (desktop/ipc/{read,action}/*.ts) says what each channel accepts and     *)
(* where each key goes, and the dispatcher rebuilds the request from it.   *)
(* The two tables and the pages are written independently of each other.   *)
(*                                                                         *)
(* A value is its type and what it is; a text a person typed is named by   *)
(* the field it was typed in; the ids are 5 and 6. The "/api" every path   *)
(* starts with is left out, and so is the "aphub:" of a channel.           *)
(***************************************************************************)
EXTENDS Naturals, Sequences, FiniteSets, FiniteSetsExt, TLC

VARIABLE asked    \* the call of a page that is looked at

Val(type, is) == [type |-> type, is |-> is]
Undefined == Val("undefined", "undefined")
Null == Val("null", "null")
Txt(is) == Val("string", is)
Flag(b) == Val("boolean", IF b THEN "true" ELSE "false")
Ref == Val("object", "transactionId")
Numerals == {"5", "6"}
Number(text) == Val("number", IF text \in Numerals THEN text ELSE "NaN")
Empty == [k \in {} |-> ""]
All(keys, v) == [k \in keys |-> v]

\* the segments the templates write with a colon
Params == {"id", "proposalId", "documentId", "notificationId", "connectionId", "replyId",
           "draftId", "statementId", "lineId", "taxMappingId", "mappingId", "jobId", "backupId"}

-----------------------------------------------------------------------------
(* The table of the renderer. *)

Route(method, path, channel, query) ==
  [method |-> method, path |-> path, channel |-> channel, query |-> query]
Get(path, channel) == Route("GET", path, channel, Empty)
GetBy(path, channel, query) == Route("GET", path, channel, query)
Post(path, channel) == Route("POST", path, channel, Empty)

\* a table that takes a message id as it stands in the query string
ReplyDraftReadAsText ==
  <<GetBy(<<"reply-drafts">>, "reply-drafts:get", "messageId" :> "string")>>
ReplyDraftRead ==
  <<GetBy(<<"reply-drafts">>, "reply-drafts:get", "messageId" :> "number")>>

PageReads ==
  <<Get(<<"today">>, "today:get"),
    GetBy(<<"transactions">>, "transactions:list", "status" :> "string"),
    Get(<<"transactions", "id">>, "transactions:get"),
    GetBy(<<"exceptions">>, "exceptions:list", "status" :> "string"),
    Get(<<"exceptions", "id">>, "exceptions:get"),
    Get(<<"items", "id", "evidence">>, "evidence:get"),
    GetBy(<<"audit">>, "audit:list", All({"action", "entity"}, "string")),
    GetBy(<<"notifications">>, "notifications:list", "unreadOnly" :> "boolean"),
    Get(<<"me">>, "me:get"),
    Get(<<"accounting-documents", "review">>, "accounting-documents:review"),
    GetBy(<<"statements">>, "statements:list", "status" :> "string"),
    Get(<<"statements", "id">>, "statements:get")>>

SettingsReads ==
  <<Get(<<"provider-capabilities">>, "provider-capabilities:list"),
    Get(<<"provider-jobs">>, "provider-jobs:list"),
    GetBy(<<"dimension-mappings">>, "dimension-mappings:list",
          ("connectionId" :> "number") @@
          All({"dimensionType", "reviewStatus", "resolutionState", "provider"}, "string"))>>

\* a table that names one mapping before it names the discovery of codes
TaxReadsIdFirst ==
  <<GetBy(<<"tax-mappings">>, "tax-mappings:list",
          ("connectionId" :> "number") @@ All({"filter", "provider"}, "string")),
    Get(<<"tax-mappings", "id">>, "tax-mappings:get"),
    GetBy(<<"tax-mappings", "discover">>, "tax-mappings:discover", "code" :> "string"),
    Get(<<"tax-mappings", "id", "audit">>, "tax-mappings:audit")>>
TaxReads ==
  <<GetBy(<<"tax-mappings">>, "tax-mappings:list",
          ("connectionId" :> "number") @@ All({"filter", "provider"}, "string")),
    GetBy(<<"tax-mappings", "discover">>, "tax-mappings:discover", "code" :> "string"),
    Get(<<"tax-mappings", "id">>, "tax-mappings:get"),
    Get(<<"tax-mappings", "id", "audit">>, "tax-mappings:audit")>>

SetupReads ==
  <<Get(<<"onboarding">>, "onboarding:get"),
    Get(<<"connections", "status">>, "connections:status"),
    Get(<<"backup", "list">>, "backup:list")>>

ActionRoutes ==
  <<Post(<<"proposals", "proposalId", "approve">>, "proposals:approve"),
    Post(<<"proposals", "proposalId", "reject">>, "proposals:reject"),
    Post(<<"proposals", "proposalId", "retry">>, "proposals:retry"),
    Post(<<"corrections", "learn">>, "corrections:learn"),
    Post(<<"mappings", "remap">>, "mappings:remap"),
    Post(<<"accounting-documents", "documentId", "classify">>, "accounting-documents:classify"),
    Post(<<"notifications", "notificationId", "read">>, "notifications:read"),
    Post(<<"onboarding", "step">>, "onboarding:step"),
    Post(<<"onboarding", "dry-run">>, "onboarding:dry-run"),
    Post(<<"provider-connections", "connectionId", "write-gate">>,
         "provider-connections:write-gate"),
    Post(<<"replies", "replyId", "send">>, "replies:send"),
    Post(<<"reply-drafts">>, "reply-drafts:create"),
    Route("PATCH", <<"reply-drafts", "draftId">>, "reply-drafts:update", Empty),
    Route("DELETE", <<"reply-drafts", "draftId">>, "reply-drafts:discard", Empty),
    Post(<<"statements", "statementId", "correct">>, "statements:correct"),
    Post(<<"statements", "statementId", "file">>, "statements:file"),
    Post(<<"statements", "statementId", "lines", "lineId", "match">>, "statements:match-line"),
    Post(<<"statements", "statementId", "lines", "lineId", "exclude">>, "statements:exclude-line")>>

SettingsRoutes ==
  <<Post(<<"tax-mappings">>, "tax-mappings:create"),
    Post(<<"tax-mappings", "taxMappingId", "edit">>, "tax-mappings:edit"),
    Post(<<"tax-mappings", "taxMappingId", "disable">>, "tax-mappings:disable"),
    Post(<<"tax-mappings", "taxMappingId", "replace">>, "tax-mappings:replace"),
    Post(<<"tax-mappings", "taxMappingId", "revalidate">>, "tax-mappings:revalidate"),
    Post(<<"dimension-mappings", "mappingId", "accept">>, "dimension-mappings:accept"),
    Post(<<"dimension-mappings", "mappingId", "correct">>, "dimension-mappings:correct"),
    Post(<<"dimension-mappings", "mappingId", "reject">>, "dimension-mappings:reject"),
    Post(<<"dimension-mappings", "mappingId", "save-rule">>, "dimension-mappings:save-rule"),
    Post(<<"dimension-mappings", "mappingId", "select-alternate">>,
         "dimension-mappings:select-alternate"),
    Post(<<"provider-jobs", "jobId", "retry">>, "provider-jobs:retry"),
    Post(<<"connections", "start">>, "connections:start"),
    Post(<<"backup", "create">>, "backup:create"),
    Post(<<"backup", "restore-external">>, "backup:restore-external"),
    Post(<<"backup", "backupId", "restore">>, "backup:restore"),
    Post(<<"backup", "backupId", "export">>, "backup:export"),
    Post(<<"backup", "repair">>, "backup:repair")>>

AllRoutes == PageReads \o ReplyDraftRead \o SettingsReads \o TaxReads \o SetupReads
               \o ActionRoutes \o SettingsRoutes

Matches(path, template) ==
  /\ Len(path) = Len(template)
  /\ \A i \in DOMAIN path : template[i] \in Params \/ template[i] = path[i]

Coerce(text, type) ==
  CASE type = "number" -> Number(text)
    [] type = "boolean" -> Flag(text = "true")
    [] OTHER -> Txt(text)

Matching(call) == {i \in DOMAIN AllRoutes : /\ AllRoutes[i].method = call.method
                                            /\ Matches(call.path, AllRoutes[i].path)}
\* what a template names in a path, the query keys the route declares, and the body,
\* each over the one before
Payload(route, call) ==
  LET captured == {i \in DOMAIN route.path : route.path[i] \in Params}
      known    == DOMAIN route.query \cap DOMAIN call.query
  IN call.body @@ [k \in known |-> Coerce(call.query[k], route.query[k])]
       @@ [k \in {route.path[i] : i \in captured} |->
             Number(call.path[CHOOSE i \in captured : route.path[i] = k])]
Resolve(call) ==
  LET route == AllRoutes[Min(Matching(call))]
  IN [channel |-> route.channel, payload |-> Payload(route, call)]

-----------------------------------------------------------------------------
(* The registry. A schema is strict: `need` and `may` are all its keys. *)

Kind(types, but, only) == [types |-> types, but |-> but, only |-> only]
Id == Kind({"number"}, {"NaN"}, {})
Text == Kind({"string"}, {""}, {})
AnyText == Kind({"string"}, {}, {})
TextOrNull == Kind({"string", "null"}, {""}, {})
Clearable == Kind({"string", "null"}, {}, {})
Bool == Kind({"boolean"}, {}, {})
Object == Kind({"object"}, {}, {"transactionId"})
OneOf(words) == Kind({"string"}, {}, words)

Entry(channel, method, path, query, body, need, may) ==
  [channel |-> channel, method |-> method, path |-> path, query |-> query, body |-> body,
   need |-> need, may |-> may, some |-> {}]
Ask(channel, path, need) == Entry(channel, "GET", path, {}, {}, need, Empty)
AskBy(channel, path, query, may) == Entry(channel, "GET", path, query, {}, Empty, may)
Do(channel, path, body, need, may) == Entry(channel, "POST", path, {}, body, need, may)
ids(keys) == All(keys, Id)

UxStatuses == {"prepared", "held", "posted", "reconciled", "rejected", "exception"}

AccountingDocumentReads ==
  {Ask("accounting-documents:review", <<"accounting-documents", "review">>, Empty)}
AuditReads == {AskBy("audit:list", <<"audit">>, {"action", "entity"}, All({"action", "entity"}, Text))}
BackupReads == {Ask("backup:list", <<"backup", "list">>, Empty)}
ConnectionReads == {Ask("connections:status", <<"connections", "status">>, Empty)}
DimensionReads ==
  {AskBy("dimension-mappings:list", <<"dimension-mappings">>,
         {"connectionId", "dimensionType", "reviewStatus", "resolutionState", "provider"},
         ids({"connectionId"}) @@
         All({"dimensionType", "reviewStatus", "resolutionState", "provider"}, Text))}
EvidenceReads == {Ask("evidence:get", <<"items", "id", "evidence">>, ids({"id"}))}
ExceptionReads ==
  {AskBy("exceptions:list", <<"exceptions">>, {"status"}, "status" :> Text),
   Ask("exceptions:get", <<"exceptions", "id">>, ids({"id"}))}
MeReads == {Ask("me:get", <<"me">>, Empty)}
NotificationReads ==
  {AskBy("notifications:list", <<"notifications">>, {"unreadOnly"}, "unreadOnly" :> Bool)}
OnboardingReads == {Ask("onboarding:get", <<"onboarding">>, Empty)}
CapabilityReads == {Ask("provider-capabilities:list", <<"provider-capabilities">>, Empty)}
ProviderJobReads == {Ask("provider-jobs:list", <<"provider-jobs">>, Empty)}
ReplyDraftReads ==
  {Entry("reply-drafts:get", "GET", <<"reply-drafts">>, {"messageId"}, {},
         ids({"messageId"}), Empty)}
StatementReads ==
  {AskBy("statements:list", <<"statements">>, {"status"}, "status" :> Text),
   Ask("statements:get", <<"statements", "id">>, ids({"id"}))}
TaxMappingReads ==
  {AskBy("tax-mappings:list", <<"tax-mappings">>, {"connectionId", "filter", "provider"},
         ids({"connectionId"}) @@ ("filter" :> OneOf({"all", "exception", "active"}))
           @@ ("provider" :> Text)),
   Ask("tax-mappings:get", <<"tax-mappings", "id">>, ids({"id"})),
   AskBy("tax-mappings:discover", <<"tax-mappings", "discover">>, {"code"}, "code" :> Text),
   Ask("tax-mappings:audit", <<"tax-mappings", "id", "audit">>, ids({"id"}))}
TodayReads == {Ask("today:get", <<"today">>, Empty)}
TransactionReads ==
  {AskBy("transactions:list", <<"transactions">>, {"status"}, "status" :> OneOf(UxStatuses)),
   Ask("transactions:get", <<"transactions", "id">>, ids({"id"}))}

AccountingDocumentActions ==
  {Do("accounting-documents:classify", <<"accounting-documents", "documentId", "classify">>,
      {"classification", "reason"},
      ids({"documentId"}) @@ ("reason" :> Text) @@
      ("classification" :> OneOf({"invoice", "bank_statement", "irrelevant"})), Empty)}
BackupActions ==
  {Do("backup:create", <<"backup", "create">>, {}, Empty, Empty),
   Do("backup:restore", <<"backup", "backupId", "restore">>, {}, ids({"backupId"}), Empty),
   Do("backup:restore-external", <<"backup", "restore-external">>, {"path"}, "path" :> Text, Empty),
   Do("backup:export", <<"backup", "backupId", "export">>, {"destination"},
      ids({"backupId"}) @@ ("destination" :> Text), Empty),
   Do("backup:repair", <<"backup", "repair">>, {}, Empty, Empty)}
ConnectionActions ==
  {Do("connections:start", <<"connections", "start">>, {"provider"},
      "provider" :> OneOf({"gmail", "qbo", "xero"}), Empty)}
CorrectionActions ==
  {Do("corrections:learn", <<"corrections", "learn">>,
      {"proposalId", "exceptionId", "field", "newValue", "remember", "mapping"},
      All({"field", "newValue"}, Text),
      ids({"proposalId", "exceptionId"}) @@ ("remember" :> Bool) @@ ("mapping" :> Object)),
   Do("mappings:remap", <<"mappings", "remap">>,
      {"kind", "sourceKey", "targetQboType", "targetQboId", "targetName", "remember"},
      All({"kind", "sourceKey"}, Text),
      All({"targetQboType", "targetQboId", "targetName"}, Text) @@ ("remember" :> Bool))}
DimensionActions ==
  LET On(verb, body, need, may) ==
        Do("dimension-mappings:" \o verb, <<"dimension-mappings", "mappingId", verb>>, body,
           ids({"mappingId"}) @@ need, may)
  IN {On("accept", {"reason"}, Empty, "reason" :> Text),
      On("correct", {"normalizedValue", "reason"}, "normalizedValue" :> Text, "reason" :> Text),
      On("reject", {"reason", "status"}, "reason" :> Text,
         "status" :> OneOf({"rejected", "held"})),
      On("save-rule", {"reason"}, Empty, "reason" :> Text),
      [On("select-alternate", {"providerId", "providerLabel", "reason"}, Empty,
          All({"providerId", "providerLabel", "reason"}, Text))
         EXCEPT !.some = {"providerId", "providerLabel"}]}
NotificationActions ==
  {Do("notifications:read", <<"notifications", "notificationId", "read">>, {},
      ids({"notificationId"}), Empty)}
OnboardingActions ==
  {Do("onboarding:step", <<"onboarding", "step">>, {"step", "automationLevel"}, Empty,
      All({"step", "automationLevel"}, Text)),
   Do("onboarding:dry-run", <<"onboarding", "dry-run">>, {}, Empty, Empty)}
ProposalActions ==
  {Do("proposals:approve", <<"proposals", "proposalId", "approve">>, {}, ids({"proposalId"}), Empty),
   Do("proposals:reject", <<"proposals", "proposalId", "reject">>, {"reason", "markDuplicate"},
      ids({"proposalId"}) @@ ("reason" :> Text), "markDuplicate" :> Bool),
   Do("proposals:retry", <<"proposals", "proposalId", "retry">>, {}, ids({"proposalId"}), Empty)}
ProviderJobActions ==
  {Do("provider-jobs:retry", <<"provider-jobs", "jobId", "retry">>, {}, ids({"jobId"}), Empty)}
ReplyActions ==
  {Do("replies:send", <<"replies", "replyId", "send">>, {}, ids({"replyId"}), Empty)}
ReplyDraftActions ==
  {Do("reply-drafts:create", <<"reply-drafts">>, {"messageId", "subject", "bodyText", "reason"},
      ids({"messageId"}) @@ All({"subject", "bodyText"}, Text), "reason" :> TextOrNull),
   Entry("reply-drafts:update", "PATCH", <<"reply-drafts", "draftId">>, {},
         {"subject", "bodyText", "reason"},
         ids({"draftId"}) @@ All({"subject", "bodyText"}, Text), "reason" :> TextOrNull),
   Entry("reply-drafts:discard", "DELETE", <<"reply-drafts", "draftId">>, {}, {},
         ids({"draftId"}), Empty)}
StatementActions ==
  {Do("statements:correct", <<"statements", "statementId", "correct">>,
      {"field", "value", "reason"},
      ids({"statementId"}) @@ All({"field", "reason"}, Text) @@ ("value" :> Clearable), Empty),
   Do("statements:file", <<"statements", "statementId", "file">>, {}, ids({"statementId"}), Empty),
   Do("statements:match-line", <<"statements", "statementId", "lines", "lineId", "match">>,
      {"providerRef", "reason"},
      ids({"statementId", "lineId"}) @@ ("providerRef" :> Object) @@ ("reason" :> Text), Empty),
   Do("statements:exclude-line", <<"statements", "statementId", "lines", "lineId", "exclude">>,
      {"reason"}, ids({"statementId", "lineId"}) @@ ("reason" :> Text), Empty)}
TaxMappingActions ==
  LET On(verb, body, need, may) ==
        Do("tax-mappings:" \o verb, <<"tax-mappings", "taxMappingId", verb>>, body,
           ids({"taxMappingId"}) @@ need, may)
      rule == {"internalTaxTreatment", "taxMode"}
  IN {Do("tax-mappings:create", <<"tax-mappings">>,
         {"connectionId", "provider", "providerTaxCode", "appliesAt", "reason"} \cup rule,
         ids({"connectionId"}) @@ All({"provider", "providerTaxCode"} \cup rule, Text),
         All({"appliesAt", "reason"}, Text)),
      On("edit", {"appliesAt", "reason"} \cup rule, "reason" :> Text,
         All({"appliesAt"} \cup rule, Text)),
      On("disable", {"reason"}, "reason" :> Text, Empty),
      On("replace", {"providerTaxCode", "appliesAt", "reason"} \cup rule,
         All({"reason"} \cup rule, Text), All({"providerTaxCode", "appliesAt"}, Text)),
      On("revalidate", {"reason"}, Empty, "reason" :> Text)}
\* a gate whose confirmation may not be empty
WriteGateActionsFilled ==
  {Do("provider-connections:write-gate", <<"provider-connections", "connectionId", "write-gate">>,
      {"enabled", "confirmedCompanyId", "backupConfirmed", "confirmation"},
      ids({"connectionId"}) @@ All({"enabled", "backupConfirmed"}, Bool) @@
      All({"confirmedCompanyId", "confirmation"}, Text), Empty)}
WriteGateActions ==
  {Do("provider-connections:write-gate", <<"provider-connections", "connectionId", "write-gate">>,
      {"enabled", "confirmedCompanyId", "backupConfirmed", "confirmation"},
      ids({"connectionId"}) @@ All({"enabled", "backupConfirmed"}, Bool) @@
      All({"confirmedCompanyId", "confirmation"}, AnyText), Empty)}

Entries ==
  UNION {AccountingDocumentReads, AuditReads, BackupReads, ConnectionReads, DimensionReads,
         EvidenceReads, ExceptionReads, MeReads, NotificationReads, OnboardingReads,
         CapabilityReads, ProviderJobReads, ReplyDraftReads, StatementReads, TaxMappingReads,
         TodayReads, TransactionReads, AccountingDocumentActions, BackupActions,
         ConnectionActions, CorrectionActions, DimensionActions, NotificationActions,
         OnboardingActions, ProposalActions, ProviderJobActions, ReplyActions,
         ReplyDraftActions, StatementActions, TaxMappingActions, WriteGateActions}

PathParams(path) == {path[i] : i \in DOMAIN path} \cap Params
\* the words of the list of identity claims, as a caller of this app would write them
Identity == {"token", "session", "sessionId", "user", "userId", "tenant", "tenantId", "role",
             "actor", "email", "cookie", "authorization", "credential", "password", "secret"}
Keys(e) == DOMAIN e.need \cup DOMAIN e.may
\* what defineChannel refuses at start-up
Defective(e) ==
  \/ Keys(e) \cap Identity # {}
  \/ ~(PathParams(e.path) \subseteq DOMAIN e.need)
  \/ e.method = "GET" /\ e.body # {}
  \/ Keys(e) # PathParams(e.path) \cup e.query \cup e.body
\* a channel is declared once, and the two tables name the same method and path for it
RegistryAgrees ==
  /\ \A e \in Entries : ~Defective(e)
  /\ \A d, e \in Entries : d.channel = e.channel => d = e
  /\ {[channel |-> e.channel, method |-> e.method, path |-> e.path] : e \in Entries}
       = {[channel |-> r.channel, method |-> r.method, path |-> r.path] :
            r \in {AllRoutes[i] : i \in DOMAIN AllRoutes}}
  /\ Cardinality(Entries) = Len(AllRoutes)

Fits(v, kind) ==
  /\ v.type \in kind.types /\ v.is \notin kind.but
  /\ kind.only # {} => v.is \in kind.only

EntryOf(channel) == CHOOSE e \in Entries : e.channel = channel
\* the screen for identity claims and the schema, before any service
Accepts(e, payload) ==
  /\ DOMAIN payload \cap Identity = {}
  /\ DOMAIN payload \subseteq Keys(e)      \* a key nobody declared, even if undefined
  /\ \A k \in DOMAIN e.need : k \in DOMAIN payload /\ Fits(payload[k], e.need[k])
  /\ \A k \in DOMAIN e.may \cap DOMAIN payload :
        payload[k] = Undefined \/ Fits(payload[k], e.may[k])
  /\ e.some # {} => \E k \in e.some \cap DOMAIN payload : payload[k] # Undefined

\* the request the service is given
Present(payload, keys) == {k \in keys \cap DOMAIN payload : payload[k] # Undefined}
\* a request whose query string is left out
SynthesizeBare(e, payload) ==
  [method |-> e.method,
   path   |-> [i \in DOMAIN e.path |->
                 IF e.path[i] \in Params THEN payload[e.path[i]].is ELSE e.path[i]],
   query  |-> Empty,
   body   |-> [k \in Present(payload, e.body) |-> payload[k]]]
Synthesize(e, payload) ==
  [method |-> e.method,
   path   |-> [i \in DOMAIN e.path |->
                 IF e.path[i] \in Params THEN payload[e.path[i]].is ELSE e.path[i]],
   query  |-> [k \in {q \in Present(payload, e.query) : payload[q] # Null} |-> payload[k].is],
   body   |-> [k \in Present(payload, e.body) |-> payload[k]]]

-----------------------------------------------------------------------------
(* The calls of the pages: the channel a page means, and what it writes.  *)
(* Every field a page requires is filled in; the others may be left blank. *)

Call(means, method, path, query, body) ==
  [means |-> means, method |-> method, path |-> path, query |-> query, body |-> body]
Gets(means, path, query) == Call(means, "GET", path, query, Empty)
Posts(means, path, body) == Call(means, "POST", path, Empty, body)
Typed(keys) == [k \in keys |-> Txt(k)]
\* a form that sends what was left blank as an undefined key
Blankable(keys) ==
  {[k \in keys |-> IF k \in filled THEN Txt(k) ELSE Undefined] : filled \in SUBSET keys}
\* a query string without the filters that are not set
Filtered(keys) == {[k \in set |-> k] : set \in SUBSET keys}

SessionCalls == {Gets("me:get", <<"me">>, Empty)}
TodayCalls == {Gets("today:get", <<"today">>, Empty),
               Gets("notifications:list", <<"notifications">>, Empty),
               Posts("notifications:read", <<"notifications", "5", "read">>, Empty)}
TransactionsCalls ==
  {Gets("transactions:list", <<"transactions">>, q) :
     q \in {Empty} \cup {"status" :> s : s \in UxStatuses}}
TransactionCalls == {Gets("transactions:get", <<"transactions", "5">>, Empty)}
AuditCalls == {Gets("audit:list", <<"audit">>, Empty)}
EvidenceCalls == {Gets("evidence:get", <<"items", "5", "evidence">>, Empty)}
StatementsCalls ==
  {Gets("statements:list", <<"statements">>, q) : q \in Filtered({"status"})}
StatementReadCalls == {Gets("statements:get", <<"statements", "5">>, Empty)}
FileCalls == {Posts("statements:file", <<"statements", "5", "file">>, Typed({"reason"}))}
LineCalls ==
  {Posts("statements:match-line", <<"statements", "5", "lines", "6", "match">>,
         Typed({"reason"}) @@ ("providerRef" :> Ref)),
   Posts("statements:exclude-line", <<"statements", "5", "lines", "6", "exclude">>,
         Typed({"reason"}))}
FactCalls ==
  {Posts("statements:correct", <<"statements", "5", "correct">>,
         Typed({"field", "reason"}) @@ ("value" :> v)) : v \in {Txt("value"), Null}}
QueueCalls == {Gets("exceptions:list", <<"exceptions">>, "status" :> "open")}
ApproveCalls == {Posts("proposals:approve", <<"proposals", "5", "approve">>, Empty)}
RejectCalls == {Posts("proposals:reject", <<"proposals", "5", "reject">>, Typed({"reason"}))}
RemapCalls ==
  {Posts("mappings:remap", <<"mappings", "remap">>,
         Typed({"sourceKey", "kind"}) @@ ("remember" :> Flag(b)) @@ o) :
     b \in BOOLEAN, o \in Blankable({"targetQboType", "targetQboId", "targetName"})}
ClassifyCalls ==
  {Gets("accounting-documents:review", <<"accounting-documents", "review">>, Empty)} \cup
  {Posts("accounting-documents:classify", <<"accounting-documents", "5", "classify">>,
         Typed({"reason"}) @@ ("classification" :> Txt(c))) :
     c \in {"invoice", "bank_statement", "irrelevant"}}
ReplyReadCalls == {Gets("reply-drafts:get", <<"reply-drafts">>, "messageId" :> "5")}
\* the message id is the one of the evidence: a bigint, so a text (evidence.ts:178-180)
ReplySaveCalls ==
  LET copy == {Typed({"subject", "bodyText"}) @@ ("messageId" :> Txt("5")) @@ ("reason" :> r) :
                 r \in {Txt("reason"), Null}}
  IN {Posts("reply-drafts:create", <<"reply-drafts">>, c) : c \in copy} \cup
     {Call("reply-drafts:update", "PATCH", <<"reply-drafts", "5">>, Empty, c) : c \in copy}
ReplyDiscardCalls ==
  {Call("reply-drafts:discard", "DELETE", <<"reply-drafts", "5">>, Empty, Empty)}
DimensionListCalls ==
  {Gets("dimension-mappings:list", <<"dimension-mappings">>, q) :
     q \in Filtered({"dimensionType", "reviewStatus", "resolutionState"})}
DimensionActCalls ==
  LET On(verb, bodies) ==
        {Posts("dimension-mappings:" \o verb, <<"dimension-mappings", "5", verb>>, b) : b \in bodies}
  IN On("accept", {Empty}) \cup On("save-rule", {Empty}) \cup
     On("correct", {Typed({"normalizedValue"}) @@ o : o \in Blankable({"reason"})}) \cup
     On("reject", {Typed({"reason"}) @@ ("status" :> Txt(s)) : s \in {"rejected", "held"}}) \cup
     On("select-alternate",
        {b \in Blankable({"providerLabel", "providerId", "reason"}) :
           b["providerLabel"] # Undefined \/ b["providerId"] # Undefined})
TaxFixCalls == {Gets("tax-mappings:list", <<"tax-mappings">>, "filter" :> "all")}
TaxListCalls ==
  {Gets("tax-mappings:list", <<"tax-mappings">>, "filter" :> f) :
     f \in {"active", "exception", "all"}}
TaxFormKeys == {"providerTaxCode", "internalTaxTreatment", "taxMode", "appliesAt"}
TaxCreateCalls ==
  {Posts("tax-mappings:create", <<"tax-mappings">>,
         Typed({"provider"} \cup TaxFormKeys) @@ ("connectionId" :> Number("5")) @@ o) :
     o \in Blankable({"reason"})}
TaxOneCalls ==
  {Gets("tax-mappings:get", <<"tax-mappings", "5">>, Empty),
   Posts("tax-mappings:disable", <<"tax-mappings", "5", "disable">>, Typed({"reason"})),
   Posts("tax-mappings:revalidate", <<"tax-mappings", "5", "revalidate">>, Empty)}
TaxEditCalls ==
  {Posts("tax-mappings:edit", <<"tax-mappings", "5", "edit">>,
         Typed({"internalTaxTreatment", "taxMode", "appliesAt", "reason"}))}
\* the form of the create page, with the keys of a create left undefined
TaxReplaceCalls ==
  {Posts("tax-mappings:replace", <<"tax-mappings", "5", "replace">>,
         Typed({"reason"} \cup TaxFormKeys) @@ All({"connectionId", "provider"}, Undefined))}
TaxAuditCalls == {Gets("tax-mappings:audit", <<"tax-mappings", "5", "audit">>, Empty)}
TaxCodeCalls == {Gets("tax-mappings:discover", <<"tax-mappings", "discover">>, Empty)}
LevelCalls == {Posts("onboarding:step", <<"onboarding", "step">>,
                     Typed({"step", "automationLevel"})),
               Gets("onboarding:get", <<"onboarding">>, Empty)}
SetupCalls == {Posts("onboarding:step", <<"onboarding", "step">>, Typed({"step"})),
               Posts("onboarding:dry-run", <<"onboarding", "dry-run">>, Empty)}
ConnectCalls ==
  {Gets("connections:status", <<"connections", "status">>, Empty)} \cup
  {Posts("connections:start", <<"connections", "start">>, "provider" :> Txt(p)) :
     p \in {"gmail", "qbo"}}
ProviderCalls == {Gets("provider-capabilities:list", <<"provider-capabilities">>, Empty),
                  Gets("provider-jobs:list", <<"provider-jobs">>, Empty)}
\* turning a gate off sends no confirmation, and the company that is known, if any is
GateCalls ==
  {Posts("provider-connections:write-gate", <<"provider-connections", "5", "write-gate">>, b) :
     b \in {Typed({"confirmedCompanyId", "confirmation"}) @@
              All({"enabled", "backupConfirmed"}, Flag(TRUE))} \cup
           {("confirmedCompanyId" :> Txt(c)) @@ ("confirmation" :> Txt("")) @@
              All({"enabled", "backupConfirmed"}, Flag(FALSE)) :
              c \in {"", "confirmedCompanyId"}}}
BackupCalls ==
  {Gets("backup:list", <<"backup", "list">>, Empty),
   Posts("backup:create", <<"backup", "create">>, Empty),
   Posts("backup:export", <<"backup", "5", "export">>, Typed({"destination"}))}
RestoreCalls ==
  {Posts("backup:restore-external", <<"backup", "restore-external">>, Typed({"path"})),
   Posts("backup:restore", <<"backup", "5", "restore">>, "backupId" :> Number("5")),
   Posts("backup:repair", <<"backup", "repair">>, Empty)}

PageCalls ==
  UNION {SessionCalls, TodayCalls, TransactionsCalls, TransactionCalls, AuditCalls,
         EvidenceCalls, StatementsCalls, StatementReadCalls, FileCalls, LineCalls, FactCalls,
         QueueCalls, ApproveCalls, RejectCalls, RemapCalls, ClassifyCalls, ReplyReadCalls,
         ReplySaveCalls, ReplyDiscardCalls, DimensionListCalls, DimensionActCalls, TaxFixCalls,
         TaxListCalls, TaxCreateCalls, TaxOneCalls, TaxEditCalls, TaxReplaceCalls,
         TaxAuditCalls, TaxCodeCalls, LevelCalls, SetupCalls, ConnectCalls, ProviderCalls,
         GateCalls, BackupCalls, RestoreCalls}

-----------------------------------------------------------------------------
\* the request the page wrote: an undefined key is not sent, and a key of the path
\* need not be said twice
Written(call, e) ==
  [method |-> call.method, path |-> call.path, query |-> call.query,
   body |-> [k \in Present(call.body, DOMAIN call.body \ PathParams(e.path)) |-> call.body[k]]]

\* the calls the registry refuses: a key of the body the channel does not declare (the
\* reason of a filing, the message of a saved draft, the create keys of a replacement),
\* and a message id that is text
Refused == FileCalls \cup ReplySaveCalls \cup TaxReplaceCalls

\* Every call of a page reaches the channel the page means; the service is given the
\* request the page wrote, value for value; and only the calls named above are refused.
\* (app/lib/ipc-routes.ts, desktop/ipc/registry.ts and the pages of app/, written apart.)
CallServed ==
  /\ Matching(asked) # {}
  /\ LET found == Resolve(asked)
         e     == EntryOf(found.channel)
     IN /\ found.channel = asked.means
        /\ Accepts(e, found.payload) <=> asked \notin Refused
        /\ asked \notin Refused => Synthesize(e, found.payload) = Written(asked, e)

RoutesAgree == RegistryAgrees /\ CallServed
=============================================================================
