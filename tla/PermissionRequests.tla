------------------------- MODULE PermissionRequests -------------------------
(***************************************************************************)
(* Permissions of sandboxed extensions: those of the metadata are granted  *)
(* when the extension is executed, the others when it asks for them and    *)
(* the user agrees.  There is one dialog for all requests, and a request   *)
(* waits for the answer to the question it put there last.  What a granted *)
(* permission gives is an object whose methods check what they are called  *)
(* with.                                                                   *)
(***************************************************************************)
EXTENDS Undefined, Naturals, SequencesExt

CONSTANTS Requests,   \* the requests extensions may make
          Requester,  \* Requester[r] is the extension that makes request r
          Wanted,     \* Wanted[r] is its list of permissions
          URLs        \* what extensions fetch: records of an origin and a path, a sequence of segments

VARIABLES permissions,  \* globalStates.extensions.permissions
          request,      \* each request: where it is, and the answers it has so far
          dialog,       \* requestedPermissionState: the request whose question is shown
          crossed,      \* another request has taken the dialog of one that waits
          sent          \* history: the HTTP request that was sent last, and for which permission

permissionVars == <<permissions, request, dialog, crossed, sent>>

(* A permission is its parts between "::", a URL being one of them.        *)
Permission(base, scope, argument) == <<base, scope>> \o argument
PermissionsList ==
  {Permission("time", "date", <<>>), Permission("ui", "basic", <<>>), Permission("internet", "http-get", <<>>),
   Permission("log", "read", <<>>), Permission("internal-storage", "read", <<>>)}

(* readExtensions: an extension whose metadata name unknown permissions is *)
(* invalid; an argument may follow a known one.                            *)
PermissionsValid(wanted) == \A p \in ToSet(wanted) : \E known \in PermissionsList : IsPrefix(known, p)

(* What granting gives: an object, nothing for a base that has no handler, *)
(* or an error.                                                            *)
handlePermission(p) ==
  IF Len(p) < 2 \/ (p[1] = "internet" /\ (Len(p) = 2 \/ p[2] \notin {"http-get", "http-post"})) THEN "error"
  ELSE IF p[1] \in {"time", "ui", "internet", "log"} THEN "object"
  ELSE "nothing"

AllPermissions == UNION {ToSet(Wanted[r]) : r \in Requests}
TheExtensions == {Requester[r] : r \in Requests}
NoRequest == [at |-> "idle", answers |-> <<>>]

(* undefined is neither an answer nor a request; a request wants a list;   *)
(* what gives access to the internet names a URL, and a URL has a path.    *)
ASSUME PermissionsAssumption ==
  /\ None \notin BOOLEAN /\ None \notin Requests
  /\ Wanted \in [Requests -> Seq(AllPermissions)]
  /\ \A url \in URLs : url.path \in Seq(STRING)
  /\ \A p \in AllPermissions : p[1] = "internet" /\ handlePermission(p) = "object" =>
       p[3].path \in Seq(STRING) /\ p[3].path # <<>>

PermissionsInit ==
  /\ permissions = [e \in TheExtensions |-> [p \in AllPermissions |-> None]]
  /\ request = [r \in Requests |-> NoRequest]
  /\ dialog = None /\ crossed = FALSE /\ sent = None

Recorded(r, p) == permissions[Requester[r]][p]
Question(r) == Wanted[r][Len(request[r].answers) + 1]
Waits(r) == request[r].at = "waiting"

-----------------------------------------------------------------------------
(* grantStaticPermissions: the permissions of the metadata, until the one  *)
(* that cannot be granted; the code of the extension has not run yet.      *)
grantStaticPermissions(r) ==
  /\ \A k \in Requests : Requester[k] = Requester[r] => request[k].at = "idle"
  /\ PermissionsValid(Wanted[r])
  /\ LET bad == {i \in DOMAIN Wanted[r] : handlePermission(Wanted[r][i]) = "error"}
         given == {Wanted[r][i] : i \in {k \in DOMAIN Wanted[r] : \A j \in bad : k < j}}
     IN  permissions' = [permissions EXCEPT ![Requester[r]] = [p \in AllPermissions |-> IF p \in given THEN TRUE ELSE @[p]]]
  /\ request' = [request EXCEPT ![r].at = "static"]
  /\ UNCHANGED <<dialog, crossed, sent>>

(* requestPermissions, up to the next question: what was decided before    *)
(* is not asked again.  At the end the dialog is closed, whoever has it.   *)
Continue(r, answers, recorded) ==
  LET undecided == {i \in DOMAIN Wanted[r] : i > Len(answers) /\ recorded[Wanted[r][i]] = None}
      stop == {i \in DOMAIN Wanted[r] :
                 i > Len(answers) /\ recorded[Wanted[r][i]] = TRUE /\ handlePermission(Wanted[r][i]) = "error"}
      first(s) == CHOOSE i \in s : \A j \in s : i <= j
      known(to) == answers \o [i \in 1..(to - Len(answers)) |-> recorded[Wanted[r][i + Len(answers)]]]
  IN  IF stop # {} /\ \A i \in undecided : first(stop) < i
      THEN /\ request' = [request EXCEPT ![r].at = "failed"]
           /\ UNCHANGED <<dialog, crossed>>
      ELSE IF undecided # {}
      THEN /\ request' = [request EXCEPT ![r] = [at |-> "waiting", answers |-> known(first(undecided) - 1)]]
           /\ dialog' = r
           /\ crossed' = (crossed \/ (dialog # None /\ dialog # r))
      ELSE /\ request' = [request EXCEPT ![r] = [at |-> "done", answers |-> known(Len(Wanted[r]))]]
           /\ dialog' = None
           /\ crossed' = (crossed \/ (dialog # None /\ dialog # r))

requestPermissions(r) ==
  /\ request[r].at = "idle"
  /\ Continue(r, <<>>, permissions[Requester[r]])
  /\ UNCHANGED <<permissions, sent>>

\* Mutant of AnswerTo: the answer is taken for the last permission wanted.
AnswerLast(asked) == Last(Wanted[asked])

AnswerTo(asked) == Question(asked)

(* A click on Yes or No: the answer is recorded, and the request goes on;  *)
(* a permission that is allowed and cannot be handled fails it, and leaves *)
(* the dialog where it is.                                                 *)
handleUserRequest(allowed) ==
  /\ dialog # None /\ UNCHANGED sent
  /\ LET e == Requester[dialog] IN
     IF Waits(dialog)
     THEN LET recorded == [permissions[e] EXCEPT ![AnswerTo(dialog)] = allowed] IN
          /\ permissions' = [permissions EXCEPT ![e] = recorded]
          /\ IF allowed /\ handlePermission(Question(dialog)) = "error"
             THEN request' = [request EXCEPT ![dialog].at = "failed"] /\ UNCHANGED <<dialog, crossed>>
             ELSE Continue(dialog, Append(request[dialog].answers, allowed), recorded)
     ELSE /\ permissions' = [permissions EXCEPT ![e][Question(dialog)] = allowed]
          /\ UNCHANGED <<request, dialog, crossed>>

-----------------------------------------------------------------------------
(* What an extension can do with a permission to go to the internet.       *)

(* The object of Wanted[r][i], if it was handed out.                       *)
Holds(r, i) ==
  /\ handlePermission(Wanted[r][i]) = "object"
  /\ \/ request[r].at = "static" /\ \A k \in DOMAIN Wanted[r] : handlePermission(Wanted[r][k]) # "error"
     \/ request[r].at = "done" /\ request[r].answers[i]

(* A path that ends with "/" has an empty last segment.                    *)
StartsWith(path, allowed) == IsPrefix(allowed, path)

(* The path of the permission or one below it, on its origin.              *)
guard(url, allowed) ==
  LET scopePath == IF Last(allowed.path) = "" THEN Front(allowed.path) ELSE allowed.path
  IN /\ url.origin = allowed.origin
     /\ url.path = allowed.path \/ (StartsWith(url.path, scopePath) /\ Len(url.path) > Len(scopePath))

validateRequestData(body, contentType) == body \in {"none", "text", "bytes"} /\ contentType = "listed"

(* webFetch and tauriFetch; a redirect is not followed.                    *)
Send(r, i, url, body, contentType) ==
  LET p == Wanted[r][i] IN
  /\ Holds(r, i) /\ p[1] = "internet"
  /\ p[2] = "http-post" => validateRequestData(body, contentType)
  /\ guard(url, p[3])
  /\ sent' = [who |-> Requester[r], for |-> p, method |-> IF p[2] = "http-get" THEN "GET" ELSE "POST", url |-> url]
  /\ UNCHANGED <<permissions, request, dialog, crossed>>

PermissionsNext ==
  \/ \E r \in Requests, url \in URLs, body \in {"none", "text", "bytes", "object"}, contentType \in {"listed", "other"} :
       \E i \in DOMAIN Wanted[r] : Send(r, i, url, body, contentType)
  \/ \E r \in Requests : grantStaticPermissions(r) \/ requestPermissions(r)
  \/ \E allowed \in BOOLEAN : handleUserRequest(allowed)

-----------------------------------------------------------------------------
PermissionsTypeOK ==
  /\ \A e \in TheExtensions, p \in AllPermissions : permissions[e][p] \in {None, TRUE, FALSE}
  /\ \A r \in Requests : request[r].at \in {"idle", "static", "waiting", "done", "failed"}
  /\ dialog \in Requests \cup {None}

(* The answers a request returns are those recorded for its own extension, *)
(* and a request that waits has its question shown, unless requests        *)
(* crossed: then one may wait for ever, its dialog taken or closed by      *)
(* another (PermissionsHandler.vue, __requestPermissions).                 *)
AnsweredAsAsked ==
  /\ \A r \in Requests : request[r].at = "done" =>
       \A i \in DOMAIN Wanted[r] : request[r].answers[i] = Recorded(r, Wanted[r][i])
  /\ ~crossed => \A r \in Requests : Waits(r) => dialog = r

(* Whatever an extension sends goes to the origin and under the path of a  *)
(* permission of its own, by the method it names, which its metadata has   *)
(* or the user has allowed and not been asked about since (internet.ts,    *)
(* guard).                                                                 *)
SentAsAllowed ==
  sent # None =>
    LET scope == sent.for[3].path
    IN /\ sent.for[1] = "internet" /\ sent.for[2] = IF sent.method = "GET" THEN "http-get" ELSE "http-post"
       /\ permissions[sent.who][sent.for] = TRUE
       /\ sent.url.origin = sent.for[3].origin
       /\ \A i \in DOMAIN scope :
            \/ i \in DOMAIN sent.url.path /\ sent.url.path[i] = scope[i]
            \/ i = Len(scope) /\ scope[i] = ""
=============================================================================
