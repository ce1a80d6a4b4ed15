----------------------------- MODULE ToolCalls -----------------------------
(***************************************************************************)
(* What one memory tool call does before and after it reaches the store:   *)
(* the argument checks in the order tools.py makes them, the scope policy, *)
(* the client call a request becomes, and how an outcome is rendered for   *)
(* the agent.                                                              *)
(*                                                                         *)
(* A request is [tool, args]; args maps argument names to values.  A value *)
(* that some check tells apart from a good one is one of the strings       *)
(* below ("nonstr": of another type; "unencodable": not UTF-8; and so on); *)
(* every other value is good.  "none" is Python's None.                    *)
(***************************************************************************)
EXTENDS Naturals, Sequences

CONSTANTS
  Scopes,      \* the scope names agents use, granted to them or not
  Identities,  \* the identities resolvers return, by name: scope -> grant
  WriteRoles   \* ScopePolicy.write_roles: restricted scope -> roles

ToolsAssumption ==
  /\ \A i \in DOMAIN Identities :
        /\ DOMAIN Identities[i] \subseteq Scopes
        /\ \A s \in DOMAIN Identities[i] :
              {"entity", "role"} \subseteq DOMAIN Identities[i][s]

ASSUME ToolsGiven == ToolsAssumption

System == "system"
Mutations == {"write_file", "append_line", "replace_fact", "delete_file"}
Tools == Mutations \cup {"get_memory_index", "read_file", "list_prefix"}

---------------------------------------------------------------------------
(* Errors: name, family (what render_error tells apart), category, and     *)
(* what the error is about.                                                *)
Error(name, family, category, about) ==
  [name |-> name, family |-> family, category |-> category, about |-> about]

NoError == Error("none", "none", "none", "none")
InvalidArgument(a) ==
  Error("InvalidArgumentError", "wenchang", "recoverable", a)
Restricted(reason) ==
  Error("RestrictedScopeError", "wenchang", "permanent", reason)
ResolverFailure ==
  Error("ResolverFailureError", "wenchang", "permanent", "identity")

---------------------------------------------------------------------------
(* The checks, in the order made: an argument, and the values refused.     *)
PathChecks(granted) ==
  << <<"scope", {"nonstr"}>>, <<"area", {"nonstr"}>>, <<"name", {"nonstr"}>>,
     <<"scope", {"unencodable"}>>, <<"area", {"unencodable"}>>,
     <<"name", {"unencodable"}>>,
     <<"scope", Scopes \ granted>>,
     <<"area", {"notsegment"}>>, <<"name", {"notsegment"}>>,
     <<"area", {"notslug"}>>, <<"name", {"invisible"}>> >>

PrefixChecks(granted) ==
  << <<"scope", {"nonstr"}>>, <<"area", {"nonstr"}>>,
     <<"scope", {"unencodable"}>>, <<"area", {"unencodable"}>>,
     <<"scope", Scopes \ granted>>,
     <<"area", {"notsegment"}>>, <<"area", {"notslug"}>>,
     <<"cursor", {"nonstr"}>> >>

BadText == {"nonstr", "unencodable"}
BadAliases == BadText \cup {"notlist"}
BadDescription == BadText \cup {"multiline", "badmetadata"}

(* The optional additions of append_line and replace_fact: None is fine.   *)
GuardedBy == <<"expected_version", {"nonstr", "none"}>>
Additions == << <<"aliases", BadAliases>>, <<"description", BadDescription>> >>

ContentChecks(tool) ==
  CASE tool = "write_file" ->
         << <<"content", BadText>>,
            <<"description", BadDescription \cup {"none"}>>,
            <<"aliases", BadAliases \cup {"none"}>>,
            <<"expected_version", {"nonstr"}>> >>
    [] tool = "append_line" ->
         << <<"line", BadText \cup {"notafact"}>>, GuardedBy >> \o Additions
    [] tool = "replace_fact" ->
         << <<"old_string", {"nonstr"}>>, <<"new_string", {"nonstr"}>>,
            <<"old_string", {"empty"}>>, <<"new_string", {"unencodable"}>>,
            GuardedBy >> \o Additions
    [] tool = "delete_file" -> << GuardedBy >>

(* An argument a request does not give is at its default, which passes;    *)
(* the error is about the argument of the first check that fails.          *)
Failing(checks, args) ==
  {i \in DOMAIN checks : /\ checks[i][1] \in DOMAIN args
                         /\ args[checks[i][1]] \in checks[i][2]}

ArgumentError(checks, args) ==
  LET bad == Failing(checks, args)
      first == CHOOSE i \in bad : \A j \in bad : i <= j
  IN IF bad = {} THEN NoError ELSE InvalidArgument(checks[first][1])

---------------------------------------------------------------------------
(* Where a request points: always into the caller's own entity.            *)
PathOf(args, grants) ==
  [scope |-> args.scope, entity |-> grants[args.scope].entity,
   area |-> args.area, name |-> args.name]

PrefixOf(args, grants) ==
  [scope |-> args.scope, entity |-> grants[args.scope].entity,
   area |-> args.area, name |-> "none"]

(* Mutant: only the policy is asked, and the system area is writable.      *)
CheckWrite_PolicyOnly(path, grants) ==
  IF ~(path.scope \in DOMAIN grants
       /\ grants[path.scope].entity = path.entity)
  THEN Restricted("not_granted")
  ELSE IF path.scope \in DOMAIN WriteRoles
          /\ grants[path.scope].role \notin WriteRoles[path.scope]
  THEN Restricted("role_required")
  ELSE NoError

(* check_write: the system/ check, then check_write_allowed.               *)
CheckWrite(path, grants) ==
  IF path.area = System THEN Restricted("system_read_only")
  ELSE IF ~(path.scope \in DOMAIN grants
            /\ grants[path.scope].entity = path.entity)
  THEN Restricted("not_granted")
  ELSE IF path.scope \in DOMAIN WriteRoles
          /\ grants[path.scope].role \notin WriteRoles[path.scope]
  THEN Restricted("role_required")
  ELSE NoError

RefusedMutation(tool, args, grants) ==
  LET unlocated == ArgumentError(PathChecks(DOMAIN grants), args)
  IN IF unlocated # NoError THEN unlocated
     ELSE LET forbidden == CheckWrite(PathOf(args, grants), grants)
          IN IF forbidden # NoError THEN forbidden
             ELSE ArgumentError(ContentChecks(tool), args)

(* What a tool raises before it calls the client; NoError if it calls it.  *)
Refusal(req, grants) ==
  IF req.tool = "get_memory_index" THEN NoError
  ELSE IF req.tool = "read_file"
  THEN ArgumentError(PathChecks(DOMAIN grants), req.args)
  ELSE IF req.tool = "list_prefix"
  THEN ArgumentError(PrefixChecks(DOMAIN grants), req.args)
  ELSE RefusedMutation(req.tool, req.args, grants)

(* The places a client call reaches: one path or prefix, or for the index  *)
(* a prefix per granted scope.                                             *)
Targets(req, grants) ==
  IF req.tool = "get_memory_index"
  THEN {[scope |-> s, entity |-> grants[s].entity,
         area |-> "none", name |-> "none"] : s \in DOMAIN grants}
  ELSE IF req.tool = "list_prefix" THEN {PrefixOf(req.args, grants)}
  ELSE {PathOf(req.args, grants)}

(* A ValueError from the client's list_prefix is about the cursor, if one  *)
(* was passed, unless stored data does not parse.                          *)
ClientError(req, error) ==
  IF req.tool = "list_prefix" /\ req.args.cursor # "none"
     /\ error.name = "ValueError"
  THEN InvalidArgument("cursor")
  ELSE error

---------------------------------------------------------------------------
(* An outcome is a value (of a kind, with the fields of its entries that   *)
(* have their declared types, at a version) or an error.                   *)
Value(kind, typed, version) ==
  [kind |-> kind, typed |-> typed, version |-> version]
NoValue == Value("raised", {}, 0)
Returns(v) == [value |-> v, error |-> NoError]
Fails(e) == [value |-> NoValue, error |-> e]

MetadataFields == {"description", "aliases", "sources", "last_updated"}
EntryFields ==
  {"path", "content", "version", "metadata"} \cup MetadataFields

(* What is shown of a file: fields of another type are left out.           *)
FileFields(kind, typed) ==
  (IF "path" \in typed THEN {"scope", "area", "name"} ELSE {})
  \cup (typed \cap (IF kind = "file" THEN {"content", "version"}
                    ELSE {"version"}))
  \cup (IF "metadata" \in typed THEN typed \cap MetadataFields ELSE {})

RenderResult(v) ==
  [isError |-> FALSE, name |-> v.kind, category |-> "none",
   shows |-> IF v.kind = "none" THEN {"ok"} ELSE FileFields(v.kind, v.typed)]

(* Only the library's own errors and unparsable data speak for themselves. *)
RenderError(e) ==
  [isError |-> TRUE, name |-> e.name,
   category |-> IF e.family = "wenchang" THEN e.category ELSE "internal",
   shows |-> IF e.family \in {"wenchang", "integrity"} THEN {e.about}
             ELSE {"internal error"}]

Renders(v) == v.kind \in {"none", "file", "page", "index"}
CannotRender == Error("TypeError", "other", "none", "cannot render")

(* The payload of an outcome, as the adapter answers and observers see it. *)
Payload(outcome) ==
  IF outcome.error # NoError THEN RenderError(outcome.error)
  ELSE IF Renders(outcome.value) THEN RenderResult(outcome.value)
  ELSE RenderError(CannotRender)
=============================================================================
