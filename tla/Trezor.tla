------------------------------- MODULE Trezor -------------------------------
(***************************************************************************)
(* Trezor deep links.  The application asks for a link, opens it, and      *)
(* Trezor Suite (external) later opens the callback URL it holds with a    *)
(* response added.  Several links may be out at once and be answered in    *)
(* any order, more than once or never; nothing of a request is kept, so    *)
(* handle_deep_link knows only what the callback URL says.                 *)
(*                                                                         *)
(* A URL is the sequence of its query pairs.                               *)
(***************************************************************************)
EXTENDS Sequences

CONSTANTS
    Ids,        \* request ids, given or generated (a UUID)
    Bases       \* query pairs of the callback URLs the application registers

\* TrezorEnvironment; Production has no URL yet.
Environments == {"Production", "Development", "Local"}
base_url(env) == IF env = "Production" THEN "EnvironmentError" ELSE "Ok"

\* The methods of the exported functions, each with a payload of its own.
Methods == {"getFeatures", "getAddress", "getAccountInfo", "composeTransaction",
            "verifyMessage", "signMessage", "signTransaction"}

\* What get_account_info may be told of the account.
Accounts == {{}, {"path"}, {"descriptor"}, {"path", "descriptor"}}

VARIABLES
    links,      \* the links handed out: method and callback
    opened,     \* callback URLs that Trezor Suite opened, each with its link
    results     \* what handle_deep_link returned for them

vars == <<links, opened, results>>

Init == links = {} /\ opened = {} /\ results = {}

\* query_pairs().find: the first value of a key, as a sequence of at most one.
Find(url, key) ==
    LET values == SelectSeq(url, LAMBDA pair : pair[1] = key)
    IN IF values = <<>> THEN <<>> ELSE <<values[1][2]>>

\* A link: the request id goes into the callback, after what it already has.
generate_deep_link(method, base, id) ==
    [method |-> method, callback |-> Append(base, <<"id", id>>)]

\* The trezor_* functions; an error hands out no link.
Request(env, method, account, base, id) ==
    /\ base_url(env) = "Ok"
    /\ method = "getAccountInfo" => account # {"path", "descriptor"}
    /\ links' = links \cup {generate_deep_link(method, base, id)}
    /\ UNCHANGED <<opened, results>>

\* What Trezor Suite puts into the response: the payload of the method, a
\* refusal, a success with nothing in it, or text that is no JSON.
Replies(link) == {[json |-> TRUE, success |-> TRUE, payload |-> <<link.method>>],
                  [json |-> TRUE, success |-> FALSE, payload |-> <<>>],
                  [json |-> TRUE, success |-> TRUE, payload |-> <<>>],
                  [json |-> FALSE, success |-> FALSE, payload |-> <<>>]}

\* Suite opens the callback with the response: README.md of the module has it
\* as ...?id=abc123&response={...}.
SuiteAnswers(link, reply) ==
    /\ opened' = opened \cup {[link |-> link, reply |-> reply,
                               url |-> Append(link.callback, <<"response", reply>>)]}
    /\ UNCHANGED <<links, results>>

\* The method decides which type the payload is parsed as.
ParsePayload(method, payload) ==
    IF method = <<>> \/ method[1] \notin Methods \cup {"getPublicKey"} THEN "Other"
    ELSE IF payload = method[1] THEN payload ELSE "SerdeError"

\* The checks of handle_deep_link, in their order.
handle_deep_link(url) ==
    LET id       == Find(url, "id")
        response == Find(url, "response")
    IN CASE id = <<>>                       -> "Other"
         [] response = <<>>                 -> "Other"
         [] ~response[1].json               -> "SerdeError"
         [] ~response[1].success            -> "Other"
         [] response[1].payload = <<>>      -> "Other"
         [] OTHER -> ParsePayload(Find(url, "method"), response[1].payload[1])

\* The exported function makes every error a ClientError.
trezor_handle_deep_link(url) ==
    LET result == handle_deep_link(url)
    IN IF result \in {"Other", "SerdeError"} THEN "ClientError" ELSE result

Handle(o) ==
    /\ results' = results \cup {[opened |-> o, result |-> trezor_handle_deep_link(o.url)]}
    /\ UNCHANGED <<links, opened>>

Next ==
    \/ \E env \in Environments, method \in Methods, account \in Accounts,
          base \in Bases, id \in Ids : Request(env, method, account, base, id)
    \/ \E link \in links : \E reply \in Replies(link) : SuiteAnswers(link, reply)
    \/ \E o \in opened : Handle(o)

Spec == Init /\ [][Next]_vars

\* README.md of the module hands "myapp://trezor/callback?id=abc123&response=
\* {...}" to trezorHandleDeepLink and switches over the payloads it returns:
\* the answer to a request, opened as the link asked for it, is parsed.
AnswersAreParsed ==
    \A r \in results :
        r.opened.reply.payload # <<>> => r.result = r.opened.reply.payload[1]
=============================================================================
