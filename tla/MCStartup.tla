----------------------------- MODULE MCStartup -----------------------------
(* A small instance of Startup for TLC. *)
EXTENDS Startup

Line(kind, key, text, num, ok) == [kind |-> kind, key |-> key, text |-> text, num |-> num, ok |-> ok]
Text(key, text) == Line("pair", key, text, 0, TRUE)
Number(key, num) == Line("pair", key, "", num, TRUE)
NotANumber(key) == Line("pair", key, "x", 0, FALSE)

\* Sections, items, and for the fields of a provider and some settings a value
\* that is right and one that is not.
MCLines ==
    {Line("section", k, "", 0, TRUE) : k \in {"providers", "circuit_breaker", "rate_limit", "budget"}}
    \cup {Line("item", "name", n, 0, TRUE) : n \in {"a", "b"}}
    \cup {Line("item", "failure_threshold", "", 5, TRUE)}
    \cup {Text("type", "openai"), Text("base_url", "plain"), Text("base_url", "secure"), Text("base_url", "literal"), Text("base_url", "numeric"),
          Number("priority", 1), Text("circuit_breaker", ""),
          Number("failure_threshold", 5), NotANumber("failure_threshold"),
          Number("open_timeout_s", -1),
          NotANumber("max_tokens"),
          Number("default_period", 1), NotANumber("default_period")}

MCAnswers == {<<>>, <<"public">>, <<"mapped_private", "public">>}

KeyLine(dash, field, text, num, ok) ==
    [dash |-> dash, field |-> field, text |-> text, num |-> num, ok |-> ok]

\* Entries that begin with their key and entries that do not, an empty key, fields
\* that are right and fields that are not.
MCKeyLines ==
    {KeyLine(TRUE, "key", k, 0, TRUE) : k \in {"k1", "k2", ""}}
    \cup {KeyLine(FALSE, "key", "k2", 0, TRUE),
          KeyLine(FALSE, "provider_allowlist", "a", 0, TRUE),
          KeyLine(TRUE, "token_budget", "", 1, TRUE),
          KeyLine(FALSE, "token_budget", "", 2, TRUE),
          KeyLine(FALSE, "token_budget", "", -1, TRUE),
          KeyLine(FALSE, "budget_period", "", 3, TRUE),
          KeyLine(FALSE, "budget_period", "x", 0, FALSE)}
=============================================================================
