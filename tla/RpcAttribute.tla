---------------------------- MODULE RpcAttribute ----------------------------
(***************************************************************************)
(* crates/rpc/macros: how #[rpc(namespace = "..", method = "..")] is read, *)
(* token by token.  A literal is its value, an identifier its text, and    *)
(* the two signs of punctuation have names.  An Option<String> is "None"   *)
(* or the value.                                                           *)
(***************************************************************************)
EXTENDS Naturals, Sequences

CONSTANTS
  EntryLists,  \* the attributes that are tried, as sequences of [key, value]
  Literals     \* the values; no identifier and no punctuation among them

\* A token tells by its kind whether it is an identifier, a literal or punctuation, and a
\* literal is Some.
ASSUME AttributeTokens ==
  /\ Literals \cap {"EQUALS", "COMMA", "None"} = {}
  /\ \A es \in EntryLists :
       /\ es \in Seq({es[i] : i \in DOMAIN es})
       /\ \A i \in DOMAIN es : /\ es[i].key \notin Literals \cup {"EQUALS", "COMMA"}
                               /\ es[i].value \in Literals

VARIABLES
  entries,     \* what is meant to be written in the attribute
  damaged,     \* one of its tokens is missing
  tokens,      \* what is left of its tokens
  scan,        \* what the parser looks for: "key", "equal" or "value"
  key,         \* the key it has read
  namespace,
  method,
  parsed       \* "none", "ok" or the error

attributeVars == <<entries, damaged, tokens, scan, key, namespace, method, parsed>>

\* `namespace = "moj", method = "getProof"`
Rendered(es) ==
  [i \in 1..(4 * Len(es) - 1) |->
     LET e == es[(i + 3) \div 4]
     IN  <<e.key, "EQUALS", e.value, "COMMA">>[((i - 1) % 4) + 1]]

\* The tokens without the one at i.
Without(s, i) == SubSeq(s, 1, i - 1) \o SubSeq(s, i + 1, Len(s))

AttributeInit ==
  /\ entries \in EntryLists
  /\ damaged \in BOOLEAN
  /\ \/ ~damaged /\ tokens = Rendered(entries)
     \/ damaged /\ \E i \in DOMAIN Rendered(entries) : tokens = Without(Rendered(entries), i)
  /\ scan = "key" /\ key = "None" /\ namespace = "None" /\ method = "None"
  /\ parsed = "none"

AttributeTypeOK ==
  /\ scan \in {"key", "equal", "value"}
  /\ {namespace, method} \subseteq Literals \cup {"None"}
  /\ parsed \in {"none", "ok", "MissingNamespace", "MissingMethod", "InvalidFormat"}

Token == Head(tokens)
Takes(there) == tokens' = Tail(tokens) /\ scan' = there

\* The loop of parse_attr_tokens passes over all but identifiers.
ReadKey ==
  /\ parsed = "none" /\ scan = "key" /\ tokens # <<>>
  /\ IF Token \in Literals \cup {"COMMA", "EQUALS"}
     THEN Takes("key") /\ UNCHANGED key
     ELSE Takes("equal") /\ key' = Token
  /\ UNCHANGED <<entries, damaged, namespace, method, parsed>>

\* Mutant: the `=` itself is left to the next step.
skip_until_equal_Peeks ==
  /\ parsed = "none" /\ scan = "equal" /\ tokens # <<>>
  /\ IF Token = "EQUALS" THEN scan' = "value" /\ UNCHANGED tokens ELSE Takes("equal")
  /\ UNCHANGED <<entries, damaged, key, namespace, method, parsed>>

skip_until_equal ==
  /\ parsed = "none" /\ scan = "equal" /\ tokens # <<>>
  /\ Takes(IF Token = "EQUALS" THEN "value" ELSE "equal")
  /\ UNCHANGED <<entries, damaged, key, namespace, method, parsed>>

parse_string_literal ==
  /\ parsed = "none" /\ scan = "value" /\ tokens # <<>>
  /\ Takes("key")
  /\ IF Token \in Literals
     THEN /\ namespace' = IF key = "namespace" THEN Token ELSE namespace
          /\ method' = IF key = "method" THEN Token ELSE method
          /\ UNCHANGED parsed
     ELSE parsed' = "InvalidFormat" /\ UNCHANGED <<namespace, method>>
  /\ UNCHANGED <<entries, damaged, key>>

parse_attr_tokens ==
  /\ parsed = "none" /\ tokens = <<>>
  /\ parsed' = IF scan # "key" THEN "InvalidFormat"
               ELSE IF namespace = "None" THEN "MissingNamespace"
               ELSE IF method = "None" THEN "MissingMethod" ELSE "ok"
  /\ UNCHANGED <<entries, damaged, tokens, scan, key, namespace, method>>

AttributeNext == ReadKey \/ skip_until_equal \/ parse_string_literal \/ parse_attr_tokens

AttributeSpec == AttributeInit /\ [][AttributeNext]_attributeVars

-----------------------------------------------------------------------------
\* The value of the last entry with this key, "None" if there is none.
LastOf(k) ==
  LET mine == {i \in DOMAIN entries : entries[i].key = k}
  IN  IF mine = {} THEN "None" ELSE entries[CHOOSE i \in mine : \A j \in mine : j <= i].value

\* An attribute is read back as it was written, in any order of its entries, with keys the
\* macro does not know between them, and with the last of two entries for one key: this is
\* the method name a handler is registered under.  (With a token missing it may also be
\* read as something else: skip_until_equal passes over the next entry to find its `=`.)
AttributeReadBack ==
  parsed # "none" /\ ~damaged =>
    /\ namespace = LastOf("namespace") /\ method = LastOf("method")
    /\ parsed = (IF namespace = "None" THEN "MissingNamespace"
                 ELSE IF method = "None" THEN "MissingMethod" ELSE "ok")
=============================================================================
