----------------------------- MODULE PrefixKey -----------------------------
(***************************************************************************)
(* Cache hints (cache_semantics.go): the checks of CacheOptions, and the   *)
(* key under which the prefix of a request is cached by a provider.        *)
(* NormalizeCacheOptions puts the tenant before the key of the caller, or  *)
(* before a hash of model and messages.  Strings whose characters matter   *)
(* are sequences of tokens; a hash stands for what was written to it.      *)
(***************************************************************************)
EXTENDS Integers, Sequences, SequencesExt

Blank == {" ", "\n", "\r"}

\* What of a request the hint and the key are made of.
Chars == Seq(STRING)
Part == [kind : STRING, text : Chars, mime : STRING, url : STRING, data : Chars,
         tool : Seq([id : STRING, name : STRING, args : STRING]),
         result : Seq([call : STRING, content : Chars, failed : BOOLEAN])]
Message == [role : STRING, parts : Seq(Part)]
CacheOptions == [mode : STRING, scope : STRING, ttl : Int, key : Chars]
Request == [client : Chars, ctx : Chars, model : Chars, system : Chars, msgs : Seq(Message),
            tools : BOOLEAN, choice : STRING, options : STRING, format : STRING, schema : BOOLEAN, cache : CacheOptions]

\* strings.TrimSpace.
TrimSpace(s) ==
  LET kept == {i \in DOMAIN s : s[i] \notin Blank}
  IN IF kept = {} THEN <<>>
     ELSE SubSeq(s, CHOOSE i \in kept : \A j \in kept : i <= j, CHOOSE i \in kept : \A j \in kept : j <= i)

\* A carriage return, with the newline after it, becomes a newline.
Newlines(s) ==
  FlattenSeq([i \in DOMAIN s |-> IF i > 1 /\ s[i - 1] = "\r" /\ s[i] = "\n" THEN <<>>
                                 ELSE IF s[i] = "\r" THEN <<"\n">> ELSE <<s[i]>>])
normalizeTextWhitespace(s) == TrimSpace(Newlines(s))

\* The arguments of a call, as they are written, and the JSON they are.
Raw == {"", " ", "null", "{a:1,b:2}", "{b:2,a:1}", "{a:1}", "{"}
Value(raw) == IF raw = "{b:2,a:1}" THEN "{a:1,b:2}" ELSE raw
Decodes(raw) == raw # "{"
JSONValid(raw) == raw \notin {"", " ", "{"}

\* What writePrefixHash writes.  An absent field is told from a present one.
HashArgs(raw) == IF raw \in {"", " "} THEN <<FALSE>> ELSE <<TRUE, Value(raw)>>
HashPart(p) ==
  <<p.kind, normalizeTextWhitespace(p.text), p.mime, p.url, p.data,
    [i \in DOMAIN p.tool |-> <<p.tool[i].id, p.tool[i].name, HashArgs(p.tool[i].args)>>],
    [i \in DOMAIN p.result |-> <<p.result[i].call, normalizeTextWhitespace(p.result[i].content), p.result[i].failed>>]>>

\* What writeCanonicalPrefix writes: JSON, from which empty fields are left out.
CanonicalArgs(raw) == IF raw = "" THEN <<>> ELSE IF raw = " " THEN <<"null">> ELSE <<Value(raw)>>
CanonicalPart(p) ==
  <<p.kind, IF p.text = <<>> THEN <<>> ELSE <<normalizeTextWhitespace(p.text)>>, p.mime, p.url, p.data,
    [i \in DOMAIN p.tool |-> <<p.tool[i].id, p.tool[i].name, CanonicalArgs(p.tool[i].args)>>],
    [i \in DOMAIN p.result |-> <<p.result[i].call, normalizeTextWhitespace(p.result[i].content), p.result[i].failed>>]>>

\* The system prompt is a message of its own.
SystemText(text) == [role |-> "system", parts |-> <<[kind |-> "text", text |-> text, mime |-> "", url |-> "", data |-> <<>>, tool |-> <<>>, result |-> <<>>]>>]
EffectiveMessages(req) == IF req.system = <<>> THEN req.msgs ELSE <<SystemText(req.system)>> \o req.msgs

WritePrefixHash(req) ==
  <<req.model, [i \in DOMAIN EffectiveMessages(req) |->
     LET m == EffectiveMessages(req)[i] IN <<m.role, [j \in DOMAIN m.parts |-> HashPart(m.parts[j])]>>]>>
NormalizePrefix(req) ==
  <<req.model, [i \in DOMAIN EffectiveMessages(req) |->
     LET m == EffectiveMessages(req)[i] IN <<m.role, [j \in DOMAIN m.parts |-> CanonicalPart(m.parts[j])]>>]>>
Writable(req) == \A m \in ToSet(req.msgs) : \A p \in ToSet(m.parts) : \A t \in ToSet(p.tool) : Decodes(t.args)

\* The normalizer of the runtime: none, which is the default one; a function
\* that calls its NormalizePrefix; one that finds no prefix, or fails.
derivePrefixHash(req, normalizer, tenant, model) ==
  CASE normalizer = "empty" -> <<>>
    [] normalizer = "default" -> <<tenant \o <<":">> \o model \o <<":">>, WritePrefixHash(req)>>
    [] normalizer = "func" -> <<tenant \o <<":">> \o model \o <<":">>, NormalizePrefix(req)>>
Fails(req, normalizer) == normalizer = "failing" \/ (normalizer # "empty" /\ ~Writable(req))

\* Mutant: the key may have the separator in it.
validateCacheOptions_AnyKey(opts) == opts.mode \in {"auto", "prefer", "require", "bypass"} /\ opts.scope = "prefix" /\ opts.ttl >= 0
validateCacheOptions(opts) ==
  /\ opts.mode \in {"auto", "prefer", "require", "bypass"} /\ opts.scope = "prefix" /\ opts.ttl >= 0
  /\ \A i \in DOMAIN opts.key : opts.key[i] # ":"

\* A hint, whose key is what comes before a hash, and the hash.
NoKey == <<<<>>, <<>>>>
Hint(mode, ttl, key) == [ok |-> TRUE, mode |-> mode, ttl |-> ttl, key |-> key]
Refused == [ok |-> FALSE, mode |-> "auto", ttl |-> 0, key |-> NoKey]

NormalizeCacheOptions(req, normalizer) ==
  LET opts == req.cache tenant == TrimSpace(req.client) userKey == TrimSpace(opts.key)
      model == IF TrimSpace(req.model) = <<>> THEN <<"(default)">> ELSE TrimSpace(req.model)
  IN IF ~validateCacheOptions(opts) THEN Refused
     ELSE IF opts.mode = "bypass" THEN Hint("bypass", opts.ttl, NoKey)
     ELSE IF tenant = <<>> THEN Refused
     ELSE IF userKey # <<>> THEN Hint(opts.mode, opts.ttl, <<tenant \o <<":">> \o userKey, <<>>>>)
     ELSE IF Fails(req, normalizer) THEN IF opts.mode = "require" THEN Refused ELSE Hint(opts.mode, opts.ttl, NoKey)
     ELSE LET hash == derivePrefixHash(req, normalizer, tenant, model)
          IN Hint(opts.mode, opts.ttl, IF hash = <<>> THEN NoKey ELSE <<tenant \o <<":">>, hash>>)

\* What a provider can honor, against what a require-level hint needs.
SupportsHint(caps, hint) ==
  caps.prefix /\ (hint.key # NoKey => caps.keys) /\ (hint.ttl > 0 => caps.ttl)

=============================================================================
