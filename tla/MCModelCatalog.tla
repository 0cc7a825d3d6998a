------------------------------ MODULE MCModelCatalog ------------------------------
(* Instances of ModelCatalog for TLC: connect commands for a vendor, for Cloudflare, *)
(* whose base URL is a template and whose operation has its own, for a CLI and for a  *)
(* custom surface, with and without what they need.                                  *)
EXTENDS ModelCatalog, FiniteSets

CONSTANTS RefA, RefB

Vendor == [host |-> "vendor", path |-> <<"v1">>]
Own == [host |-> "own", path |-> <<"ai", "v1">>]

Template == [host |-> "cloudflare", path |-> <<Field, "ai", "v1">>]
Filled == [Template EXCEPT !.path[1] = "acc"]

MCSurfaces ==
    [id \in {"vendor", "gemini", "cloudflare-workers-ai", "oauth", "custom.api"} |->
        [probe |-> "", cli |-> IF id = "oauth" THEN "cli" ELSE "",
         endpoints |->
            CASE id = "vendor" -> <<[protocol |-> "", base |-> Own],
                                    [protocol |-> "openai-compatible", base |-> Vendor]>>
              [] id = "gemini" -> <<[protocol |-> "gemini", base |-> Vendor]>>
              [] id = "cloudflare-workers-ai" ->
                    <<[protocol |-> "openai-compatible", base |-> Template]>>
              [] id \in {"oauth", "custom.api"} -> <<>>]]

Bound == << <<>>, <<[id |-> <<"a">>, ref |-> RefA]>>,
            <<[id |-> <<"b">>, ref |-> RefB], [id |-> <<"a">>, ref |-> NoRef]>>,
            <<[id |-> <<"a">>, ref |-> RefA], [id |-> <<"c">>, ref |-> NoRef],
              [id |-> <<"b">>, ref |-> RefB]>> >>

MCCommands ==
    {[method |-> method, surface |-> surface, base |-> base, protocol |-> protocol,
      credential |-> "k", models |-> models] :
        method \in {"apiKey", "oauth"}, surface \in DOMAIN MCSurfaces \cup {"unknown"},
        base \in {NoURL, Vendor, Own, Template, Filled},
        protocol \in {"", "openai-compatible", "gemini"}, models \in ToSet(Bound)}

NoName == [id |-> <<>>, name |-> <<>>, model |-> <<>>, slug |-> <<>>]

OpenAIItems == {NoName, [NoName EXCEPT !.id = <<"a">>],
                [NoName EXCEPT !.id = <<"models", "a">>, !.name = <<"b">>],
                [NoName EXCEPT !.name = <<"b">>], [NoName EXCEPT !.slug = <<"c">>]}

GeminiItems == {[base |-> base, name |-> name] :
                  base \in {<<>>, <<"a">>}, name \in {<<>>, <<"models", "a">>, <<"models", "b">>, <<"c">>}}

MCReplies ==
    [openAIModels |-> {[data |-> data, models |-> models, result |-> result] :
                          data \in BoundedSeq(OpenAIItems, 2), models \in BoundedSeq(OpenAIItems, 1),
                          result \in BoundedSeq(OpenAIItems, 1)},
     geminiModels |-> {[models |-> models] : models \in BoundedSeq(GeminiItems, 2)}]
===================================================================================
