----------------------------- MODULE ReplyPlan -----------------------------
(***************************************************************************)
(* What the adapters make of a reply before they talk to their service:    *)
(* the form it is posted in, and whether media has to be uploaded first    *)
(* (the Send and payload builders under internal/gateway).  A reply is     *)
(* reduced to what the builders look at:                                   *)
(*   card      "none", one that names a card template, one that names a    *)
(*             message type, or any other                                  *)
(*   type      MessageType; "other" for unset and for types no builder     *)
(*             mentions                                                    *)
(*   markdown  Format is FormatMarkdown                                    *)
(*   kind      the kind of the first media item, "none" without media      *)
(*   source    what that item holds: the service's id, its content, or     *)
(*             neither in usable form                                      *)
(*   articles  there are articles                                          *)
(***************************************************************************)
CONSTANT DefaultTemplate  \* DINGTALK_APP_CARD_TEMPLATE_ID is set

ASSUME TemplateAssumption == DefaultTemplate \in BOOLEAN

Medium == {"image", "audio", "video", "file"}

Reply == [card : {"none", "template", "typed", "bare"},
          type : Medium \cup {"text", "markdown", "news", "other"},
          markdown : BOOLEAN,
          kind : Medium \cup {"none"},
          source : {"id", "content", "broken"},
          articles : BOOLEAN]

\* A plain result, as decodeGatewayResponse wraps it.
PlainText ==
  [card |-> "none", type |-> "text", markdown |-> FALSE,
   kind |-> "none", source |-> "broken", articles |-> FALSE]

Refused == [form |-> "none", upload |-> FALSE]
Posted(form) == [form |-> form, upload |-> FALSE]

\* The form of a reply: its type when the adapter honours it, else what its
\* format, its media and its articles suggest.
EffectiveType(m, types, kinds) ==
  IF m.type \in types THEN m.type
  ELSE IF m.markdown THEN "markdown"
  ELSE IF m.kind \in kinds THEN m.kind
  ELSE IF m.articles /\ "news" \in types THEN "news"
  ELSE "text"

\* A text in markdown format is a markdown message to most adapters.
PlainTypes(m) == IF m.markdown THEN {} ELSE {"text"}

\* Media known to the service is named, other media uploaded.
WithMedia(m, form) ==
  IF m.kind = "none" \/ m.source = "broken" THEN Refused
  ELSE [form |-> form, upload |-> m.source = "content"]

ByType(m, form) == IF form \in Medium THEN WithMedia(m, form) ELSE Posted(form)

WeComPlan(m) ==
  ByType(m, EffectiveType(m, Medium \cup {"markdown", "news"} \cup PlainTypes(m), Medium))

\* A template, its own or the configured one, makes any reply a card.
InteractiveCard(m) == DefaultTemplate \/ m.card = "template"
LegacyCard(m) == m.card = "typed"

DingTalkAppPlan(m) ==
  IF InteractiveCard(m) \/ LegacyCard(m) THEN Posted("card")
  ELSE ByType(m, EffectiveType(m, Medium \cup {"markdown"} \cup PlainTypes(m), Medium))

\* Images travel inside the message, files are uploaded; ids are not used.
WeComRobotPlan(m) ==
  LET form == EffectiveType(m, {"text", "markdown", "image", "file", "news"}, {"image", "file"})
  IN  IF form \notin Medium THEN Posted(form)
      ELSE IF m.kind = "none" \/ m.source # "content" THEN Refused
      ELSE [form |-> form, upload |-> form = "file"]

DingTalkRobotPlan(m) ==
  LET form == EffectiveType(m, Medium \cup {"markdown"} \cup PlainTypes(m), {})
  IN  IF m.card = "typed" THEN Posted("card")
      ELSE IF m.card # "none" \/ form \in Medium THEN Refused
      ELSE Posted(form)

FeishuAppPlan(m) ==
  LET wants(form) == m.type = form \/ m.kind = form
  IN  IF m.card # "none" THEN Posted("card")
      ELSE IF m.type = "markdown" \/ m.markdown THEN Posted("markdown")
      ELSE IF wants("image") THEN WithMedia(m, "image")
      ELSE IF wants("file") THEN WithMedia(m, "file")
      ELSE Posted("text")

\* Media is left out, whatever the reply says it is.
FeishuBotPlan(m) ==
  IF m.card # "none" THEN Posted("card")
  ELSE IF m.type = "markdown" \/ m.markdown THEN Posted("markdown")
  ELSE Posted("text")

\* The adapters cmd/gateway registers, by name.
AdapterName ==
  {"wecom", "wecom_robot", "feishu_app", "feishu_bot", "dingtalk_app", "dingtalk_robot"}

Plan(name, m) ==
  CASE name = "wecom"          -> WeComPlan(m)
    [] name = "wecom_robot"    -> WeComRobotPlan(m)
    [] name = "feishu_app"     -> FeishuAppPlan(m)
    [] name = "feishu_bot"     -> FeishuBotPlan(m)
    [] name = "dingtalk_app"   -> DingTalkAppPlan(m)
    [] name = "dingtalk_robot" -> DingTalkRobotPlan(m)
=============================================================================
