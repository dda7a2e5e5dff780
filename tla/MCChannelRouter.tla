-------------------------- MODULE MCChannelRouter --------------------------
(***************************************************************************)
(* Two requests from two channels, two results per task: nothing, a text,  *)
(* an image for the channel that asked, and messages for the other four    *)
(* adapters: one is refused, one uploads, one replaces its text by a card, *)
(* one posts a text in place of its image.                                 *)
(***************************************************************************)
EXTENDS ChannelRouter, TLC

CONSTANTS r1, r2

MCOrigin == r1 :> "feishu_app" @@ r2 :> "wecom_robot"
MCServed == r1 :> "feishu_app"

Image == [PlainText EXCEPT !.type = "image", !.kind = "image", !.source = "content"]

AllOutputs ==
  {Empty, Text, Message(Blank, Image), Message("dingtalk_robot", Image),
   Message("wecom", Image), Message("dingtalk_app", PlainText), Message("feishu_bot", Image)}
TextOnly == {Text}
=============================================================================
