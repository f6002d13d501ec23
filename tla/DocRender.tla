------------------------------- MODULE DocRender -------------------------------
(***************************************************************************)
(* From Markdown to the HTML that is pasted into Google Docs               *)
(* (gdocs/render.rs, gdocs/mod.rs: convert, gdocs/diagram.rs).  The        *)
(* renderer turns the parser's events into HTML as they come, with no      *)
(* second pass; what needs Chrome gets a placeholder, which convert then   *)
(* replaces, one after the other, by a picture or by the reason why there  *)
(* is none.                                                                *)
(*                                                                         *)
(* HTML is a sequence of items: an opening or closing tag, or some content *)
(* with the number of the content it is from.  Styles, attributes and        *)
(* escapes are left out.  The parser (pulldown-cmark) is external: its     *)
(* events nest.  Raw HTML is passed through and not modelled: it may hold  *)
(* anything, a placeholder too.                                            *)
(* Bounds: MaxEvents; an image's alternative text is plain, with no        *)
(* elements in it.                                                         *)
(***************************************************************************)
EXTENDS Integers, Sequences, FiniteSets, SequencesExt

CONSTANT MaxEvents

VARIABLES
  phase,    \* "parsing", "finishing" or "done"
  chrome,   \* whether diagrams are to be rendered (Backend)
  open,     \* the parser's open elements
  events,   \* how many elements and contents there were
  contents, \* how many of them were texts, fences and images
  out,      \* the HTML
  inHead,   \* in_head: in the head of a table
  fence,    \* the open code fence: [lang, at], or NoFence
  pending,  \* what waits for Chrome: a sequence of [id, lang, at]
  measured, \* whether Chrome has told the size of the first of them
  warnings  \* the contents with a warning

renderVars ==
  <<phase, chrome, open, events, contents, out, inHead, fence, pending, measured, warnings>>

NoFence == [lang |-> "none", at |-> 0]
Item(kind, at) == [kind |-> kind, at |-> at]
Tag(kind, name) == [kind |-> kind, at |-> 0, name |-> name]

RenderInit ==
  /\ phase = "parsing" /\ chrome \in BOOLEAN
  /\ open = <<>> /\ events = 0 /\ contents = 0 /\ out = <<>>
  /\ inHead = FALSE /\ fence = NoFence /\ pending = <<>> /\ measured = FALSE
  /\ warnings = {}

Top == IF open = <<>> THEN "document" ELSE Last(open)

(* What the parser may open inside an element. *)
Inside(element) ==
  CASE element \in {"document", "quote"} -> {"p", "quote", "list", "table", "fence"}
    [] element = "item"               -> {"p", "quote", "list", "table", "fence", "em", "image"}
    [] element = "list"               -> {"item"}
    [] element = "table"              -> {"head", "row"}
    [] element \in {"head", "row"}    -> {"cell"}
    [] element \in {"p", "cell", "em"} -> {"em", "image"}
    [] OTHER                          -> {}

(* A table starts with its head. *)
MayOpen(element) ==
  /\ element \in Inside(Top)
  /\ Top = "table" => (element = "head") = (out # <<>> /\ Last(out) = Tag("open", "table"))

HtmlTag(element) ==
  CASE element = "quote" -> "blockquote"
    [] element = "list" -> "ul"
    [] element = "item" -> "li"
    [] element \in {"head", "row"} -> "tr"
    [] element = "cell" -> IF inHead THEN "th" ELSE "td"
    [] OTHER -> element

More == phase = "parsing" /\ events < MaxEvents /\ events' = events + 1
Emit(item) == out' = Append(out, item)
This == contents + 1
Counted == contents' = This

----------------------------------------------------------------------------
(* start and end, for what is an element in HTML too. *)

StartTag(element) ==
  /\ More /\ MayOpen(element) /\ UNCHANGED contents
  /\ open' = Append(open, element)
  /\ inHead' = (inHead \/ element = "head")
  /\ Emit(Tag("open", HtmlTag(element)))
  /\ UNCHANGED <<phase, chrome, fence, pending, measured, warnings>>

(* Mutant: nothing ends the head of a table. *)
StillHeadForEver(element) == inHead
StillHead(element) == inHead /\ element # "head"

EndTag(element) ==
  /\ phase = "parsing" /\ Top = element
  /\ open' = Front(open)
  /\ inHead' = StillHead(element)
  /\ Emit(Tag("close", HtmlTag(element)))
  /\ UNCHANGED <<phase, chrome, events, contents, fence, pending, measured, warnings>>

(* Text, inline code, a break or a checkbox; in a fence, code to be kept for its end. *)
Text ==
  /\ More /\ Counted /\ Top \in {"p", "item", "cell", "em", "image"}
  /\ Emit(Item("text", This))
  /\ UNCHANGED <<phase, chrome, open, inHead, fence, pending, measured, warnings>>

----------------------------------------------------------------------------
(* Code fences and images. *)

(* placeholder: its number is the place in the queue.
   Mutant: the number of the diagram, which pictures do not count for. *)
NumberOfFence == Cardinality({k \in DOMAIN pending : pending[k].lang # "svg"})
NumberOfPlaceholder == Len(pending)

(* The item of a placeholder has the placeholder's number. *)
Defer(lang, at) ==
  /\ pending' = Append(pending, [id |-> NumberOfPlaceholder, lang |-> lang, at |-> at])
  /\ Emit(Item("placeholder", NumberOfPlaceholder))
  /\ UNCHANGED warnings

Show(kind, at) == Emit(Item(kind, at)) /\ UNCHANGED <<pending, warnings>>

(* The source, or a label, and why (note). *)
Degrade(kind, at) ==
  /\ Emit(Item(kind, at))
  /\ warnings' = warnings \cup {at}
  /\ UNCHANGED pending

Langs == {"code", "mermaid", "dot"}
IsDiagram(lang) == lang # "code"
(* Chrome draws Mermaid only. *)
ShouldRender(lang) == chrome /\ lang = "mermaid"

(* render_block: with a grammar or without, the source is shown. *)
EmitCode(at) == Show("code", at)

StartFence ==
  /\ More /\ Counted /\ MayOpen("fence")
  /\ \E lang \in Langs : fence' = [lang |-> lang, at |-> This]
  /\ open' = Append(open, "fence")
  /\ UNCHANGED <<phase, chrome, out, inHead, pending, measured, warnings>>

(* flush_code. *)
EndFence ==
  /\ phase = "parsing" /\ Top = "fence"
  /\ CASE ~IsDiagram(fence.lang)   -> EmitCode(fence.at)
       [] ShouldRender(fence.lang) -> Defer(fence.lang, fence.at)
       [] OTHER                    -> Degrade("code with a note", fence.at)
  /\ open' = Front(open) /\ fence' = NoFence
  /\ UNCHANGED <<phase, chrome, events, contents, inHead, measured>>

(* What an image may name: a file that is not local or not there, an SVG, or a picture,
   which embed_raster may find unreadable, too large or of no type that it knows. *)
Targets == {"elsewhere", "svg", "picture"}
EmbedRaster(at) == Show("picture", at) \/ Degrade("label", at)

Image(target, at) ==
  CASE target = "elsewhere"         -> Degrade("label", at)
    [] target = "svg" /\ chrome     -> Defer("svg", at)
    [] target = "svg" /\ ~chrome    -> Degrade("label", at)
    [] OTHER                        -> EmbedRaster(at)

(* The alternative text follows as text. *)
StartImage ==
  /\ More /\ Counted /\ MayOpen("image")
  /\ \E target \in Targets : Image(target, This)
  /\ open' = Append(open, "image")
  /\ UNCHANGED <<phase, chrome, inHead, fence, measured>>

EndImage ==
  /\ phase = "parsing" /\ Top = "image"
  /\ open' = Front(open)
  /\ UNCHANGED <<phase, chrome, events, contents, out, inHead, fence, pending, measured, warnings>>

EndOfDocument ==
  /\ phase = "parsing" /\ open = <<>>
  /\ phase' = "finishing"
  /\ UNCHANGED <<chrome, open, events, contents, out, inHead, fence, pending, measured, warnings>>

----------------------------------------------------------------------------
(* convert: one picture after the other, each with two runs of Chrome. *)

Rendering == phase = "finishing" /\ pending # <<>>
Rendered == Head(pending)

(* Wherever the placeholder is. *)
Replaced(id, item) ==
  [k \in DOMAIN out |-> IF out[k] = Item("placeholder", id) THEN item ELSE out[k]]

Substitute(kind) ==
  /\ out' = Replaced(Rendered.id, Item(kind, Rendered.at))
  /\ pending' = Tail(pending) /\ measured' = FALSE
  /\ UNCHANGED <<phase, chrome, open, events, contents, inHead, fence>>

(* The first run lays the page out and tells its size. *)
Measure ==
  /\ Rendering /\ ~measured
  /\ measured' = TRUE
  /\ UNCHANGED <<phase, chrome, open, events, contents, out, inHead, fence, pending, warnings>>

(* The second takes a screenshot of that size. *)
Screenshot ==
  /\ Rendering /\ measured
  /\ Substitute("picture")
  /\ UNCHANGED warnings

(* The source and why, or for an SVG only why. *)
GiveUp ==
  /\ Substitute(IF Rendered.lang = "svg" THEN "note" ELSE "code with a note")
  /\ warnings' = warnings \cup {Rendered.at}

(* Chrome is not there, the page cannot be written, its size is missing or makes no sense. *)
MeasureFails == Rendering /\ ~measured /\ GiveUp

(* Chrome fails or times out, or there is no picture, or it is too large. *)
ScreenshotFails == Rendering /\ measured /\ GiveUp

Converted ==
  /\ phase = "finishing" /\ pending = <<>>
  /\ phase' = "done"
  /\ UNCHANGED <<chrome, open, events, contents, out, inHead, fence, pending, measured, warnings>>

Elements == {"p", "quote", "list", "item", "table", "head", "row", "cell", "em"}

RenderNext ==
  \/ \E element \in Elements : StartTag(element) \/ EndTag(element)
  \/ Text \/ StartFence \/ EndFence \/ StartImage \/ EndImage
  \/ EndOfDocument \/ Measure \/ Screenshot \/ MeasureFails \/ ScreenshotFails \/ Converted

RenderSpec == RenderInit /\ [][RenderNext]_renderVars

----------------------------------------------------------------------------
(* Properties. *)

(* The tags left open by some HTML; <<"wrong">> if one is closed that is not the last. *)
AfterItem(tags, item) ==
  CASE item.kind = "open"  -> Append(tags, item.name)
    [] item.kind = "close" -> IF tags # <<>> /\ Last(tags) = item.name THEN Front(tags) ELSE <<"wrong">>
    [] OTHER               -> tags
OpenTags(items) ==
  LET after[k \in 0..Len(items)] == IF k = 0 THEN <<>> ELSE AfterItem(after[k - 1], items[k])
  IN  after[Len(items)]

(* An image and a fence hold no other element, and are none in HTML. *)
OpenInHtml == IF Top \in {"image", "fence"} THEN Front(open) ELSE open

TagOf(element) ==
  IF element = "cell" THEN IF Contains(open, "head") THEN "th" ELSE "td" ELSE HtmlTag(element)

(* The tags of the HTML nest as the Markdown does at every point, so that no second pass
   has to repair it, and its cells are head cells in the head of a table only. *)
HtmlNests ==
  OpenTags(out) = [k \in DOMAIN OpenInHtml |-> TagOf(OpenInHtml[k])]

ContentKinds == {"text", "code", "picture", "label", "code with a note", "note"}
DegradedKinds == {"label", "code with a note", "note"}
IsContent(item) == item.kind \notin {"open", "close"}
Shown == {k \in DOMAIN out : IsContent(out[k])}

(* Every text, fence and image is in the document, once, in the order of the source, and
   what is not shown as it should be has a warning: "A diagram can be ugly or
   absent-with-explanation, but it can never silently vanish" (diagram.rs). *)
NothingVanishes ==
  phase = "done" =>
    /\ \A n \in 1..contents : \E k \in Shown : out[k].at = n
    /\ \A i, k \in Shown : i < k => out[i].at < out[k].at
    /\ \A k \in Shown :
         /\ out[k].kind \in ContentKinds /\ out[k].at \in 1..contents
         /\ out[k].kind \in DegradedKinds <=> out[k].at \in warnings
=============================================================================
