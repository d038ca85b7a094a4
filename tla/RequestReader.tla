---------------------------- MODULE RequestReader ----------------------------
(***************************************************************************)
(* How apply_requests gets its requests out of the input file: line by     *)
(* line with fgets, the parts of a request being found by their quotes,    *)
(* and the content of an EDIT over as many lines as it takes.              *)
(*                                                                         *)
(* The file is a sequence of symbols.  A request word, a name and a number *)
(* are one symbol each, as nothing depends on their length; a content is   *)
(* character by character, since the buffers end somewhere in it.  Indexes *)
(* into a buffer start at 0 and may be -1, as in the code.  What the       *)
(* requests do once they are read is the subject of DistributedDatabase.   *)
(***************************************************************************)
EXTENDS Integers, Sequences, SequencesExt, FiniteSetsExt

CONSTANTS
    Requests,       \* the requests a file may contain
    LastRequests,   \* and those that its last one is among
    MaxRequests,    \* bound: how many it contains at most
    NegativeSize,   \* the sizes that atoi reads as a number below 0
    ContentLength,  \* DOC_CONTENT_LENGTH
    RequestLength   \* REQUEST_LENGTH

VARIABLES
    written,        \* the requests in the file
    requestsNum,    \* requests_num, from its first line
    input,          \* the part of the file that has not been read
    phase,          \* where the program is, or the message with which it died
    content,        \* *maybe_doc_content and, with it, the name
    wordStart,      \* word_start
    delivered       \* the requests that apply_requests has carried out

readerVars == <<written, requestsNum, input, phase, content, wordStart, delivered>>

Space == " "
Quote == "'"
Newline == "/"

Edit(name, text) == [type |-> "EDIT", name |-> name, content |-> text]
Get(name) == [type |-> "GET", name |-> name]
AddId(id, size) == [type |-> "ADD_SERVER", id |-> id, size |-> size]
RemoveId(id) == [type |-> "REMOVE_SERVER", id |-> id]

\* The line or lines of a request, as the client writes them.
Lines(r) ==
    CASE r.type = "EDIT" ->
            <<r.type, Space, Quote, r.name, Quote, Space, Quote>> \o r.content \o <<Quote, Newline>>
      [] r.type = "GET" -> <<r.type, Space, Quote, r.name, Quote, Newline>>
      [] r.type = "ADD_SERVER" -> <<r.type, Space, r.id, Space, r.size, Newline>>
      [] r.type = "REMOVE_SERVER" -> <<r.type, Space, r.id, Newline>>

(***************************************************************************)
(* The contents that the buffers have room for.  On one line, the space,   *)
(* the two quotes and the content have to be within the characters that    *)
(* are searched; the last of several lines has to be read together with    *)
(* its quote and its newline.                                              *)
(***************************************************************************)
LastLine(text) == Len(text) - SelectLastInSeq(text, LAMBDA c : c = Newline)

Fits(text) == LastLine(text) <= IF Contains(text, Newline) THEN ContentLength - 2 ELSE ContentLength - 3

\* One symbol more than fits on the line of the EDIT or on the last one.
AlmostFits(text) == LastLine(text) <= IF Contains(text, Newline) THEN ContentLength - 1 ELSE ContentLength - 2

\* A request as the client writes it: with a content that the buffer has room
\* for, and nothing in a part of it that ends this part.
WellFormed(r) ==
    CASE r.type = "EDIT" ->
            /\ r = Edit(r.name, r.content)
            /\ r.name \in STRING \ {Quote, Newline}
            /\ r.content \in Seq(STRING \ {Quote}) /\ Len(r.content) <= ContentLength
      [] r.type = "GET" -> r = Get(r.name) /\ r.name \in STRING \ {Quote, Newline}
      [] r.type = "ADD_SERVER" -> r = AddId(r.id, r.size) /\ {r.id, r.size} \subseteq STRING \ {Space, Newline}
      [] r.type = "REMOVE_SERVER" -> r = RemoveId(r.id) /\ r.id \in STRING \ {Newline}
      [] OTHER -> FALSE

\* A request that apply_requests does not carry out once it has read it.
HasNegativeSize(r) == r.type = "ADD_SERVER" /\ r.size \in NegativeSize

\* The first line of an EDIT fits its buffer: REQUEST_LENGTH has 64 characters
\* for the word and the quotes, and 64 for the name.  The content of a request
\* that does not fit is followed by nothing.
ASSUME ReaderConstants ==
    /\ MaxRequests \in Nat /\ ContentLength \in Nat /\ RequestLength \in Nat
    /\ ContentLength >= 2 /\ RequestLength >= ContentLength + 9
    /\ \A r \in Requests : WellFormed(r) /\ (r.type = "EDIT" => Fits(r.content))
    /\ \A r \in LastRequests : WellFormed(r) /\ (r.type = "EDIT" => AlmostFits(r.content))

NoEdit == [name |-> "", text |-> << >>]

Init ==
    /\ written \in {<< >>} \union
            {Append(w, r) : w \in UNION {[1 .. n -> Requests] : n \in 0 .. MaxRequests - 1}, r \in LastRequests}
    /\ requestsNum \in 0 .. MaxRequests + 1
    /\ input = FlattenSeq([i \in DOMAIN written |-> Lines(written[i])])
    /\ phase = "request"
    /\ content = NoEdit
    /\ wordStart = -1
    /\ delivered = << >>

\* Fault: room is kept for a terminating 0 that fgets counts already.
LineShort(n) ==
    LET end == SelectInSeq(input, LAMBDA c : c = Newline)
    IN  SubSeq(input, 1, IF end \in 1 .. n - 1 THEN end ELSE Min({n - 1, Len(input)}))

\* What fgets returns with a buffer for n characters: up to a newline.
Line(n) ==
    LET end == SelectInSeq(input, LAMBDA c : c = Newline)
    IN  SubSeq(input, 1, IF end \in 1 .. n THEN end ELSE Min({n, Len(input)}))

Behind(line) == SubSeq(input, Len(line) + 1, Len(input))

FirstOf(indexes) == IF indexes = {} THEN -1 ELSE Min(indexes)

QuotesIn(buffer, length) == {i \in 0 .. length - 1 : i < Len(buffer) /\ buffer[i + 1] = Quote}

\* Fault: every line is searched for two quotes.
ReadQuotedAnew(buffer, length, start) ==
    LET first == FirstOf(QuotesIn(buffer, length))
    IN  [start |-> first, end |-> FirstOf(QuotesIn(buffer, length) \ {first})]

\* read_quoted_string: a start that is known already is kept, and the first
\* quote is then the end.
ReadQuoted(buffer, length, start) ==
    LET quotes == QuotesIn(buffer, length)
        first == IF start = -1 THEN FirstOf(quotes) ELSE start
    IN  [start |-> first, end |-> FirstOf(IF start = -1 THEN quotes \ {first} ELSE quotes)]

\* The symbols between the indexes from and to, both exclusive.
Between(buffer, from, to) == SubSeq(buffer, from + 2, to)
-----------------------------------------------------------------------------
MoreToRead == phase = "request" /\ Len(delivered) < requestsNum

\* get_request_type looks at the beginning of the line.
Reads(type) == MoreToRead /\ input # << >> /\ Head(input) = type

Deliver(r) ==
    /\ delivered' = Append(delivered, r)
    /\ phase' = "request"
    /\ content' = NoEdit
    /\ wordStart' = -1

\* atoi at the number behind the word, and at the one behind the next space.
SizeIn(line) == line[SelectInSeq(SubSeq(line, 3, Len(line)), LAMBDA c : c = Space) + 3]

ReadAdd ==
    /\ Reads("ADD_SERVER")
    /\ \E line \in {Line(RequestLength)} :
        /\ SizeIn(line) \notin NegativeSize
        /\ Deliver(AddId(line[3], SizeIn(line)))
        /\ input' = Behind(line)
    /\ UNCHANGED <<written, requestsNum>>

\* apply_requests has read the line, and adds no server of a negative size.
RefuseSize ==
    /\ Reads("ADD_SERVER")
    /\ \E line \in {Line(RequestLength)} :
        /\ SizeIn(line) \in NegativeSize
        /\ input' = Behind(line)
    /\ phase' = "cache size must be positive"
    /\ UNCHANGED <<written, requestsNum, content, wordStart, delivered>>

ReadRemove ==
    /\ Reads("REMOVE_SERVER")
    /\ \E line \in {Line(RequestLength)} :
        /\ Deliver(RemoveId(line[3]))
        /\ input' = Behind(line)
    /\ UNCHANGED <<written, requestsNum>>

NameIn(line, word) == Between(line, word.start, word.end)[1]

ReadGet ==
    /\ Reads("GET")
    /\ \E line \in {Line(RequestLength)} :
        /\ Deliver(Get(NameIn(line, ReadQuoted(line, RequestLength, -1))))
        /\ input' = Behind(line)
    /\ UNCHANGED <<written, requestsNum>>

(***************************************************************************)
(* The content starts on the line of the EDIT, behind the name: tmp_buffer *)
(* is the rest of the line, and it is searched for DOC_CONTENT_LENGTH      *)
(* characters.  If both quotes are found the request is complete.          *)
(***************************************************************************)
EditIn(line) ==
    LET word == ReadQuoted(line, RequestLength, -1)
        tmp == SubSeq(line, word.end + 2, Len(line))
        text == ReadQuoted(tmp, ContentLength, -1)
    IN  [name |-> NameIn(line, word),
         text |-> Between(tmp, text.start, IF text.end = -1 THEN Len(tmp) ELSE text.end),
         start |-> text.start,
         complete |-> text.end # -1]

ReadEdit ==
    /\ Reads("EDIT")
    /\ \E line \in {Line(RequestLength)} : \E edit \in {EditIn(line)} :
        /\ input' = Behind(line)
        /\ \/ edit.complete /\ Deliver(Edit(edit.name, edit.text))
           \/ /\ ~ edit.complete
              /\ phase' = "content"
              /\ content' = [name |-> edit.name, text |-> edit.text]
              /\ wordStart' = edit.start
              /\ UNCHANGED delivered
    /\ UNCHANGED <<written, requestsNum>>

\* Another line of the content, up to its first quote if it has one.
ContinueContent ==
    /\ phase = "content" /\ input # << >>
    /\ \E line \in {Line(ContentLength)} : \E word \in {ReadQuoted(line, ContentLength, wordStart)} :
        /\ input' = Behind(line)
        /\ \/ /\ word.end # -1
              /\ Deliver(Edit(content.name, content.text \o SubSeq(line, 1, word.end)))
           \/ /\ word.end = -1
              /\ content' = [content EXCEPT !.text = @ \o line]
              /\ wordStart' = word.start
              /\ UNCHANGED <<phase, delivered>>
    /\ UNCHANGED <<written, requestsNum>>

Die(message) ==
    /\ phase' = message
    /\ UNCHANGED <<written, requestsNum, input, content, wordStart, delivered>>

UnknownRequest ==
    /\ MoreToRead /\ input # << >>
    /\ Head(input) \notin {"ADD_SERVER", "REMOVE_SERVER", "GET", "EDIT"}
    /\ Die("unknown request type")

EndOfFile ==
    /\ MoreToRead /\ input = << >>
    /\ Die("insufficient requests")

EndOfFileInContent ==
    /\ phase = "content" /\ input = << >>
    /\ Die("not properly quoted")

\* The loop of apply_requests is over.
Return ==
    /\ phase = "request" /\ Len(delivered) = requestsNum
    /\ Die("done")

\* The process has ended.
Ended ==
    /\ phase \notin {"request", "content"}
    /\ UNCHANGED readerVars

Next ==
    \/ ReadAdd \/ RefuseSize \/ ReadRemove \/ ReadGet \/ ReadEdit \/ ContinueContent
    \/ UnknownRequest \/ EndOfFile \/ EndOfFileInContent
    \/ Return \/ Ended

Spec == Init /\ [][Next]_readerVars
-----------------------------------------------------------------------------
\* DeliversWhatIsWritten: the requests carried out are those of the file, in
\* its order and with their names and contents, however the contents are spread
\* over lines.
DeliversWhatIsWritten == IsPrefix(delivered, written)

AllFit == \A i \in DOMAIN written : written[i].type = "EDIT" => Fits(written[i].content)

\* DiesWithReason: a file whose contents fit is refused for one of two reasons
\* only.  Either it announces more requests than it contains, and then all of
\* them have been carried out; or the first request that has not been carried
\* out adds a server with a negative size.
DiesWithReason ==
    phase \notin {"request", "content", "done"} /\ AllFit =>
        \/ /\ phase = "insufficient requests"
           /\ requestsNum > Len(written) /\ delivered = written
        \/ /\ phase = "cache size must be positive"
           /\ Len(delivered) < Len(written) /\ HasNegativeSize(written[Len(delivered) + 1])

\* DiesOnlyIfUnquoted: "document content is not properly quoted" is said of no
\* file in which every content has both its quotes and is no longer than
\* DOC_CONTENT_LENGTH.
DiesOnlyIfUnquoted == phase # "not properly quoted"
=============================================================================
