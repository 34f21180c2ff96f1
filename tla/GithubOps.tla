------------------------------- MODULE GithubOps -------------------------------
(***************************************************************************)
(* What the primitive kvendra.github does at GitHub and what it answers    *)
(* (src/primitives/github.rs): one request for most operations, a request  *)
(* per page for list_issues, a read and a write for add_topics, while      *)
(* others work on the same repository and requests fail or get lost.       *)
(*                                                                         *)
(* Which repository a call may name is in AllowlistRules. Texts are a      *)
(* plain one and one that holds a credential; a topic that is no string is *)
(* NonTopic.                                                              *)
(***************************************************************************)
EXTENDS Integers, Sequences, SequencesExt, FiniteSets

CONSTANTS PER_PAGE,      \* issues of a full page
          DEFAULT_PAGES, \* when the call does not say
          MAX_PAGES,     \* whatever the call says
          U32,           \* the number of values of the type it is cast to
          AskedPages,    \* the numbers a call may ask for
          Issue, Topic, NonTopic,
          Texts, Secret, Scrubbed, \* the credential among the texts, and redacted
          MaxOthers      \* what others do to the repository

ASSUME GithubConstants ==
  /\ PER_PAGE \in Nat \ {0} /\ U32 \in Nat \ {0}
  /\ {DEFAULT_PAGES, MAX_PAGES} \cup AskedPages \subseteq Nat
  /\ NonTopic \notin Topic /\ Scrubbed # Secret

VARIABLES ghstage, \* of the call: "idle", "page", "get", "put", "send", "done"
          ordered,   \* [name, args] of the call
          issues,  \* the open issues at GitHub, in the order it lists them
          topics,  \* the topics at GitHub
          posted,  \* the last body GitHub has acted upon, <<>> for none
          page,    \* of list_issues: [number, last]
          read,    \* what the call has read so far
          answer,  \* [kind, success, truncated]
          others,  \* what others have done since the call began to read:
                   \* [closed, opened, topics], the issues and whether to topics
          had,     \* the topics at GitHub when the call read them
          garbled  \* a body could not be read as JSON

hvars == <<ghstage, ordered, issues, topics, posted, page, read, answer, others, had, garbled>>

NoAnswer == [kind |-> "none", success |-> FALSE, truncated |-> FALSE]
NoPage == [number |-> 0, last |-> 0]
NoOp == [name |-> "none", args |-> <<>>]
Quiet == [closed |-> {}, opened |-> {}, topics |-> FALSE]

GithubInit ==
  /\ ghstage = "idle" /\ ordered = NoOp
  /\ \E n \in 0..Cardinality(Issue) : issues = [i \in 1..n |-> i]
  /\ topics \in {<<>>} \cup {<<t>> : t \in Topic}
  /\ posted = <<>> /\ page = NoPage /\ read = <<>> /\ answer = NoAnswer
  /\ others = Quiet /\ had = <<>> /\ garbled = FALSE

(* The fields a body takes from the arguments, and those it cannot do        *)
(* without; a number names the issue and is not in the body.                 *)
Fields == [update_repo  |-> {"description", "homepage", "private", "default_branch"},
           release      |-> {"tag_name", "name", "body", "draft", "prerelease", "target_commitish"},
           update_issue |-> {"title", "body", "state", "labels", "assignees"},
           create_issue |-> {"title", "body", "labels", "assignees", "milestone"},
           read_repo    |-> {}, read_issue |-> {}]
Needed == [update_repo |-> {}, release |-> {"tag_name"}, update_issue |-> {"number"},
             create_issue |-> {"title"}, read_repo |-> {}, read_issue |-> {"number"},
             list_issues |-> {}, add_topics |-> {"topics"}]
Reads == {"read_repo", "read_issue"}

sanitize_value(f) == [x \in DOMAIN f |-> IF f[x] = Secret THEN Scrubbed ELSE f[x]]

(* A release without a title is called like its tag; only a new issue is     *)
(* redacted before it is posted.                                             *)
Body(o) ==
  LET given == [x \in Fields[o.name] \cap DOMAIN o.args |-> o.args[x]]
  IN  CASE o.name = "release" /\ "name" \notin DOMAIN given ->
             [x \in DOMAIN given \cup {"name"} |-> IF x = "name" THEN given.tag_name ELSE given[x]]
        [] o.name = "create_issue" -> sanitize_value(given)
        [] OTHER -> given

(* max_pages: cast to 32 bits first, then bounded.                           *)
PagesAsked(args) ==
  LET m == IF "max_pages" \in DOMAIN args THEN args.max_pages % U32 ELSE DEFAULT_PAGES
  IN  IF m < MAX_PAGES THEN m ELSE MAX_PAGES

Ends(kind, success, truncated) ==
  /\ answer' = [kind |-> kind, success |-> success, truncated |-> truncated]
  /\ ghstage' = "done"

-------------------------------------------------------------------------------
(* The call. *)

Invoke(o) ==
  /\ ghstage = "idle" /\ ordered' = o
  /\ IF o.name \notin DOMAIN Needed \/ ~(Needed[o.name] \subseteq DOMAIN o.args)
     THEN Ends("invalid_args", FALSE, FALSE) /\ UNCHANGED page
     ELSE CASE o.name = "list_issues" ->
                 LET last == PagesAsked(o.args)
                 IN  /\ page' = [number |-> 1, last |-> last]
                     /\ IF last = 0 THEN Ends("answered", TRUE, FALSE)
                        ELSE ghstage' = "page" /\ UNCHANGED answer
            [] o.name = "add_topics" -> ghstage' = "get" /\ UNCHANGED <<page, answer>>
            [] OTHER -> ghstage' = "send" /\ UNCHANGED <<page, answer>>
  /\ UNCHANGED <<issues, topics, posted, read, others, had, garbled>>

(* A request that is lost before it arrives, or whose answer is.             *)
Lost ==
  /\ ghstage \in {"page", "get", "put", "send"}
  /\ Ends("error", FALSE, FALSE)
  /\ \/ UNCHANGED <<topics, posted>>
     \/ ghstage = "send" /\ ordered.name \notin Reads /\ posted' = Body(ordered) /\ UNCHANGED topics
     \/ ghstage = "put" /\ topics' = read /\ UNCHANGED posted
  /\ UNCHANGED <<ordered, issues, page, read, others, had, garbled>>

(* GitHub answers with another status than success: what list_issues has     *)
(* read so far is answered with it.                                          *)
Refused ==
  /\ ghstage \in {"page", "get", "put", "send"}
  /\ Ends("answered", FALSE, FALSE)
  /\ UNCHANGED <<ordered, issues, topics, posted, page, read, others, had, garbled>>

Send ==
  /\ ghstage = "send"
  /\ posted' = IF ordered.name \in Reads THEN posted ELSE Body(ordered)
  /\ Ends("answered", TRUE, FALSE)
  /\ UNCHANGED <<ordered, issues, topics, page, read, others, had, garbled>>

PageOf(n) == SubSeq(issues, (n - 1) * PER_PAGE + 1,
                    IF n * PER_PAGE < Len(issues) THEN n * PER_PAGE ELSE Len(issues))

(* Variant: one page more than the last is taken for the full one.           *)
TruncatedAtPast(len) == page.number > page.last /\ len = PER_PAGE

TruncatedAt(len) == page.number = page.last /\ len = PER_PAGE

(* A body that cannot be read counts as a page without issues.               *)
GetPage(readable) ==
  /\ ghstage = "page"
  /\ LET got == IF readable THEN PageOf(page.number) ELSE <<>>
     IN  /\ read' = read \o got
         /\ IF Len(got) < PER_PAGE \/ page.number = page.last
            THEN Ends("answered", TRUE, TruncatedAt(Len(got))) /\ UNCHANGED page
            ELSE page' = [page EXCEPT !.number = @ + 1] /\ UNCHANGED <<ghstage, answer>>
  /\ garbled' = (garbled \/ ~readable)
  /\ UNCHANGED <<ordered, issues, topics, posted, others, had>>

Noted(out, t) == IF t = NonTopic \/ t \in Range(out) THEN out ELSE Append(out, t)
merge_topics_unique(existing, new) ==
  LET all == existing \o new
      out[i \in 0..Len(all)] == IF i = 0 THEN <<>> ELSE Noted(out[i - 1], all[i])
  IN  out[Len(all)]

(* A body that cannot be read counts as a repository without topics.         *)
GetTopics(readable) ==
  /\ ghstage = "get"
  /\ read' = merge_topics_unique(IF readable THEN topics ELSE <<>>, ordered.args.topics)
  /\ had' = topics
  /\ ghstage' = "put" /\ garbled' = ~readable
  /\ UNCHANGED <<ordered, issues, topics, posted, page, answer, others>>

(* GitHub replaces the whole list.                                           *)
PutTopics ==
  /\ ghstage = "put" /\ topics' = read
  /\ Ends("answered", TRUE, FALSE)
  /\ UNCHANGED <<ordered, issues, posted, page, read, others, had, garbled>>

-------------------------------------------------------------------------------
(* Others, between two requests of the call: an issue is closed or opened,   *)
(* which moves those behind it to other pages, or the topics are changed.    *)

Count == Cardinality(others.closed) + Cardinality(others.opened)
Begun == ghstage = "page" /\ page.number > 1

OthersClose(n) ==
  /\ Begun /\ Count < MaxOthers /\ n \in Range(issues)
  /\ issues' = SelectSeq(issues, LAMBDA m : m # n)
  /\ others' = [others EXCEPT !.closed = @ \cup {n}]
  /\ UNCHANGED <<ghstage, ordered, topics, posted, page, read, answer, had, garbled>>

OthersOpen(n) ==
  /\ Begun /\ Count < MaxOthers /\ n \notin Range(issues)
  /\ issues' = <<n>> \o issues
  /\ others' = [others EXCEPT !.opened = @ \cup {n}]
  /\ UNCHANGED <<ghstage, ordered, topics, posted, page, read, answer, had, garbled>>

OthersTopics(t) ==
  /\ ghstage = "put" /\ ~others.topics
  /\ topics' = IF Contains(topics, t) THEN SelectSeq(topics, LAMBDA u : u # t) ELSE Append(topics, t)
  /\ others' = [others EXCEPT !.topics = TRUE]
  /\ UNCHANGED <<ghstage, ordered, issues, posted, page, read, answer, had, garbled>>

(* The calls of the instance: those of one request with and without what     *)
(* they need, a listing of each size, topics some of which are there.        *)
Filled(d, text) == [x \in d |-> text]
GithubCalls ==
  {[name |-> n, args |-> Filled(d, t)] : n \in DOMAIN Fields, t \in Texts,
     d \in {{}, {"number", "title", "tag_name", "body"}, {"title", "state", "tag_name", "name"}}}
  \cup {[name |-> "list_issues", args |-> a] :
          a \in {[max_pages |-> n] : n \in AskedPages} \cup {<<>>}}
  \cup {[name |-> "add_topics", args |-> a] :
          a \in {[topics |-> <<s, t>>] : s \in Topic \cup {NonTopic}, t \in Topic} \cup {<<>>}}
  \cup {[name |-> "delete_repo", args |-> <<>>]}

GithubNext ==
  \/ \E o \in GithubCalls : Invoke(o)
  \/ Lost \/ Refused \/ Send \/ PutTopics
  \/ \E readable \in BOOLEAN : GetPage(readable) \/ GetTopics(readable)
  \/ \E n \in Issue : OthersClose(n) \/ OthersOpen(n)
  \/ \E t \in Topic : OthersTopics(t)

-------------------------------------------------------------------------------
(* Properties.                                                             *)

(* list_issues, "truncated": an answer that does not say so holds every      *)
(* issue open from the first page to the last, unless one was closed while   *)
(* it was read and those behind it moved up, a page could not be read, or    *)
(* the call asked for no page at all; and each once, when none was opened.   *)
ListedWhole ==
  LET whole == answer.success /\ ~answer.truncated /\ ~garbled /\ page.last > 0
  IN  ordered.name = "list_issues" /\ whole /\ others.closed = {} =>
        /\ Range(issues) \ others.opened \subseteq Range(read)
        /\ others.opened = {} => read = issues

(* "add_topics must append, not replace" (the comment at github.rs:404-407): *)
(* what was there when the call read is there when it has succeeded, unless  *)
(* the body could not be read, and what others change before the write is    *)
(* all that can be undone.                                                   *)
TopicsAppended ==
  ordered.name = "add_topics" /\ answer.success =>
    /\ Range(ordered.args.topics) \ {NonTopic} \subseteq Range(topics)
    /\ ~garbled => Range(had) \subseteq Range(topics)
    /\ Cardinality(Range(topics)) = Len(topics)

(* What an operation claims is done: success for a change only when GitHub   *)
(* has made it, a refusal only when it has not, while an answer that was     *)
(* lost says neither; and no new issue carries a credential.                 *)
ClaimedIsDone ==
  /\ ordered.name \in DOMAIN Fields \ Reads /\ answer.kind = "answered" =>
       posted = IF answer.success THEN Body(ordered) ELSE <<>>
  /\ answer.kind = "invalid_args" => posted = <<>>
  /\ ordered.name = "create_issue" => Secret \notin Range(posted)

AnswersTrue == ghstage = "done" => ListedWhole /\ TopicsAppended /\ ClaimedIsDone
===============================================================================
