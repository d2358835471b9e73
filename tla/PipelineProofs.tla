--------------------------- MODULE PipelineProofs ---------------------------
(***************************************************************************)
(* Two documents in the pipeline never share a buffer, and each keeps its  *)
(* words and has a topic for each, for any corpus and any number of        *)
(* tokens; the counts follow the documents' topics; and an iteration is a  *)
(* sweep of the documents.                                                 *)
(*                                                                         *)
(* The writer is the last filter and takes the documents in order, so that *)
(* those in the pipeline are always the last ones read; they are at most   *)
(* livetokens, and a document's buffer is as far behind the reader's place *)
(* in the ring as the document is behind the last one read.  The topics    *)
(* are written in the documents' order, without the words, so that the     *)
(* next iteration reads the n-th topics for the n-th document.             *)
(*                                                                         *)
(* A document's topics are those of the file read, then those in its       *)
(* buffer, then those of the file written (TopicsInv); the changes on its  *)
(* token lead from the old to the new (ChangesInv); hence the old topic is *)
(* still counted when the updater takes it off, no update aborts, and each *)
(* step changes the count of one word at most (TableInv).                  *)
(***************************************************************************)
EXTENDS Pipeline, SumTheorems, TLAPS, FiniteSetTheorems

LEMMA DocsAre == Docs = 1..Len(Body) /\ Len(Body) \in Nat
BY PipelineAssumption DEF Docs

OtherFilters == {"reader", "optimizer", "sampler", "updater", "eval"}
NoWriter(s) == s \in Seq(OtherFilters)

LEMMA NoWriterConcat ==
  ASSUME NEW s, NEW t, NoWriter(s), NoWriter(t)
  PROVE  NoWriter(s \o t) /\ Len(s \o t) = Len(s) + Len(t)
BY DEF NoWriter

LEMMA WriterAtTheEnd ==
  ASSUME NEW s, NoWriter(s), Len(s) >= 1, NEW f, f = s \o <<"writer">>
  PROVE  /\ Len(f) \in Nat /\ Len(f) >= 2
         /\ \A i \in 1..Len(f) : f[i] = "writer" <=> i = Len(f)
<1>1. /\ Len(f) = Len(s) + 1 /\ f[Len(f)] = "writer"
      /\ \A i \in 1..Len(s) : f[i] = s[i]
  BY DEF NoWriter
<1>2. \A i \in 1..Len(s) : s[i] \in OtherFilters
  BY DEF NoWriter
<1> QED  BY <1>1, <1>2 DEF NoWriter, OtherFilters

\* The writer is the last filter, and the others are not.
LEMMA WriterIsLast ==
  /\ Len(Filters) \in Nat /\ Len(Filters) >= 2
  /\ \A i \in 1..Len(Filters) : Filters[i] = "writer" <=> i = Len(Filters)
<1> DEFINE mid == IF optimize THEN <<"optimizer">> ELSE <<"sampler", "updater">>
           evl == IF compute_loglikelihood THEN <<"eval">> ELSE <<>>
           all == <<"reader">> \o mid
<1>1. CASE Testing
  BY <1>1 DEF Filters
<1>2. CASE ~Testing
  <2>1. NoWriter(<<"reader">>) /\ NoWriter(mid) /\ NoWriter(evl)
    <3>1. /\ NoWriter(<<"reader">>) /\ NoWriter(<<"optimizer">>)
          /\ NoWriter(<<"eval">>)
      BY DEF NoWriter, OtherFilters
    <3>2. NoWriter(<<"sampler", "updater">>)
      BY DEF NoWriter, OtherFilters
    <3>3. NoWriter(<<>>)
      BY DEF NoWriter
    <3> QED  BY <3>1, <3>2, <3>3
  <2>2. NoWriter(all) /\ Len(all) >= 1
    <3>1. Len(mid) \in Nat
      OBVIOUS
    <3> QED  BY <2>1, <3>1, NoWriterConcat
  <2> HIDE DEF all
  <2>3. NoWriter(all \o evl) /\ Len(all \o evl) >= 1
    <3>1. Len(evl) \in Nat /\ Len(all) \in Nat
      BY <2>2 DEF NoWriter
    <3> QED  BY <2>1, <2>2, <3>1, NoWriterConcat
  <2>4. Filters = all \o evl \o <<"writer">>
    BY <1>2, Zenon DEF Filters, all
  <2> QED  BY <2>3, <2>4, WriterAtTheEnd
<1> QED  BY <1>1, <1>2

LEMMA Ring == livetokens \in Nat /\ livetokens > 0
BY PipelineAssumption

\* The place after n in the ring.
LEMMA AfterInRing ==
  ASSUME NEW n \in Slots
  PROVE  (n + 1) % livetokens = IF n + 1 = livetokens THEN 0 ELSE n + 1
BY Ring DEF Slots

-----------------------------------------------------------------------------
(***************************************************************************)
(* Documents and their records.                                            *)
(***************************************************************************)
IsDoc(d) == d = [f \in Fields |-> d[f]]

\* What the file of topics may hold for document k.
IsTopicsOf(k, record) ==
  /\ DOMAIN record \subseteq {"docid", "topic_assignment"}
  /\ "docid" \in DOMAIN record => record.docid = k
  /\ "topic_assignment" \in DOMAIN record => record.topic_assignment \in Seq(Topics)

TopicsOfRecord(record) ==
  IF "topic_assignment" \in DOMAIN record THEN record.topic_assignment ELSE <<>>

LEMMA ClearIs == /\ IsDoc(Clear) /\ Clear.docid = 0 /\ Clear.body = <<>>
                 /\ Clear.topic_assignment = <<>>
BY DEF IsDoc, Clear, Fields

LEMMA FormattedIs ==
  ASSUME NEW k
  PROVE  /\ IsDoc(Formatted(k)) /\ Formatted(k).docid = k
         /\ Formatted(k).body = Body[k] /\ Formatted(k).topic_assignment = <<>>
BY ClearIs DEF IsDoc, Formatted, Clear, Fields

LEMMA ConcatEmpty ==
  ASSUME NEW S, NEW s \in Seq(S) PROVE s \o <<>> = s /\ <<>> \o s = s
OBVIOUS

LEMMA Parses ==
  ASSUME NEW rec, NEW d, d = MergePartialFromCodedStream(Clear, rec)
  PROVE  /\ IsDoc(d)
         /\ d.docid = IF "docid" \in DOMAIN rec THEN rec.docid ELSE 0
         /\ d.body = IF "body" \in DOMAIN rec THEN <<>> \o rec.body ELSE <<>>
         /\ d.topic_assignment = IF "topic_assignment" \in DOMAIN rec
                                 THEN <<>> \o rec.topic_assignment ELSE <<>>
<1>1. d = [f \in Fields |-> IF f \notin DOMAIN rec THEN Clear[f]
                    ELSE IF f = "docid" THEN rec[f] ELSE Clear[f] \o rec[f]]
  BY DEF MergePartialFromCodedStream
<1>2. IsDoc(d)
  BY <1>1 DEF IsDoc, Fields
<1> QED  BY <1>1, <1>2, ClearIs DEF Fields

LEMMA ReadsWords ==
  ASSUME NEW k \in Docs
  PROVE  /\ IsDoc(ReadRecord(input_w, k, Clear))
         /\ ReadRecord(input_w, k, Clear).docid = k
         /\ ReadRecord(input_w, k, Clear).body = Body[k]
         /\ ReadRecord(input_w, k, Clear).topic_assignment = <<>>
<1> DEFINE rec == SerializeToString(Formatted(k))
<1>0. k \in Nat /\ k # 0 /\ Body[k] \in Seq(Words)
  BY DocsAre, PipelineAssumption
<1>1. ReadRecord(input_w, k, Clear) = MergePartialFromCodedStream(Clear, rec)
  BY DEF ReadRecord, input_w
<1>2. /\ DOMAIN rec \subseteq Fields
      /\ "docid" \in DOMAIN rec /\ rec.docid = k
      /\ "topic_assignment" \notin DOMAIN rec
      /\ IF "body" \in DOMAIN rec THEN rec.body = Body[k] ELSE Body[k] = <<>>
  BY <1>0, ClearIs, FormattedIs DEF SerializeToString, Fields
<1>3. <<>> \o Body[k] = Body[k]
  BY <1>0, ConcatEmpty
<1> QED  BY <1>1, <1>2, <1>3, Parses

LEMMA ReadsTopics ==
  ASSUME NEW k \in Nat, NEW file, k \in DOMAIN file, IsTopicsOf(k, file[k])
  PROVE  LET doc == ReadRecord(file, k, Clear) IN
         /\ IsDoc(doc) /\ doc.docid \in {0, k} /\ doc.body = <<>>
         /\ doc.topic_assignment = TopicsOfRecord(file[k])
         /\ doc.topic_assignment \in Seq(Topics)
<1>1. ReadRecord(file, k, Clear) = MergePartialFromCodedStream(Clear, file[k])
  BY DEF ReadRecord
<1>2. "topic_assignment" \in DOMAIN file[k] =>
        <<>> \o file[k].topic_assignment = file[k].topic_assignment
  BY ConcatEmpty DEF IsTopicsOf
<1> DEFINE doc == ReadRecord(file, k, Clear)
<1>3. IsDoc(doc) /\ doc.docid \in {0, k} /\ doc.body = <<>>
  BY <1>1, Parses DEF IsTopicsOf
<1>4. doc.topic_assignment = TopicsOfRecord(file[k])
  BY <1>1, <1>2, Parses DEF TopicsOfRecord
<1>5. TopicsOfRecord(file[k]) \in Seq(Topics)
  BY DEF TopicsOfRecord, IsTopicsOf
<1> QED  BY <1>3, <1>4, <1>5

LEMMA Merges ==
  ASSUME NEW d, NEW e, NEW k, d.docid = k, e.docid \in {0, k}, 
         d.body \in Seq(Words), e.body = <<>>, 
         d.topic_assignment = <<>>, e.topic_assignment \in Seq(Topics)
  PROVE  /\ IsDoc(MergeFrom(d, e))
         /\ MergeFrom(d, e).docid = k
         /\ MergeFrom(d, e).body = d.body
         /\ MergeFrom(d, e).topic_assignment = e.topic_assignment
BY ConcatEmpty DEF MergeFrom, Fields, IsDoc

Records == UNION {[D -> Nat \cup Seq(Topics)] : D \in SUBSET Fields}

LEMMA Writes ==
  ASSUME NEW d, IsDoc(d), NEW k \in Nat, d.docid = k,
         d.topic_assignment \in Seq(Topics)
  PROVE  LET rec == SerializeToString([d EXCEPT !.body = <<>>]) IN
         /\ rec \in Records /\ IsTopicsOf(k, rec)
         /\ TopicsOfRecord(rec) = d.topic_assignment
<1>1. PICK c : c = [d EXCEPT !.body = <<>>]
  OBVIOUS
<1>2. c.docid = k /\ c.body = <<>> /\ c.topic_assignment = d.topic_assignment
  BY <1>1 DEF IsDoc, Fields
<1> DEFINE rec == SerializeToString(c)
<1>3. IsTopicsOf(k, rec) /\ TopicsOfRecord(rec) = d.topic_assignment
  BY <1>2, ClearIs DEF SerializeToString, IsTopicsOf, TopicsOfRecord, Fields
<1>4. PICK D \in SUBSET Fields : rec = [f \in D |-> c[f]] /\ "body" \notin D
  BY <1>2, ClearIs DEF SerializeToString, Fields
<1>5. \A f \in D : c[f] \in Nat \cup Seq(Topics)
  BY <1>2, <1>4 DEF Fields
<1>6. rec \in [D -> Nat \cup Seq(Topics)]
  BY <1>4, <1>5
<1>7. rec \in Records
  BY <1>6 DEF Records
<1> QED  BY <1>1, <1>3, <1>7

-----------------------------------------------------------------------------
IsToken(t) ==
  t = [at |-> t.at, slot |-> t.slot, nt |-> t.nt, changes |-> t.changes,
       n |-> t.n, step |-> t.step]

TokensOK ==
  /\ token = [k \in Docs |-> token[k]]
  /\ \A k \in Live : /\ IsToken(token[k])
                      /\ token[k].at \in 2..Len(Filters)
                      /\ token[k].slot \in Slots

RingOK ==
  /\ ring = [s \in Slots |-> ring[s]]
  /\ \A s \in Slots : IsDoc(ring[s])
  /\ read \in 0..Len(Body) /\ next_doc \in Slots

\* The documents in the pipeline are the last ones read, and not too many.
LastRead ==
  /\ \A k \in Live : k <= read /\ read - k < livetokens
  /\ \A j \in Live : \A k \in j..read : k \in Live
  /\ pc \in {"init", "done"} => Live = {}

\* The slot of document k, counted back from the reader's place.
PlaceOf(k) ==
  LET back == next_doc - 1 - (read - k) IN
  IF back >= 0 THEN back ELSE back + livetokens

InPlace == ~eof => \A k \in Live : token[k].slot = PlaceOf(k)

RingInv == TokensOK /\ RingOK /\ LastRead /\ InPlace /\ RingIsExclusive

(***************************************************************************)
(* The documents of the pipeline and the files: a document has no topics   *)
(* before the first are found, and one for each word then.                 *)
(***************************************************************************)
Untopiced(k) == token[k].at = 2 /\ (mode = "test" \/ ignore_old_topic)

IsTopicing(k, topics) == topics \in Seq(Topics) /\ Len(topics) = Len(Body[k])

DocsOK ==
  \A k \in Live :
    /\ BodyOf(k) = Body[k]
    /\ IF Untopiced(k) THEN TopicsIn(k) = <<>> ELSE IsTopicing(k, TopicsIn(k))

IsTopicsFile(file) ==
  \A k \in DOMAIN file :
    IsTopicsOf(k, file[k]) /\ IsTopicing(k, TopicsOfRecord(file[k]))

FilesOK ==
  /\ mode = "train" \/ (mode = "online" /\ iter > 1) =>
       DOMAIN input_t = Docs /\ IsTopicsFile(input_t)
  /\ output_t \in Seq(Records) /\ IsTopicsFile(output_t)

ControlOK ==
  /\ mode \in {"train", "online", "test"} /\ iter \in Nat /\ iter >= 1
  /\ ignore_old_topic <=> mode = "online" /\ iter = 1
  /\ mode = "test" /\ pc = "run" => iter = 1
  /\ eof => read = Len(Body)
  /\ pc = "init" /\ iter <= Lasting => output_t = <<>>

\* The documents are written in their order, those behind the writer's first.
InOrder ==
  pc = "run" =>
    /\ Live = {k \in Docs : Len(output_t) < k /\ k <= read}
    /\ Len(output_t) <= read

FilesInv == mode # "stream" => DocsOK /\ FilesOK /\ ControlOK /\ InOrder

Inv == RingInv /\ FilesInv

LEMMA RingInit == Init => RingInv
<1> SUFFICES ASSUME Init PROVE RingInv
  OBVIOUS
<1>1. Live = {}
  BY DEF Init, Live
<1>2. 0 \in Slots /\ 0 \in 0..Len(Body)
  BY PipelineAssumption, DocsAre DEF Slots
<1> QED  BY <1>1, <1>2, ClearIs DEF Init, RingInv, TokensOK, RingOK, LastRead,
              InPlace, RingIsExclusive

-----------------------------------------------------------------------------
(***************************************************************************)
(* A filter's step on document k: its token stays in its slot and goes to  *)
(* the next filter at most, and no buffer gets another document or other   *)
(* words.                                                                  *)
(***************************************************************************)
KeepsDocs ==
  /\ ring' = [s \in Slots |-> ring'[s]]
  /\ \A s \in Slots : /\ IsDoc(ring'[s])
                     /\ ring'[s].docid = ring[s].docid
                     /\ ring'[s].body = ring[s].body

FilterStep(k) ==
  /\ k \in Live
  /\ token' = [token EXCEPT ![k] = token'[k]]
  /\ IsToken(token'[k])
  /\ token'[k].slot = token[k].slot
  /\ token'[k].at \in 2..Len(Filters)
  /\ KeepsDocs
  /\ UNCHANGED <<mode, iter, readerVars>>
  /\ pc' \in {"run", "aborted"}

LEMMA FilterKeepsRing ==
  ASSUME RingInv, NEW k \in Docs, FilterStep(k) PROVE RingInv'
<1> USE DEF RingInv, TokensOK, readerVars
<1>1. token'[k] # NoToken /\ token[k] # NoToken /\ k \in Docs
  BY WriterIsLast DEF FilterStep, Live, NoToken
<1>2. \A j \in Docs \ {k} : token'[j] = token[j]
  BY DEF FilterStep
<1>3. Live' = Live
  BY <1>1, <1>2 DEF Live, Docs
<1>4. Len(Filters)' = Len(Filters)
  BY DEF FilterStep, Filters, Testing, optimize, compute_loglikelihood
<1>5. \A j \in Live : token'[j].slot = token[j].slot
  BY <1>2 DEF FilterStep, Live
<1>6. TokensOK'
  BY <1>1, <1>2, <1>3, <1>4 DEF FilterStep, Live, IsToken
<1>7. RingOK'
  BY DEF FilterStep, KeepsDocs, RingOK
<1>8. LastRead'
  BY <1>3 DEF FilterStep, LastRead
<1>9. InPlace'
  BY <1>3, <1>5 DEF FilterStep, InPlace, PlaceOf
<1>10. RingIsExclusive'
  <2>1. ASSUME NEW j \in Live PROVE Buffer(j)'.docid = j
    <3>1. token[j].slot \in Slots /\ token'[j].slot = token[j].slot
      BY <1>5
    <3> QED  BY <3>1 DEF FilterStep, KeepsDocs, RingIsExclusive, Buffer
  <2> QED  BY <2>1, <1>3, <1>5 DEF RingIsExclusive
<1> QED  BY <1>6, <1>7, <1>8, <1>9, <1>10

LEMMA InFilter ==
  ASSUME RingInv, NEW k \in Docs, NEW f, In(f, k)
  PROVE  /\ k \in Live /\ pc = "run" /\ IsToken(token[k])
         /\ token[k].at \in 2..Len(Filters) /\ token[k].slot \in Slots
         /\ f # "writer" => token[k].at + 1 \in 2..Len(Filters)
<1>1. /\ k \in Live /\ pc = "run" /\ IsToken(token[k])
      /\ token[k].at \in 2..Len(Filters) /\ token[k].slot \in Slots
      /\ Filters[token[k].at] = f
  BY DEF RingInv, TokensOK, In
<1>2. f # "writer" => token[k].at # Len(Filters)
  BY <1>1, WriterIsLast
<1> QED  BY <1>1, <1>2, WriterIsLast

LEMMA SameDocs == ASSUME RingInv, ring' = ring PROVE KeepsDocs
BY DEF RingInv, RingOK, KeepsDocs

LEMMA NewTopics ==
  ASSUME RingInv, NEW n \in Slots, NEW topics,
         ring' = [ring EXCEPT ![n].topic_assignment = topics]
  PROVE  /\ KeepsDocs
         /\ ring'[n].topic_assignment = topics
         /\ \A s \in Slots \ {n} : ring'[s] = ring[s]
<1>1. ring = [s \in Slots |-> ring[s]] /\ \A s \in Slots : IsDoc(ring[s])
  BY DEF RingInv, RingOK
<1>2. PICK doc : doc = [ring[n] EXCEPT !.topic_assignment = topics]
  OBVIOUS
<1>3. ring' = [s \in Slots |-> IF s = n THEN doc ELSE ring[s]]
  BY <1>1, <1>2
<1>4. /\ IsDoc(doc) /\ doc.docid = ring[n].docid /\ doc.body = ring[n].body
      /\ doc.topic_assignment = topics
  BY <1>1, <1>2 DEF IsDoc, Fields
<1> QED  BY <1>1, <1>3, <1>4 DEF KeepsDocs

KeepsPlace(u, t) ==
  IsToken(u) /\ u.slot = t.slot /\ (u.at = t.at \/ u.at = t.at + 1)

LEMMA TokenMoves ==
  ASSUME RingInv, NEW k \in Docs, NEW f, In(f, k), f # "writer",
         NEW u, KeepsPlace(u, token[k]), token' = [token EXCEPT ![k] = u],
         KeepsDocs, UNCHANGED <<mode, iter, readerVars>>,
         pc' \in {"run", "aborted"}
  PROVE  FilterStep(k)
<1>1. token'[k] = u
  BY DEF RingInv, TokensOK
<1>2. /\ k \in Live /\ token[k].at \in 2..Len(Filters)
      /\ token[k].at + 1 \in 2..Len(Filters)
  BY InFilter
<1>3. u.at \in 2..Len(Filters)
  BY <1>2 DEF KeepsPlace
<1>4. token' = [token EXCEPT ![k] = token'[k]]
  BY <1>1
<1> QED  BY <1>1, <1>2, <1>3, <1>4 DEF FilterStep, KeepsPlace

\* The fields of a token that a filter writes leave its place alone.
LEMMA TokenWrites ==
  ASSUME NEW t, IsToken(t), NEW v, NEW step
  PROVE  /\ KeepsPlace(t, t)
         /\ KeepsPlace([t EXCEPT !.nt = v], t)
         /\ KeepsPlace([t EXCEPT !.step = step], t)
         /\ KeepsPlace([t EXCEPT !.n = v, !.step = step], t)
         /\ KeepsPlace([t EXCEPT !.at = @ + 1], t)
         /\ KeepsPlace([t EXCEPT !.at = @ + 1, !.changes = v], t)
         /\ KeepsPlace([t EXCEPT !.at = @ + 1, !.nt = <<>>, !.changes = v], t)
<1>1. PICK at, slot, nt, changes, n, st :
        t = [at |-> at, slot |-> slot, nt |-> nt, changes |-> changes,
             n |-> n, step |-> st]
  BY DEF IsToken
<1>2. KeepsPlace(t, t)
  BY <1>1 DEF KeepsPlace, IsToken
<1>3. KeepsPlace([t EXCEPT !.nt = v], t) /\ KeepsPlace([t EXCEPT !.step = step], t)
  BY <1>1 DEF KeepsPlace, IsToken
<1> DEFINE tok(a, x, c, m, z) == [at |-> a, slot |-> slot, nt |-> x,
                                 changes |-> c, n |-> m, step |-> z]
<1>4. KeepsPlace([t EXCEPT !.n = v, !.step = step], t)
  <2>1. PICK u : u = [t EXCEPT !.n = v]
    OBVIOUS
  <2>2. u = tok(at, nt, changes, v, st)
    BY <1>1, <2>1
  <2>3. [u EXCEPT !.step = step] = tok(at, nt, changes, v, step)
    BY <2>2
  <2>4. [t EXCEPT !.n = v, !.step = step] = [u EXCEPT !.step = step]
    BY <2>1
  <2> QED  BY <1>1, <2>3, <2>4 DEF KeepsPlace, IsToken
<1>5. KeepsPlace([t EXCEPT !.at = @ + 1], t)
  <2>1. [t EXCEPT !.at = @ + 1] = tok(at + 1, nt, changes, n, st)
    BY <1>1
  <2> QED  BY <1>1, <2>1 DEF KeepsPlace, IsToken
<1>6. PICK u : u = [t EXCEPT !.at = @ + 1]
  OBVIOUS
<1>7. u = tok(at + 1, nt, changes, n, st)
  BY <1>1, <1>6
<1>8. KeepsPlace([t EXCEPT !.at = @ + 1, !.changes = v], t)
  <2>1. [u EXCEPT !.changes = v] = tok(at + 1, nt, v, n, st)
    BY <1>7
  <2>2. [t EXCEPT !.at = @ + 1, !.changes = v] = [u EXCEPT !.changes = v]
    BY <1>6
  <2> QED  BY <1>1, <2>1, <2>2 DEF KeepsPlace, IsToken
<1>9. KeepsPlace([t EXCEPT !.at = @ + 1, !.nt = <<>>, !.changes = v], t)
  <2>1. PICK w : w = [u EXCEPT !.nt = <<>>]
    OBVIOUS
  <2>2. w = tok(at + 1, <<>>, changes, n, st)
    BY <1>7, <2>1
  <2>3. [w EXCEPT !.changes = v] = tok(at + 1, <<>>, v, n, st)
    BY <2>2
  <2>4. [t EXCEPT !.at = @ + 1, !.nt = <<>>, !.changes = v] = [w EXCEPT !.changes = v]
    BY <1>6, <2>1
  <2> QED  BY <1>1, <2>3, <2>4 DEF KeepsPlace, IsToken
<1> QED  BY <1>2, <1>3, <1>4, <1>5, <1>8, <1>9

LEMMA FilterSteps ==
  ASSUME RingInv, NEW k \in Docs, Filter(k), ~Write(k) PROVE FilterStep(k)
<1> DEFINE t == token[k]
<1>1. CASE CopyTotal(k)
  <2>1. In("sampler", k) /\ IsToken(t)
    BY <1>1, InFilter DEF CopyTotal
  <2>2. PICK u : token' = [token EXCEPT ![k] = [t EXCEPT !.nt = u]]
    BY <1>1 DEF CopyTotal
  <2>3. KeepsDocs /\ UNCHANGED <<mode, iter, readerVars>> /\ pc' = "run"
    BY <1>1, <2>1, SameDocs DEF CopyTotal, controlVars, In
  <2> QED  BY <2>1, <2>2, <2>3, TokenMoves, TokenWrites
<1>2. CASE Sample(k)
  <2>1. In("sampler", k) /\ IsToken(t) /\ t.slot \in Slots
    BY <1>2, InFilter DEF Sample
  <2>2. PICK new, changes :
          /\ ring' = [ring EXCEPT ![t.slot].topic_assignment = new]
          /\ token' = [token EXCEPT ![k] =
                         [Passed(k) EXCEPT !.nt = <<>>, !.changes = changes]]
    BY <1>2 DEF Sample
  <2>3. KeepsDocs
    BY <2>1, <2>2, NewTopics
  <2>4. UNCHANGED <<mode, iter, readerVars>> /\ pc' = "run"
    BY <1>2, <2>1 DEF Sample, controlVars, In
  <2> QED  BY <2>1, <2>2, <2>3, <2>4, TokenMoves, TokenWrites DEF Passed
<1>3. CASE Update(k)
  <2>1. In("updater", k) /\ IsToken(t) /\ pc = "run"
    BY <1>3, InFilter DEF Update, CountNew, NoChange, Decrement, DecrementTotal,
       Increment, IncrementTotal, Updated, At, Updating
  <2>2. KeepsDocs /\ UNCHANGED <<mode, iter, readerVars>>
    BY <1>3, SameDocs DEF Update, CountNew, NoChange, Decrement, DecrementTotal,
       Increment, IncrementTotal, Updated, UpdateFrame
  <2>3. pc' \in {"run", "aborted"}
    BY <1>3, <2>1 DEF Update, CountNew, NoChange, Decrement, DecrementTotal,
       Increment, IncrementTotal, Updated
  <2>4. \/ \E step : Step(k, step)
        \/ NextChange(k)
        \/ token' = token
        \/ token' = [token EXCEPT ![k] = [Passed(k) EXCEPT !.changes = <<>>]]
    BY <1>3 DEF Update, CountNew, NoChange, Decrement, DecrementTotal,
       Increment, IncrementTotal, Updated
  <2>5. PICK u : token' = [token EXCEPT ![k] = u] /\ KeepsPlace(u, t)
    <3>1. CASE \E step : Step(k, step)
      <4>1. PICK step : token' = [token EXCEPT ![k] = [t EXCEPT !.step = step]]
        BY <3>1 DEF Step
      <4> QED  BY <2>1, <4>1, TokenWrites
    <3>2. CASE NextChange(k)
      <4>1. token' = [token EXCEPT ![k] = [t EXCEPT !.n = @ + 1, !.step = "ready"]]
        BY <3>2 DEF NextChange, RingInv, TokensOK
      <4> QED  BY <2>1, <4>1, TokenWrites
    <3>3. CASE token' = token
      <4>1. token' = [token EXCEPT ![k] = t]
        BY <3>3 DEF RingInv, TokensOK
      <4> QED  BY <2>1, <4>1, TokenWrites
    <3>4. CASE token' = [token EXCEPT ![k] = [Passed(k) EXCEPT !.changes = <<>>]]
      BY <2>1, <3>4, TokenWrites DEF Passed
    <3> QED  BY <2>4, <3>1, <3>2, <3>3, <3>4
  <2> QED  BY <2>1, <2>2, <2>3, <2>5, TokenMoves
<1>4. CASE Optimize(k) \/ Eval(k)
  <2>1. PICK f : In(f, k) /\ f # "writer"
    BY <1>4 DEF Optimize, Eval
  <2>2. IsToken(t)
    BY <2>1, InFilter
  <2>3. KeepsDocs /\ UNCHANGED <<mode, iter, readerVars>> /\ pc' = "run"
    BY <1>4, <2>1, SameDocs DEF Optimize, Eval, controlVars, In
  <2>4. token' = [token EXCEPT ![k] = Passed(k)]
    BY <1>4 DEF Optimize, Eval
  <2> QED  BY <2>1, <2>2, <2>3, <2>4, TokenMoves, TokenWrites DEF Passed
<1>5. CASE Test(k)
  <2>1. In("tester", k) /\ IsToken(t) /\ t.slot \in Slots
    BY <1>5, InFilter DEF Test
  <2>2. PICK topics : ring' = [ring EXCEPT ![t.slot].topic_assignment = topics]
    BY <1>5 DEF Test
  <2>3. KeepsDocs
    BY <2>1, <2>2, NewTopics
  <2>4. /\ UNCHANGED <<mode, iter, readerVars>> /\ pc' = "run"
        /\ token' = [token EXCEPT ![k] = Passed(k)]
    BY <1>5, <2>1 DEF Test, controlVars, In
  <2> QED  BY <2>1, <2>3, <2>4, TokenMoves, TokenWrites DEF Passed
<1> QED  BY <1>1, <1>2, <1>3, <1>4, <1>5 DEF Filter

-----------------------------------------------------------------------------
(***************************************************************************)
(* The reader takes a buffer that no document in the pipeline has.         *)
(***************************************************************************)
LEMMA NextSlot ==
  ASSUME RingInv, Advance
  PROVE  /\ next_doc \in 0..livetokens - 1
         /\ next_doc' = IF next_doc + 1 = livetokens THEN 0 ELSE next_doc + 1
         /\ next_doc' \in Slots
<1>1. next_doc \in Slots
  BY DEF RingInv, RingOK
<1> QED  BY <1>1, AfterInRing, Ring DEF Advance, Slots

LEMMA LiveIsShort ==
  ASSUME RingInv, MayRead, NEW k \in Live
  PROVE  k \in Nat /\ read \in Nat /\ read + 1 - k < livetokens
<1>1. /\ read \in 0..Len(Body) /\ k <= read /\ k..read \subseteq Live
      /\ k \in 1..Len(Body)
  BY DocsAre DEF RingInv, RingOK, LastRead, Live
<1>2. IsFiniteSet(Live)
  <2>1. IsFiniteSet(1..Len(Body)) /\ Live \subseteq 1..Len(Body)
    BY DocsAre, FS_Interval DEF Live
  <2> QED  BY <2>1, FS_Subset
<1>3. Cardinality(k..read) = read - k + 1
  BY <1>1, DocsAre, FS_Interval
<1>4. Cardinality(k..read) <= Cardinality(Live)
  BY <1>1, <1>2, FS_Subset
<1>5. Cardinality(Live) \in Nat
  BY <1>2, FS_CardinalityType
<1> QED  BY <1>1, <1>3, <1>4, <1>5, DocsAre, Ring DEF MayRead

(***************************************************************************)
(* What is read for document k: its words, and the topics in the file.     *)
(***************************************************************************)
LEMMA DocumentIs ==
  ASSUME FilesInv, mode \in Modes, NEW k \in Docs, NEW doc \in Document(k)
  PROVE  /\ IsDoc(doc) /\ doc.docid = k
         /\ mode # "stream" =>
              /\ doc.body = Body[k]
              /\ IF mode = "test" \/ ignore_old_topic
                 THEN doc.topic_assignment = <<>>
                 ELSE IsTopicing(k, doc.topic_assignment)
<1> DEFINE wdoc == ReadRecord(input_w, k, Clear)
           tdoc == ReadRecord(input_t, k, Clear)
<1>1. k \in Nat /\ k # 0 /\ Body[k] \in Seq(Words)
  BY DocsAre, PipelineAssumption
<1>2. /\ IsDoc(wdoc) /\ wdoc.docid = k /\ wdoc.body = Body[k]
      /\ wdoc.topic_assignment = <<>>
  BY ReadsWords
<1>3. CASE mode = "stream"
  <2>1. Document(k) = Streamed(k)
    BY <1>3 DEF Document
  <2>2. PICK topics : doc = [Formatted(k) EXCEPT !.topic_assignment = topics]
    BY <2>1 DEF Streamed
  <2>3. IsDoc(doc) /\ doc.docid = k
    BY <2>2, FormattedIs DEF IsDoc, Fields
  <2> QED  BY <1>3, <2>3
<1>4. CASE mode # "stream" /\ (mode = "test" \/ ignore_old_topic)
  <2>1. doc = wdoc
    BY <1>4 DEF Document
  <2> QED  BY <1>2, <1>4, <2>1
<1>5. CASE mode # "stream" /\ mode # "test" /\ ~ignore_old_topic
  <2>1. doc = MergeFrom(wdoc, tdoc)
    BY <1>5 DEF Document
  <2>2. DOMAIN input_t = Docs /\ IsTopicsFile(input_t)
    BY <1>5 DEF FilesInv, ControlOK, FilesOK
  <2>3. /\ IsTopicsOf(k, input_t[k])
        /\ IsTopicing(k, TopicsOfRecord(input_t[k]))
    BY <2>2 DEF IsTopicsFile
  <2>4. /\ tdoc.docid \in {0, k} /\ tdoc.body = <<>>
        /\ tdoc.topic_assignment = TopicsOfRecord(input_t[k])
        /\ tdoc.topic_assignment \in Seq(Topics)
    BY <1>1, <2>2, <2>3, ReadsTopics
  <2> HIDE DEF wdoc, tdoc
  <2>5. /\ IsDoc(doc) /\ doc.docid = k /\ doc.body = wdoc.body
        /\ doc.topic_assignment = tdoc.topic_assignment
    BY <1>1, <1>2, <2>1, <2>4, Merges
  <2> QED  BY <1>2, <1>5, <2>3, <2>4, <2>5
<1> QED  BY <1>3, <1>4, <1>5

LEMMA ReadKeepsRing == ASSUME Inv, mode \in Modes, Read PROVE RingInv'
<1> USE DEF Inv
<1>0. PICK r \in Nat : r = read + 1
  BY DocsAre DEF RingInv, RingOK
<1>1. /\ read \in Nat /\ r = read + 1 /\ r \in Docs /\ r \notin Live
      /\ MayRead /\ Advance /\ read' = r /\ eof' = FALSE /\ ~eof
      /\ UNCHANGED <<mode, iter, pc>> /\ pc = "run"
  BY <1>0, DocsAre DEF Read, MayRead, RingInv, RingOK, LastRead, controlVars
<1>2. \A k \in Live : k \in Nat /\ r - k < livetokens /\ k <= read
  BY <1>1, LiveIsShort DEF RingInv, LastRead
<1>3. /\ next_doc \in Slots /\ next_doc \in 0..livetokens - 1
      /\ next_doc' = IF next_doc + 1 = livetokens THEN 0 ELSE next_doc + 1
      /\ next_doc' \in Slots
  BY <1>1, NextSlot DEF RingInv, RingOK
<1>4. token' = [k \in Docs |->
        IF k = r THEN [at |-> 2, slot |-> next_doc, nt |-> <<>>,
                       changes |-> <<>>, n |-> 1, step |-> "ready"]
                 ELSE token[k]]
  BY <1>1 DEF Read, RingInv, TokensOK
<1>5. PICK doc : /\ IsDoc(doc) /\ doc.docid = r
                 /\ ring' = [s \in Slots |->
                              IF s = next_doc THEN doc ELSE ring[s]]
  <2>1. PICK doc \in Document(r) : ring' = [ring EXCEPT ![next_doc] = doc]
    BY <1>1 DEF Read
  <2>2. IsDoc(doc) /\ doc.docid = r
    BY <1>1, <2>1, DocumentIs
  <2> QED  BY <2>1, <2>2 DEF RingInv, RingOK
<1>6. Live' = Live \cup {r}
  BY <1>1, <1>4 DEF Live, NoToken, Docs
<1>7. Len(Filters)' = Len(Filters) /\ 2 \in 2..Len(Filters)
  BY <1>1, WriterIsLast DEF Filters, Testing, optimize, compute_loglikelihood
<1>8. TokensOK'
  <2>1. IsToken(token'[r]) /\ token'[r].at = 2 /\ token'[r].slot = next_doc
    BY <1>1, <1>4 DEF IsToken
  <2>2. \A k \in Live : token'[k] = token[k]
    BY <1>1, <1>4 DEF Live
  <2>3. \A k \in Live' : /\ IsToken(token'[k]) /\ token'[k].at \in 2..Len(Filters)
                         /\ token'[k].slot \in Slots
    <3>1. \A k \in Live : /\ IsToken(token[k]) /\ token[k].at \in 2..Len(Filters)
                          /\ token[k].slot \in Slots
      BY DEF RingInv, TokensOK
    <3>2. \A k \in Live : /\ IsToken(token'[k]) /\ token'[k].slot \in Slots
                          /\ token'[k].at \in 2..Len(Filters)
      BY <2>2, <3>1
    <3>3. IsToken(token'[r]) /\ token'[r].at \in 2..Len(Filters)
      BY <1>7, <2>1
    <3> QED  BY <1>3, <1>6, <2>1, <3>2, <3>3
  <2>4. token' = [k \in Docs |-> token'[k]]
    BY <1>4
  <2>5. \A k \in Live' : token'[k].at \in 2..Len(Filters)'
    BY <1>7, <2>3
  <2>6. \A k \in Live' : IsToken(token[k])'
    BY <2>3 DEF IsToken
  <2> QED  BY <2>3, <2>4, <2>5, <2>6 DEF TokensOK
<1>9. RingOK'
  <2>1. \A s \in Slots : IsDoc(ring'[s])
    BY <1>5 DEF RingInv, RingOK
  <2>2. read' \in 0..Len(Body)
    BY <1>1, DocsAre
  <2>3. ring' = [s \in Slots |-> ring'[s]]
    BY <1>5
  <2> QED  BY <1>3, <2>1, <2>2, <2>3 DEF RingOK
<1>10. LastRead'
  <2>1. \A k \in Live' : k <= r /\ r - k < livetokens
    BY <1>1, <1>2, <1>6, Ring
  <2>2. ASSUME NEW j \in Live', NEW k \in j..r PROVE k \in Live'
    <3>1. CASE k = r
      BY <3>1, <1>6
    <3>2. CASE k # r
      <4>1. j \in Live /\ k \in j..read
        BY <3>2, <1>1, <1>2, <1>6
      <4> QED  BY <4>1, <1>6 DEF RingInv, LastRead
    <3> QED  BY <3>1, <3>2
  <2> QED  BY <1>1, <2>1, <2>2 DEF LastRead
<1>11. \A k \in Live' : token'[k].slot = PlaceOf(k)'
  <2>1. token'[r].slot = next_doc
    BY <1>1, <1>4
  <2>2. PlaceOf(r)' = next_doc
    BY <1>1, <1>3, Ring DEF PlaceOf
  <2>3. ASSUME NEW k \in Live PROVE token'[k].slot = PlaceOf(k)'
    <3>1. token'[k].slot = PlaceOf(k)
      BY <1>1, <1>4 DEF RingInv, InPlace, Live
    <3>2. PlaceOf(k)' = PlaceOf(k)
      BY <1>1, <1>2, <1>3, Ring DEF PlaceOf
    <3> QED  BY <3>1, <3>2
  <2> QED  BY <1>6, <2>1, <2>2, <2>3
<1>12. \A j, k \in Live' : j # k => token'[j].slot # token'[k].slot
  <2> SUFFICES ASSUME NEW j \in Live', NEW k \in Live', j # k
               PROVE  PlaceOf(j)' # PlaceOf(k)'
    BY <1>11
  <2>1. /\ j \in Nat /\ k \in Nat /\ j <= r /\ k <= r
        /\ r - j < livetokens /\ r - k < livetokens
    BY <1>1, <1>2, <1>6, Ring
  <2> QED  BY <1>1, <1>3, <2>1, Ring DEF PlaceOf
<1>13. \A k \in Live' : Buffer(k)'.docid = k
  <2>1. token'[r].slot = next_doc
    BY <1>1, <1>4
  <2>2. Buffer(r)'.docid = r
    BY <1>3, <1>5, <2>1 DEF Buffer
  <2>3. ASSUME NEW k \in Live PROVE Buffer(k)'.docid = k
    <3>1. token'[k].slot = token[k].slot /\ token[k].slot \in Slots
      BY <1>1, <1>4 DEF Live, RingInv, TokensOK
    <3>2. token'[k].slot # next_doc
      BY <1>1, <1>6, <1>12, <2>1
    <3> QED  BY <1>5, <3>1, <3>2 DEF Buffer, RingInv, RingIsExclusive
  <2> QED  BY <1>6, <2>2, <2>3
<1> QED  BY <1>8, <1>9, <1>10, <1>11, <1>12, <1>13
      DEF RingInv, InPlace, RingIsExclusive

\* The end of the documents takes the reader on, but puts no document in.
LEMMA ReadEndKeepsRing == ASSUME RingInv, ReadEnd PROVE RingInv'
<1>1. /\ Advance /\ eof' = TRUE
      /\ UNCHANGED <<mode, iter, pc, ring, read, token>>
  BY DEF ReadEnd, controlVars
<1>2. Live' = Live /\ Len(Filters)' = Len(Filters) /\ next_doc' \in Slots
  BY <1>1, NextSlot
    DEF Live, Filters, Testing, optimize, compute_loglikelihood
<1> QED  BY <1>1, <1>2 DEF RingInv, TokensOK, RingOK, LastRead, InPlace,
              RingIsExclusive, Buffer

(***************************************************************************)
(* The writer is serial and last: its document is the first of those in    *)
(* the pipeline, and the others stay the last ones read.                   *)
(***************************************************************************)
LEMMA WriterIsBehind ==
  ASSUME RingInv, NEW k \in Docs, Write(k)
  PROVE  /\ k \in Live /\ token[k].at = Len(Filters)
         /\ \A j \in Live : ~(j < k)
         /\ Live' = Live \ {k} /\ \A j \in Live' : token'[j] = token[j]
<1>1. /\ k \in Live /\ In("writer", k)
      /\ token' = [token EXCEPT ![k] = NoToken]
  BY DEF Write, In
<1>2. token[k].at = Len(Filters)
  <2>1. token[k].at \in 2..Len(Filters)
    BY <1>1 DEF RingInv, TokensOK
  <2>2. Filters[token[k].at] = "writer"
    BY <1>1 DEF In
  <2>3. token[k].at \in 1..Len(Filters)
    BY <2>1, WriterIsLast
  <2> QED  BY <2>2, <2>3, WriterIsLast
<1>3. ASSUME NEW j \in Live PROVE ~(j < k)
  <2>1. j < k => token[j].at > token[k].at
    BY <1>1 DEF In, serial
  <2>2. token[j].at \in 2..Len(Filters)
    BY DEF RingInv, TokensOK
  <2> QED  BY <1>2, <2>1, <2>2, WriterIsLast
<1>4. token' = [j \in Docs |-> IF j = k THEN NoToken ELSE token[j]]
  BY <1>1 DEF RingInv, TokensOK
<1>5. Live' = Live \ {k} /\ \A j \in Live' : token'[j] = token[j]
  BY <1>1, <1>4 DEF Live, Docs
<1> QED  BY <1>1, <1>2, <1>3, <1>5

LEMMA WriteKeepsRing ==
  ASSUME RingInv, NEW k \in Docs, Write(k) PROVE RingInv'
<1>1. /\ k \in Live
      /\ UNCHANGED <<mode, iter, pc, ring, read, eof, next_doc>>
      /\ token' = [token EXCEPT ![k] = NoToken]
  BY DEF Write, In, controlVars, readerVars
<1>2. \A j \in Live : ~(j < k)
  BY WriterIsBehind
<1>3. token' = [j \in Docs |-> IF j = k THEN NoToken ELSE token[j]]
  BY <1>1 DEF RingInv, TokensOK
<1>4. Live' = Live \ {k} /\ \A j \in Live' : token'[j] = token[j]
  BY WriterIsBehind
<1>5. Len(Filters)' = Len(Filters)
  BY <1>1 DEF Filters, Testing, optimize, compute_loglikelihood
<1>6. TokensOK'
  BY <1>3, <1>4, <1>5 DEF RingInv, TokensOK, IsToken
<1>7. RingOK'
  BY <1>1 DEF RingInv, RingOK
<1>8. LastRead'
  <2>1. ASSUME NEW j \in Live', NEW i \in j..read PROVE i \in Live'
    <3>1. i \in Live /\ j \in Live /\ j # k /\ j \in Nat /\ k \in Nat
      BY <1>4, DocsAre DEF RingInv, LastRead, Live
    <3> QED  BY <1>2, <1>4, <3>1
  <2> QED  BY <1>1, <1>4, <2>1 DEF RingInv, LastRead
<1>9. InPlace'
  BY <1>1, <1>4 DEF RingInv, InPlace, PlaceOf
<1>10. RingIsExclusive'
  BY <1>1, <1>4 DEF RingInv, RingIsExclusive, Buffer
<1> QED  BY <1>6, <1>7, <1>8, <1>9, <1>10 DEF RingInv

\* Between the iterations there is no document in the pipeline.
LEMMA EmptyRing ==
  ASSUME token' = [k \in Docs |-> token[k]]', Live' = {}, RingOK' PROVE RingInv'
BY DEF RingInv, TokensOK, LastRead, InPlace, RingIsExclusive

LEMMA ModeStays == [Next]_vars => mode' = mode
BY DEF Next, vars, controlVars, Assemble, Read, ReadEnd, IterationDone, Finish,
   Filter, CopyTotal, Sample, Update, CountNew, NoChange, Decrement,
   DecrementTotal, Increment, IncrementTotal, Updated, UpdateFrame, Optimize,
   Test, Eval, Write

LEMMA StepKeepsRing == Inv /\ mode \in Modes /\ [Next]_vars => RingInv'
<1> SUFFICES ASSUME Inv, mode \in Modes, [Next]_vars PROVE RingInv'
  OBVIOUS
<1> USE DEF Inv
<1>1. CASE Assemble
  <2>1. Live = {} /\ Live' = {} /\ token' = token
    BY <1>1 DEF Assemble, Live, RingInv, LastRead
  <2>2. /\ ring' = [s \in Slots |-> Clear]
        /\ next_doc' = 0 /\ read' = 0
    BY <1>1 DEF Assemble
  <2>3. RingOK'
    BY <2>2, Ring, DocsAre, ClearIs DEF RingOK, Slots
  <2> QED  BY <2>1, <2>3, EmptyRing DEF RingInv, TokensOK
<1>2. CASE IterationDone \/ Finish
  <2>1. /\ Live = {} /\ Live' = {} /\ token' = token
        /\ UNCHANGED <<ring, readerVars>>
    BY <1>2 DEF IterationDone, Finish, Live, RingInv, LastRead
  <2>2. RingOK'
    BY <2>1 DEF RingInv, RingOK, readerVars
  <2> QED  BY <2>1, <2>2, EmptyRing DEF RingInv, TokensOK
<1>3. CASE Read
  BY <1>3, ReadKeepsRing
<1>4. CASE ReadEnd
  BY <1>4, ReadEndKeepsRing
<1>5. CASE \E k \in Docs : Filter(k)
  <2>1. PICK k \in Docs : Filter(k)
    BY <1>5
  <2> QED  BY <2>1, FilterSteps, FilterKeepsRing, WriteKeepsRing
<1>6. CASE UNCHANGED vars
  <2>1. UNCHANGED <<mode, iter, pc, ring, next_doc, read, eof, token>>
    BY <1>6 DEF vars, controlVars, readerVars
  <2>2. Live' = Live /\ Len(Filters)' = Len(Filters)
    BY <2>1 DEF Live, Filters, Testing, optimize, compute_loglikelihood
  <2> QED  BY <2>1, <2>2 DEF RingInv, TokensOK, RingOK, LastRead, InPlace,
                PlaceOf, RingIsExclusive, Buffer
<1> QED  BY <1>1, <1>2, <1>3, <1>4, <1>5, <1>6 DEF Next

-----------------------------------------------------------------------------
(***************************************************************************)
(* The files: InFilter says where a document is in the filters.            *)
(***************************************************************************)
\* The topics of the file that training starts from.
LEMMA FirstTopics ==
  ASSUME NEW topics \in Assignments, NEW k \in Docs
  PROVE  /\ IsTopicsOf(k, AssignmentFile(topics)[k])
         /\ TopicsOfRecord(AssignmentFile(topics)[k]) = topics[k]
         /\ IsTopicing(k, topics[k])
<1>1. topics[k] \in Seq(Topics) /\ Len(topics[k]) = Len(Body[k])
  <2>1. Body[k] \in Seq(Words) /\ DOMAIN topics[k] = Positions(k)
    BY PipelineAssumption DEF Assignments, Docs
  <2>2. PICK j \in Docs : topics[k] \in [Positions(j) -> Topics]
    BY DEF Assignments
  <2>3. topics[k] \in [1..Len(Body[k]) -> Topics] /\ Len(Body[k]) \in Nat
    BY <2>1, <2>2 DEF Positions
  <2> QED  BY <2>3
<1>2. PICK d : d = [Clear EXCEPT !.topic_assignment = topics[k]]
  OBVIOUS
<1>3. d.docid = 0 /\ d.body = <<>> /\ d.topic_assignment = topics[k]
  BY <1>2, ClearIs DEF IsDoc, Fields
<1>4. AssignmentFile(topics)[k] = SerializeToString(d)
  BY <1>2 DEF AssignmentFile
<1>5. PICK rec : rec = AssignmentFile(topics)[k]
  OBVIOUS
<1>6. IsTopicsOf(k, rec) /\ TopicsOfRecord(rec) = topics[k]
  BY <1>1, <1>3, <1>4, <1>5, ClearIs
    DEF SerializeToString, IsTopicsOf, TopicsOfRecord, Fields
<1> QED  BY <1>1, <1>5, <1>6 DEF IsTopicing

LEMMA FilesInit == Init => FilesInv
<1> SUFFICES ASSUME Init, mode # "stream"
             PROVE  DocsOK /\ FilesOK /\ ControlOK /\ InOrder
  BY DEF FilesInv
<1>1. Live = {}
  BY DEF Init, Live
<1>2. mode \in {"train", "online", "test"}
  BY PipelineAssumption DEF Init
<1>3. ControlOK
  <2>1. ignore_old_topic <=> mode = "online"
    BY Zenon DEF Init
  <2>2. iter = 1 /\ eof = FALSE /\ output_t = <<>>
    BY DEF Init
  <2> QED  BY <1>2, <2>1, <2>2 DEF ControlOK
<1>4. output_t \in Seq(Records) /\ IsTopicsFile(output_t)
  BY DEF Init, IsTopicsFile
<1>5. CASE mode = "train"
  <2>1. PICK topics \in Assignments : input_t = AssignmentFile(topics)
    BY <1>5 DEF Init
  <2>2. DOMAIN input_t = Docs
    BY <2>1 DEF AssignmentFile
  <2>3. ASSUME NEW k \in Docs
        PROVE  IsTopicsOf(k, input_t[k]) /\ IsTopicing(k, TopicsOfRecord(input_t[k]))
    BY <2>1, FirstTopics
  <2> QED  BY <1>1, <1>2, <1>3, <1>4, <2>2, <2>3
        DEF Init, DocsOK, FilesOK, IsTopicsFile, InOrder
<1>6. CASE mode # "train"
  BY <1>1, <1>3, <1>4, <1>6 DEF Init, DocsOK, FilesOK, InOrder
<1> QED  BY <1>5, <1>6

Finders == {"tester", "optimizer", "sampler"}
AllFilters == OtherFilters \cup {"writer"}

LEMMA ConcatIs ==
  ASSUME NEW s, NEW t, s \in Seq(AllFilters), t \in Seq(AllFilters)
  PROVE  /\ s \o t \in Seq(AllFilters) /\ Len(s \o t) = Len(s) + Len(t)
         /\ Len(s) \in Nat /\ Len(t) \in Nat
         /\ \A i \in 1..Len(s) : (s \o t)[i] = s[i]
         /\ \A i \in 1..Len(t) : (s \o t)[i + Len(s)] = t[i]
OBVIOUS

IsSecond(s, f) ==
  /\ s \in Seq(AllFilters) /\ Len(s) >= 2 /\ s[2] = f
  /\ \A i \in 2..Len(s) : s[i] \in Finders => i = 2

NotFinders(t) ==
  t \in Seq(AllFilters) /\ \A i \in 1..Len(t) : t[i] \notin Finders

LEMMA SecondStays ==
  ASSUME NEW s, NEW f, IsSecond(s, f), NEW t, NotFinders(t)
  PROVE  IsSecond(s \o t, f)
<1> HIDE DEF AllFilters
<1>1. s \in Seq(AllFilters) /\ t \in Seq(AllFilters) /\ Len(s) >= 2
  BY DEF IsSecond, NotFinders
<1>2. /\ s \o t \in Seq(AllFilters) /\ Len(s \o t) = Len(s) + Len(t)
      /\ Len(s) \in Nat /\ Len(t) \in Nat
      /\ \A i \in 1..Len(s) : (s \o t)[i] = s[i]
      /\ \A i \in 1..Len(t) : (s \o t)[i + Len(s)] = t[i]
  BY <1>1, ConcatIs
<1>3. ASSUME NEW i \in 2..Len(s \o t), i > Len(s) PROVE (s \o t)[i] \notin Finders
  <2>1. i - Len(s) \in 1..Len(t) /\ (i - Len(s)) + Len(s) = i
    BY <1>1, <1>2, <1>3
  <2>2. (s \o t)[i] = t[i - Len(s)]
    BY <1>2, <2>1
  <2> QED  BY <2>1, <2>2 DEF NotFinders
<1>4. ASSUME NEW i \in 2..Len(s \o t), i <= Len(s), (s \o t)[i] \in Finders
      PROVE  i = 2
  <2>1. i \in 1..Len(s) /\ i \in 2..Len(s)
    BY <1>1, <1>2, <1>4
  <2> QED  BY <1>2, <1>4, <2>1 DEF IsSecond
<1>5. (s \o t)[2] = f /\ Len(s \o t) >= 2
  BY <1>1, <1>2 DEF IsSecond
<1>6. ASSUME NEW i \in 2..Len(s \o t), (s \o t)[i] \in Finders PROVE i = 2
  <2>1. i <= Len(s) \/ i > Len(s)
    BY <1>2
  <2> QED  BY <1>3, <1>4, <1>6, <2>1
<1> QED  BY <1>2, <1>5, <1>6 DEF IsSecond

\* The first of a non-empty sequence is second behind the reader.
LEMMA BehindReader ==
  ASSUME NEW mid, mid \in Seq(AllFilters), Len(mid) >= 1, NEW f, mid[1] = f,
         \A i \in 2..Len(mid) : mid[i] \notin Finders
  PROVE  IsSecond(<<"reader">> \o mid, f)
<1>1. <<"reader">> \in Seq(AllFilters) /\ Len(<<"reader">>) = 1
  BY DEF AllFilters, OtherFilters
<1> DEFINE s == <<"reader">> \o mid
<1>2. /\ s \in Seq(AllFilters) /\ Len(s) = 1 + Len(mid) /\ Len(mid) \in Nat
      /\ \A i \in 1..Len(mid) : s[i + 1] = mid[i]
  BY <1>1, ConcatIs
<1> HIDE DEF s
<1>3. s[2] = f
  <2>1. 1 \in 1..Len(mid) /\ 1 + 1 = 2
    BY <1>2
  <2> QED  BY <1>2, <2>1
<1>4. ASSUME NEW i \in 2..Len(s), s[i] \in Finders PROVE i = 2
  <2>1. i - 1 \in 1..Len(mid) /\ (i - 1) + 1 = i
    BY <1>2
  <2>2. s[i] = mid[i - 1]
    BY <1>2, <2>1
  <2> QED  BY <1>2, <1>4, <2>1, <2>2
<1>5. IsSecond(s, f)
  BY <1>2, <1>3, <1>4 DEF IsSecond
<1> QED  BY <1>5 DEF s

\* The filter after the reader is the one that finds topics, or the optimizer.
LEMMA SecondFilter ==
  /\ Filters[2] = IF Testing THEN "tester" ELSE IF optimize THEN "optimizer"
                  ELSE "sampler"
  /\ \A i \in 2..Len(Filters) : Filters[i] \in Finders => i = 2
<1> DEFINE mid == IF optimize THEN <<"optimizer">> ELSE <<"sampler", "updater">>
           evl == IF compute_loglikelihood THEN <<"eval">> ELSE <<>>
           first == <<"reader">> \o mid
           found == IF optimize THEN "optimizer" ELSE "sampler"
<1>1. CASE Testing
  BY <1>1 DEF Filters, Finders
<1>2. CASE ~Testing
  <2>1. IsSecond(first, found)
    <3>1. <<"optimizer">> \in Seq(AllFilters) /\ <<"sampler", "updater">> \in Seq(AllFilters)
      BY DEF AllFilters, OtherFilters
    <3>2. IsSecond(<<"reader">> \o <<"optimizer">>, "optimizer")
      <4>1. PICK m : m = <<"optimizer">>
        OBVIOUS
      <4>2. /\ m \in Seq(AllFilters) /\ Len(m) >= 1 /\ m[1] = "optimizer"
            /\ \A i \in 2..Len(m) : m[i] \notin Finders
        BY <3>1, <4>1
      <4>3. IsSecond(<<"reader">> \o m, "optimizer")
        BY <4>2, BehindReader
      <4> QED  BY <4>1, <4>3
    <3>3. IsSecond(<<"reader">> \o <<"sampler", "updater">>, "sampler")
      <4>1. PICK m : m = <<"sampler", "updater">>
        OBVIOUS
      <4>2. /\ m \in Seq(AllFilters) /\ Len(m) >= 1 /\ m[1] = "sampler"
            /\ \A i \in 2..Len(m) : m[i] \notin Finders
        BY <3>1, <4>1 DEF Finders
      <4>3. IsSecond(<<"reader">> \o m, "sampler")
        BY <4>2, BehindReader
      <4> QED  BY <4>1, <4>3
    <3> QED  BY <3>2, <3>3
  <2>2. Filters = first \o evl \o <<"writer">>
    BY <1>2, Zenon DEF Filters
  <2>3. NotFinders(evl)
    <3>1. NotFinders(<<>>)
      BY DEF NotFinders
    <3>2. NotFinders(<<"eval">>)
      BY DEF NotFinders, AllFilters, OtherFilters, Finders
    <3> QED  BY <3>1, <3>2
  <2>4. NotFinders(<<"writer">>)
    BY DEF NotFinders, AllFilters, OtherFilters, Finders
  <2> HIDE DEF first, evl, found
  <2>5. IsSecond(first \o evl, found)
    BY <2>1, <2>3, SecondStays
  <2>6. IsSecond(Filters, found)
    BY <2>2, <2>4, <2>5, SecondStays
  <2> QED  BY <1>2, <2>6 DEF IsSecond, found
<1> QED  BY <1>1, <1>2

(***************************************************************************)
(* A filter's step leaves the other documents alone, and the topics of its *)
(* own have their number afterwards.                                       *)
(***************************************************************************)
TopicsStep(k) ==
  /\ \A s \in Slots \ {token[k].slot} : ring'[s] = ring[s]
  /\ UNCHANGED <<ignore_old_topic, input_t, output_t>>
  /\ LET topics == ring'[token[k].slot].topic_assignment IN
     IF token'[k].at = 2 /\ (mode = "test" \/ ignore_old_topic)
     THEN topics = <<>> ELSE IsTopicing(k, topics)

LEMMA FilterTopics ==
  ASSUME Inv, mode # "stream", NEW k \in Docs, Filter(k), ~Write(k)
  PROVE  TopicsStep(k)
<1> USE DEF Inv
<1> DEFINE t == token[k]
<1>1. /\ t.slot \in Slots /\ k \in Live /\ Body[k] \in Seq(Words)
      /\ BodyOf(k) = Body[k] /\ IsToken(t) /\ t.at \in 2..Len(Filters)
  <2>1. k \in Live
    BY FilterSteps DEF FilterStep
  <2>2. BodyOf(k) = Body[k]
    BY <2>1 DEF FilesInv, DocsOK
  <2>3. Body[k] \in Seq(Words)
    BY PipelineAssumption DEF Docs
  <2> QED  BY <2>1, <2>2, <2>3 DEF RingInv, TokensOK
<1>2. IF Untopiced(k) THEN TopicsIn(k) = <<>> ELSE IsTopicing(k, TopicsIn(k))
  BY <1>1 DEF FilesInv, DocsOK
<1>3. token = [j \in Docs |-> token[j]]
  BY DEF RingInv, TokensOK
<1>4. ASSUME ring' = ring, token'[k].at = t.at,
             UNCHANGED <<ignore_old_topic, input_t, output_t>>
      PROVE  TopicsStep(k)
  BY <1>2, <1>4 DEF TopicsStep, Untopiced, TopicsIn, Buffer
<1>5. ASSUME ring' = ring, token'[k].at # 2, ~Untopiced(k),
             UNCHANGED <<ignore_old_topic, input_t, output_t>>
      PROVE  TopicsStep(k)
  BY <1>2, <1>5 DEF TopicsStep, TopicsIn, Buffer
<1>6. ASSUME NEW f, In(f, k), f \notin Finders
      PROVE  t.at # 2 /\ ~Untopiced(k) /\ t.at + 1 # 2
  BY <1>1, <1>6, SecondFilter, WriterIsLast DEF In, Untopiced, Finders
<1>7. ASSUME NEW f, In(f, k), f \in Finders
      PROVE  t.at = 2 /\ Filters[2] = f /\ t.at + 1 # 2
  BY <1>1, <1>7, SecondFilter DEF In
<1> USE DEF Finders
<1>8. CASE CopyTotal(k)
  <2>1. PICK v : token' = [token EXCEPT ![k] = [t EXCEPT !.nt = v]]
    BY <1>3, <1>8 DEF CopyTotal
  <2>2. token'[k].at = t.at
    BY <1>1, <1>3, <2>1 DEF IsToken
  <2> QED  BY <1>4, <1>8, <2>2 DEF CopyTotal, controlVars, fileVars
<1>9. CASE Sample(k)
  <2>0. PICK new \in [DOMAIN BodyOf(k) -> Topics] : \E changes :
          /\ ring' = [ring EXCEPT ![t.slot].topic_assignment = new]
          /\ token' = [token EXCEPT ![k] =
                         [Passed(k) EXCEPT !.nt = <<>>, !.changes = changes]]
    BY <1>9 DEF Sample, sample
  <2>1. PICK changes :
          /\ ring' = [ring EXCEPT ![t.slot].topic_assignment = new]
          /\ token' = [token EXCEPT ![k] =
                         [Passed(k) EXCEPT !.nt = <<>>, !.changes = changes]]
    BY <2>0
  <2>2. IsTopicing(k, new)
    <3>1. new \in [1..Len(Body[k]) -> Topics] /\ Len(Body[k]) \in Nat
      BY <1>1
    <3> QED  BY <3>1 DEF IsTopicing
  <2>3. token'[k].at # 2
    <3>1. t.at = 2 /\ In("sampler", k)
      BY <1>7, <1>9 DEF Sample
    <3>2. PICK u : u = [t EXCEPT !.at = @ + 1]
      OBVIOUS
    <3>3. u.at = 3
      BY <1>1, <3>1, <3>2 DEF IsToken
    <3>4. token'[k] = [u EXCEPT !.nt = <<>>, !.changes = changes]
      BY <1>3, <2>1, <3>2 DEF Passed
    <3> QED  BY <3>3, <3>4
  <2> QED  BY <1>1, <1>9, <2>1, <2>2, <2>3, NewTopics
        DEF TopicsStep, Sample, controlVars, fileVars
<1>10. CASE Update(k)
  <2>1. In("updater", k)
    BY <1>10 DEF Update, CountNew, NoChange, Decrement, DecrementTotal,
       Increment, IncrementTotal, Updated, At, Updating
  <2>2. UNCHANGED <<ring, ignore_old_topic, input_t, output_t>>
    BY <1>10 DEF Update, CountNew, NoChange, Decrement, DecrementTotal,
       Increment, IncrementTotal, Updated, UpdateFrame, fileVars
  <2>3. token'[k].at \in {t.at, t.at + 1}
    <3>1. \/ \E step : Step(k, step)
          \/ NextChange(k)
          \/ token' = token
          \/ token' = [token EXCEPT ![k] = [Passed(k) EXCEPT !.changes = <<>>]]
      BY <1>10 DEF Update, CountNew, NoChange, Decrement, DecrementTotal,
         Increment, IncrementTotal, Updated
    <3>2. CASE \E step : Step(k, step)
      <4>1. PICK step : token' = [token EXCEPT ![k] = [t EXCEPT !.step = step]]
        BY <3>2 DEF Step
      <4> QED  BY <1>1, <1>3, <4>1 DEF IsToken
    <3>3. CASE NextChange(k)
      <4>1. PICK v : v = t.n + 1
        OBVIOUS
      <4>2. PICK u : u = [t EXCEPT !.n = v, !.step = "ready"]
        OBVIOUS
      <4>3. token' = [token EXCEPT ![k] = [t EXCEPT !.n = @ + 1, !.step = "ready"]]
        BY <1>1, <1>3, <3>3 DEF NextChange
      <4>4. token'[k] = u
        BY <1>1, <1>3, <4>1, <4>2, <4>3
      <4>5. KeepsPlace(u, t)
        BY <1>1, <4>2, TokenWrites
      <4> QED  BY <4>4, <4>5 DEF KeepsPlace
    <3>4. CASE token' = [token EXCEPT ![k] = [Passed(k) EXCEPT !.changes = <<>>]]
      <4>1. PICK u : u = [t EXCEPT !.at = @ + 1]
        OBVIOUS
      <4>2. u.at = t.at + 1
        BY <1>1, <4>1 DEF IsToken
      <4>3. token'[k] = [u EXCEPT !.changes = <<>>]
        BY <1>3, <3>4, <4>1 DEF Passed
      <4> QED  BY <4>2, <4>3
    <3> QED  BY <3>1, <3>2, <3>3, <3>4
  <2>4. t.at # 2 /\ ~Untopiced(k) /\ t.at + 1 # 2
    BY <1>6, <2>1
  <2> QED  BY <1>5, <2>2, <2>3, <2>4
<1>11. CASE Optimize(k)
  <2>1. In("optimizer", k) /\ token' = [token EXCEPT ![k] = Passed(k)]
    BY <1>11 DEF Optimize
  <2>2. token'[k].at # 2
    BY <1>1, <1>3, <1>7, <2>1 DEF Passed, IsToken
  <2>3. ~Untopiced(k)
    <3>1. ~Testing /\ optimize
      BY <1>7, <2>1, SecondFilter
    <3>2. burnin \in Nat \ {0} /\ iter \in Nat /\ iter > burnin
      BY <3>1, PipelineAssumption DEF optimize, FilesInv, ControlOK
    <3> QED  BY <3>1, <3>2 DEF Untopiced, Testing, FilesInv, ControlOK
  <2> QED  BY <1>5, <1>11, <2>2, <2>3 DEF Optimize, controlVars, fileVars
<1>12. CASE Test(k)
  <2>1. In("tester", k) /\ token' = [token EXCEPT ![k] = Passed(k)]
    BY <1>12 DEF Test
  <2>2. token'[k].at # 2 /\ t.at = 2
    BY <1>1, <1>3, <1>7, <2>1 DEF Passed, IsToken
  <2>3. mode = "test"
    BY <1>7, <2>1, SecondFilter DEF Testing
  <2>0. PICK top \in [Range(BodyOf(k)) -> Topics] :
          ring' = [ring EXCEPT ![t.slot].topic_assignment =
                     @ \o [i \in DOMAIN BodyOf(k) |-> top[BodyOf(k)[i]]]]
    BY <1>12 DEF Test
  <2>4. PICK found :
          /\ found = [i \in DOMAIN BodyOf(k) |-> top[BodyOf(k)[i]]]
          /\ ring' = [ring EXCEPT ![t.slot].topic_assignment = @ \o found]
    BY <2>0
  <2>5. IsTopicing(k, found)
    <3>1. Len(Body[k]) \in Nat /\ DOMAIN Body[k] = 1..Len(Body[k])
      BY <1>1
    <3>2. \A i \in 1..Len(Body[k]) : Body[k][i] \in Range(Body[k])
      BY <3>1 DEF Range
    <3>3. found \in [1..Len(Body[k]) -> Topics]
      BY <1>1, <2>4, <3>1, <3>2
    <3> QED  BY <3>1, <3>3 DEF IsTopicing
  <2>6. TopicsIn(k) = <<>> /\ <<>> \o found = found
    BY <1>2, <2>2, <2>3, <2>5, ConcatEmpty DEF Untopiced, IsTopicing
  <2>7. ring' = [ring EXCEPT ![t.slot].topic_assignment = found]
    <3>1. ring = [s \in Slots |-> ring[s]] /\ IsDoc(ring[t.slot])
      BY <1>1 DEF RingInv, RingOK
    <3> QED  BY <1>1, <2>4, <2>6, <3>1 DEF TopicsIn, Buffer
  <2>8. /\ ring'[t.slot].topic_assignment = found
        /\ \A s \in Slots \ {t.slot} : ring'[s] = ring[s]
    BY <1>1, <2>7, NewTopics
  <2>9. UNCHANGED <<ignore_old_topic, input_t, output_t>>
    BY <1>12 DEF Test, controlVars, fileVars
  <2> QED  BY <2>2, <2>5, <2>8, <2>9 DEF TopicsStep
<1>13. CASE Eval(k)
  <2>1. In("eval", k) /\ token' = [token EXCEPT ![k] = Passed(k)]
    BY <1>13 DEF Eval
  <2>2. ~Untopiced(k) /\ t.at + 1 # 2
    BY <1>6, <2>1
  <2>3. token'[k].at # 2
    BY <1>1, <1>3, <2>1, <2>2 DEF Passed, IsToken
  <2> QED  BY <1>5, <1>13, <2>2, <2>3 DEF Eval, controlVars, fileVars
<1> QED  BY <1>8, <1>9, <1>10, <1>11, <1>12, <1>13 DEF Filter

-----------------------------------------------------------------------------
(***************************************************************************)
(* Every step keeps the documents, the files and the order.                *)
(***************************************************************************)
FilesParts == DocsOK /\ FilesOK /\ ControlOK /\ InOrder

LEMMA AssembleKeepsFiles ==
  ASSUME Inv, mode # "stream", Assemble PROVE FilesParts'
<1>1. FilesParts /\ Live = {} /\ Live' = {}
  BY DEF Inv, FilesInv, FilesParts, RingInv, LastRead, Assemble, Live
<1>2. /\ pc' = "run" /\ pc = "init" /\ iter <= Lasting /\ read' = 0 /\ eof' = FALSE
      /\ UNCHANGED <<mode, iter, ignore_old_topic, input_t, output_t>>
  BY DEF Assemble, fileVars
<1>3. output_t = <<>>
  BY <1>1, <1>2 DEF FilesParts, ControlOK
<1>4. FilesOK'
  BY <1>1, <1>2 DEF FilesParts, FilesOK, IsTopicsFile
<1>5. ControlOK'
  BY <1>1, <1>2 DEF FilesParts, ControlOK, Lasting, Testing
<1>6. InOrder'
  <2>1. \A k \in Docs : ~(Len(output_t) < k /\ k <= 0) /\ Len(output_t) <= 0
    BY <1>3, DocsAre
  <2>2. Len(output_t) <= 0
    BY <1>3
  <2> QED  BY <1>1, <1>2, <2>1, <2>2 DEF InOrder, Docs
<1> QED  BY <1>1, <1>4, <1>5, <1>6 DEF FilesParts, DocsOK

LEMMA ReadKeepsFiles ==
  ASSUME Inv, mode \in Modes, mode # "stream", Read PROVE FilesParts'
<1>1. FilesParts /\ RingInv' /\ RingInv
  BY ReadKeepsRing DEF Inv, FilesInv, FilesParts
<1>2. PICK r : r = read + 1
  OBVIOUS
<1>3. /\ read \in Nat /\ r \in Docs /\ r \in Nat /\ pc = "run" /\ ~eof
      /\ read' = r /\ eof' = FALSE /\ next_doc \in Slots
      /\ UNCHANGED <<mode, iter, pc, ignore_old_topic, input_t, output_t>>
  BY <1>1, <1>2, DocsAre DEF Read, MayRead, RingInv, RingOK, controlVars, fileVars
<1>4. token' = [k \in Docs |->
        IF k = r THEN [at |-> 2, slot |-> next_doc, nt |-> <<>>,
                       changes |-> <<>>, n |-> 1, step |-> "ready"]
                 ELSE token[k]]
  BY <1>1, <1>2 DEF Read, RingInv, TokensOK
<1>5. PICK doc \in Document(r) :
        ring' = [s \in Slots |-> IF s = next_doc THEN doc ELSE ring[s]]
  BY <1>1, <1>2 DEF Read, RingInv, RingOK
<1>6. Live' = Live \cup {r}
  BY <1>3, <1>4 DEF Live, NoToken, Docs
<1>7. r \notin Live
  BY <1>1, <1>2, <1>3, DocsAre DEF RingInv, LastRead
<1>8. DocsOK'
  <2>1. ASSUME NEW k \in Live
        PROVE  /\ BodyOf(k)' = Body[k]
               /\ IF Untopiced(k)' THEN TopicsIn(k)' = <<>>
                  ELSE IsTopicing(k, TopicsIn(k)')
    <3>1. token'[k] = token[k] /\ token'[r].slot = next_doc /\ k # r
      BY <1>3, <1>4, <1>7 DEF Live
    <3>2. token[k].slot \in Slots /\ token[k].slot # next_doc
      BY <1>1, <1>6, <3>1 DEF RingInv, TokensOK, RingIsExclusive
    <3>3. Buffer(k)' = Buffer(k)
      BY <1>5, <3>1, <3>2 DEF Buffer
    <3> QED  BY <1>1, <1>3, <3>1, <3>3
          DEF FilesParts, DocsOK, BodyOf, TopicsIn, Untopiced
  <2>2. /\ BodyOf(r)' = Body[r]
        /\ IF Untopiced(r)' THEN TopicsIn(r)' = <<>>
           ELSE IsTopicing(r, TopicsIn(r)')
    <3>1. token'[r].slot = next_doc /\ token'[r].at = 2
      BY <1>3, <1>4
    <3>2. Buffer(r)' = doc
      BY <1>3, <1>5, <3>1 DEF Buffer
    <3>3. /\ doc.body = Body[r]
          /\ IF mode = "test" \/ ignore_old_topic THEN doc.topic_assignment = <<>>
             ELSE IsTopicing(r, doc.topic_assignment)
      BY <1>3, <1>5, DocumentIs DEF Inv
    <3> QED  BY <1>3, <3>1, <3>2, <3>3 DEF BodyOf, TopicsIn, Untopiced
  <2>3. \A k \in Live' :
          /\ BodyOf(k)' = Body[k]
          /\ IF Untopiced(k)' THEN TopicsIn(k)' = <<>>
             ELSE IsTopicing(k, TopicsIn(k)')
    BY <1>6, <2>1, <2>2
  <2> QED  BY <2>3 DEF DocsOK, IsTopicing
<1>9. FilesOK'
  BY <1>1, <1>3 DEF FilesParts, FilesOK, IsTopicsFile
<1>10. ControlOK'
  BY <1>1, <1>3 DEF FilesParts, ControlOK, Lasting, Testing
<1>11. InOrder'
  <2>1. /\ Live = {k \in Docs : Len(output_t) < k /\ k <= read}
        /\ Len(output_t) <= read /\ Len(output_t) \in Nat
    BY <1>1, <1>3 DEF FilesParts, InOrder, FilesOK
  <2>2. \A k \in Docs : k <= r <=> k <= read \/ k = r
    BY <1>2, <1>3, DocsAre
  <2>3. Len(output_t) <= r /\ Len(output_t) < r
    BY <1>2, <1>3, <2>1
  <2>4. Live' = {k \in Docs : Len(output_t) < k /\ k <= r}
    BY <1>3, <1>6, <2>1, <2>2, <2>3
  <2> QED  BY <1>3, <2>3, <2>4 DEF InOrder
<1> QED  BY <1>8, <1>9, <1>10, <1>11 DEF FilesParts

LEMMA FilterKeepsFiles ==
  ASSUME Inv, mode # "stream", NEW k \in Docs, Filter(k), ~Write(k)
  PROVE  FilesParts'
<1>1. FilesParts /\ RingInv /\ FilterStep(k) /\ TopicsStep(k)
  BY FilterSteps, FilterTopics DEF Inv, FilesInv, FilesParts
<1>2. pc = "run"
  BY DEF Filter, CopyTotal, Sample, Update, CountNew, NoChange, Decrement,
     DecrementTotal, Increment, IncrementTotal, Updated, At, Updating, Optimize,
     Test, Eval, In
<1>3. /\ k \in Live /\ token'[k].slot = token[k].slot /\ token'[k].at # 0
      /\ IsToken(token'[k]) /\ token' = [token EXCEPT ![k] = token'[k]]
      /\ UNCHANGED <<mode, iter, next_doc, read, eof, ignore_old_topic, input_t,
                     output_t>>
      /\ pc' \in {"run", "aborted"} /\ KeepsDocs
  BY <1>1, WriterIsLast DEF FilterStep, TopicsStep, readerVars
<1>4. \A j \in Docs \ {k} : token'[j] = token[j]
  <2>1. token = [j \in Docs |-> token[j]]
    BY <1>1 DEF RingInv, TokensOK
  <2> QED  BY <1>3, <2>1
<1>5. Live' = Live
  BY <1>3, <1>4 DEF Live, NoToken, Docs
<1>6. \A j \in Live : token[j].slot \in Slots /\ token'[j].slot = token[j].slot
  BY <1>1, <1>3, <1>4 DEF RingInv, TokensOK, Live
<1>7. \A j \in Live : BodyOf(j)' = Body[j]
  BY <1>1, <1>3, <1>6 DEF KeepsDocs, BodyOf, Buffer, FilesParts, DocsOK
<1>8. ASSUME NEW j \in Live
      PROVE  IF Untopiced(j)' THEN TopicsIn(j)' = <<>>
             ELSE IsTopicing(j, TopicsIn(j)')
  <2>1. CASE j = k
    BY <1>1, <1>3, <2>1 DEF TopicsStep, Untopiced, TopicsIn, Buffer
  <2>2. CASE j # k
    <3>1. token'[j] = token[j] /\ token[j].slot \in Slots \ {token[k].slot}
      BY <1>1, <1>3, <1>4, <1>6, <2>2 DEF RingInv, RingIsExclusive, Live
    <3>2. Buffer(j)' = Buffer(j)
      BY <1>1, <3>1 DEF TopicsStep, Buffer
    <3> QED  BY <1>1, <1>3, <3>1, <3>2
          DEF FilesParts, DocsOK, TopicsIn, Untopiced
  <2> QED  BY <2>1, <2>2
<1>9. DocsOK'
  BY <1>5, <1>7, <1>8 DEF DocsOK, IsTopicing
<1>10. FilesOK'
  BY <1>1, <1>3 DEF FilesParts, FilesOK, IsTopicsFile
<1>11. ControlOK'
  BY <1>1, <1>2, <1>3 DEF FilesParts, ControlOK
<1>12. InOrder'
  BY <1>1, <1>2, <1>3, <1>5 DEF FilesParts, InOrder
<1> QED  BY <1>9, <1>10, <1>11, <1>12 DEF FilesParts

LEMMA WriteKeepsFiles ==
  ASSUME Inv, mode # "stream", NEW k \in Docs, Write(k) PROVE FilesParts'
<1>1. FilesParts /\ RingInv
  BY DEF Inv, FilesInv, FilesParts
<1>2. /\ k \in Live /\ token[k].at = Len(Filters)
      /\ \A j \in Live : ~(j < k)
      /\ Live' = Live \ {k} /\ \A j \in Live' : token'[j] = token[j]
  BY <1>1, WriterIsBehind
<1>3. /\ pc = "run" /\ output_t' = Append(output_t, Written(k))
      /\ UNCHANGED <<mode, iter, pc, ignore_old_topic, ring, read, eof, input_t>>
  BY DEF Write, In, controlVars, readerVars
<1> DEFINE n == Len(output_t)
<1>4. /\ n \in Nat /\ read \in Nat /\ output_t \in Seq(Records)
      /\ Live = {j \in Docs : n < j /\ j <= read}
      /\ k \in Nat
  BY <1>1, <1>3, DocsAre DEF FilesParts, FilesOK, InOrder, RingInv, RingOK
<1> HIDE DEF n
<1>5. k = n + 1
  <2>1. n < k /\ k <= read /\ k <= Len(Body)
    BY <1>2, <1>4, DocsAre
  <2>2. n + 1 \in Docs /\ n < n + 1 /\ n + 1 <= read
    BY <1>4, <2>1, DocsAre
  <2>3. ~(n + 1 < k)
    BY <1>2, <1>4, <2>2
  <2> QED  BY <1>4, <2>1, <2>3
<1>6. DocsOK'
  BY <1>1, <1>2, <1>3
    DEF FilesParts, DocsOK, BodyOf, TopicsIn, Buffer, Untopiced, IsTopicing
<1>7. /\ Written(k) \in Records /\ IsTopicsOf(k, Written(k))
      /\ IsTopicing(k, TopicsOfRecord(Written(k)))
  <2>1. Len(Filters) # 2
    BY SecondFilter, WriterIsLast
  <2>2. IsTopicing(k, TopicsIn(k))
    BY <1>1, <1>2, <2>1 DEF FilesParts, DocsOK, Untopiced
  <2>3. PICK d : d = Buffer(k)
    OBVIOUS
  <2>4. IsDoc(d) /\ d.docid = k /\ d.topic_assignment \in Seq(Topics)
    BY <1>1, <1>2, <2>2, <2>3
      DEF RingInv, RingOK, TokensOK, RingIsExclusive, Buffer, TopicsIn, IsTopicing
  <2>5. Written(k) = SerializeToString([d EXCEPT !.body = <<>>])
    BY <2>3 DEF Written
  <2>6. TopicsOfRecord(Written(k)) = TopicsIn(k)
    BY <1>4, <2>3, <2>4, <2>5, Writes DEF TopicsIn
  <2> QED  BY <1>4, <2>2, <2>4, <2>5, <2>6, Writes
<1>8. /\ output_t' \in Seq(Records) /\ Len(output_t') = n + 1
      /\ DOMAIN output_t' = 1..n + 1 /\ DOMAIN output_t = 1..n
      /\ \A j \in 1..n : output_t'[j] = output_t[j]
      /\ output_t'[n + 1] = Written(k)
  BY <1>3, <1>4, <1>7 DEF n
<1>9. IsTopicsFile(output_t')
  <2>1. ASSUME NEW j \in 1..n + 1
        PROVE  /\ IsTopicsOf(j, output_t'[j])
               /\ IsTopicing(j, TopicsOfRecord(output_t'[j]))
    <3>1. CASE j = n + 1
      BY <1>5, <1>7, <1>8, <3>1
    <3>2. CASE j # n + 1
      <4>1. j \in 1..n
        BY <1>4, <3>2
      <4> QED  BY <1>1, <1>8, <4>1 DEF FilesParts, FilesOK, IsTopicsFile
    <3> QED  BY <3>1, <3>2
  <2> QED  BY <1>8, <2>1 DEF IsTopicsFile
<1>10. FilesOK'
  BY <1>1, <1>3, <1>8, <1>9 DEF FilesParts, FilesOK, IsTopicsFile, IsTopicing
<1>11. ControlOK'
  BY <1>1, <1>3 DEF FilesParts, ControlOK
<1>12. InOrder'
  <2>1. Live' = {j \in Docs : n + 1 < j /\ j <= read}
    <3>1. \A j \in Docs : n + 1 < j <=> n < j /\ j # n + 1
      BY <1>4, DocsAre
    <3> QED  BY <1>2, <1>4, <1>5, <3>1
  <2>2. n + 1 <= read
    BY <1>2, <1>4, <1>5
  <2> QED  BY <1>3, <1>8, <2>1, <2>2 DEF InOrder
<1> QED  BY <1>6, <1>10, <1>11, <1>12 DEF FilesParts

LEMMA IterationDoneKeepsFiles ==
  ASSUME Inv, mode # "stream", IterationDone PROVE FilesParts'
<1>1. FilesParts /\ Live = {} /\ Live' = {} /\ RingInv
  BY DEF Inv, FilesInv, FilesParts, IterationDone, Live
<1>2. /\ pc = "run" /\ eof /\ input_t' = output_t
      /\ output_t' = (IF Testing THEN output_t ELSE <<>>)
      /\ ignore_old_topic' = FALSE /\ iter' = iter + 1 /\ pc' = "init"
      /\ UNCHANGED <<mode, read, eof>>
  BY DEF IterationDone, readerVars
<1>3. DOMAIN output_t = Docs
  <2>1. /\ {} = {j \in Docs : Len(output_t) < j /\ j <= read}
        /\ Len(output_t) <= read /\ read = Len(Body) /\ Len(output_t) \in Nat
    BY <1>1, <1>2 DEF FilesParts, FilesOK, InOrder, ControlOK
  <2>2. ~(Len(output_t) < Len(Body))
    BY <2>1, DocsAre
  <2>3. Len(output_t) = Len(Body)
    BY <2>1, <2>2, DocsAre
  <2> QED  BY <1>1, <2>3, DocsAre DEF FilesParts, FilesOK
<1>4. FilesOK'
  <2>1. output_t \in Seq(Records) /\ IsTopicsFile(output_t)
    BY <1>1 DEF FilesParts, FilesOK
  <2>2. IsTopicsFile(input_t') /\ DOMAIN input_t' = Docs
    BY <1>2, <1>3, <2>1
  <2>3. output_t' \in Seq(Records) /\ IsTopicsFile(output_t')
    BY <1>2, <2>1 DEF IsTopicsFile
  <2> QED  BY <2>2, <2>3 DEF FilesOK, IsTopicsFile, Docs
<1>5. ControlOK'
  <2>1. /\ mode \in {"train", "online", "test"} /\ iter \in Nat /\ iter >= 1
        /\ read = Len(Body)
    BY <1>1, <1>2 DEF FilesParts, ControlOK
  <2>2. iter' \in Nat /\ iter' >= 1 /\ iter' # 1 /\ ~(iter' <= 1)
    BY <1>2, <2>1
  <2>3. ~Testing => output_t' = <<>>
    BY <1>2
  <2>4. Testing => Lasting' = 1
    BY <1>2 DEF Lasting, Testing
  <2>5. iter' <= Lasting' => output_t' = <<>>
    BY <2>2, <2>3, <2>4
  <2> QED  BY <1>2, <2>1, <2>2, <2>5 DEF ControlOK
<1> QED  BY <1>1, <1>2, <1>4, <1>5 DEF FilesParts, DocsOK, InOrder

LEMMA StepKeepsFiles == Inv /\ mode \in Modes /\ [Next]_vars => FilesInv'
<1> SUFFICES ASSUME Inv, mode \in Modes, [Next]_vars PROVE FilesInv'
  OBVIOUS
<1>0. mode' = mode
  BY ModeStays
<1> SUFFICES ASSUME mode # "stream" PROVE FilesParts'
  BY <1>0 DEF FilesInv, FilesParts
<1>1. CASE Assemble
  BY <1>1, AssembleKeepsFiles
<1>2. CASE Read
  BY <1>2, ReadKeepsFiles
<1>3. CASE ReadEnd
  <2>1. /\ read = Len(Body) /\ pc = "run"
        /\ UNCHANGED <<controlVars, ring, read, token, fileVars>>
    BY <1>3 DEF ReadEnd, MayRead
  <2> QED  BY <2>1 DEF Inv, FilesInv, FilesParts, DocsOK, FilesOK, ControlOK,
        InOrder, controlVars, fileVars, Live, BodyOf, TopicsIn, Buffer, Untopiced,
        IsTopicing, IsTopicsFile, Lasting, Testing
<1>4. CASE IterationDone
  BY <1>4, IterationDoneKeepsFiles
<1>5. CASE Finish
  <2>1. /\ pc' = "done"
        /\ UNCHANGED <<mode, iter, ignore_old_topic, ring, read, eof, token, fileVars>>
    BY <1>5 DEF Finish, readerVars
  <2> QED  BY <2>1 DEF Inv, FilesInv, FilesParts, DocsOK, FilesOK, ControlOK,
        InOrder, fileVars, Live, BodyOf, TopicsIn, Buffer, Untopiced,
        IsTopicing, IsTopicsFile, Lasting, Testing
<1>6. CASE \E k \in Docs : Filter(k)
  BY <1>6, FilterKeepsFiles, WriteKeepsFiles
<1>7. CASE UNCHANGED vars
  <2>1. UNCHANGED <<controlVars, ring, read, eof, token, fileVars>>
    BY <1>7 DEF vars, readerVars
  <2> QED  BY <2>1 DEF Inv, FilesInv, FilesParts, DocsOK, FilesOK, ControlOK,
        InOrder, controlVars, fileVars, Live, BodyOf, TopicsIn, Buffer, Untopiced,
        IsTopicing, IsTopicsFile, Lasting, Testing
<1> QED  BY <1>1, <1>2, <1>3, <1>4, <1>5, <1>6, <1>7 DEF Next

LEMMA InvHolds == Spec => [](Inv /\ mode \in Modes)
<1>1. Init => Inv /\ mode \in Modes
  BY RingInit, FilesInit DEF Inv, Init
<1>2. Inv /\ mode \in Modes /\ [Next]_vars => (Inv /\ mode \in Modes)'
  BY StepKeepsRing, StepKeepsFiles, ModeStays DEF Inv
<1> QED  BY <1>1, <1>2, PTL DEF Spec

(***************************************************************************)
(* Two documents in the pipeline never share a buffer of the ring, however *)
(* many documents there are and whatever the ring's length.                *)
(***************************************************************************)
THEOREM RingExclusive == Spec => []RingIsExclusive
<1>1. Inv => RingIsExclusive
  BY DEF Inv, RingInv
<1> QED  BY <1>1, InvHolds, PTL

(***************************************************************************)
(* The documents in the pipeline keep the words they were formatted with   *)
(* and have a topic for each, whatever iteration it is: the file of topics *)
(* is read and written in the order of the documents.                      *)
(***************************************************************************)
THEOREM WordsKept == Spec => []DocumentsKeepTheirWords
<1>1. Inv => DocumentsKeepTheirWords
  <2> SUFFICES ASSUME Inv, mode # "stream", NEW k \in Live
               PROVE  /\ BodyOf(k) = Body[k]
                      /\ \/ Len(TopicsIn(k)) = Len(Body[k])
                         \/ /\ TopicsIn(k) = <<>>
                            /\ mode = "test" \/ (mode = "online" /\ iter = 1)
    BY DEF DocumentsKeepTheirWords
  <2>1. DocsOK /\ ControlOK
    BY DEF Inv, FilesInv
  <2>2. CASE Untopiced(k)
    BY <2>1, <2>2 DEF DocsOK, ControlOK, Untopiced
  <2>3. CASE ~Untopiced(k)
    BY <2>1, <2>3 DEF DocsOK, IsTopicing
  <2> QED  BY <2>2, <2>3
<1> QED  BY <1>1, InvHolds, PTL

-----------------------------------------------------------------------------
(***************************************************************************)
(* The optimizer: the partial gradients hold the documents since the last  *)
(* one whose number was divided by tau, and that one.                      *)
(***************************************************************************)
LEMMA ModIs ==
  ASSUME NEW n \in Nat, NEW l \in Nat, l > 0, NEW q \in Nat, NEW r \in 0..l - 1,
         n = q * l + r
  PROVE  n % l = r
OBVIOUS

LEMMA ModOfNext ==
  ASSUME NEW n \in Nat, NEW l \in Nat, l > 0
  PROVE  /\ n % l \in 0..l - 1
         /\ (n + 1) % l = IF n % l = l - 1 THEN 0 ELSE (n % l) + 1
<1>1. /\ n % l \in 0..l - 1 /\ n \div l \in Nat
      /\ n = (n \div l) * l + (n % l)
  OBVIOUS
<1>2. PICK q \in Nat, r \in 0..l - 1 : n = q * l + r /\ n % l = r
  BY <1>1
<1>3. CASE r = l - 1
  <2>1. n + 1 = (q + 1) * l + 0 /\ q + 1 \in Nat /\ 0 \in 0..l - 1 /\ n + 1 \in Nat
    BY <1>2, <1>3
  <2>2. (n + 1) % l = 0
    BY <2>1, ModIs
  <2> QED  BY <1>2, <1>3, <2>2
<1>4. CASE r # l - 1
  <2>1. n + 1 = q * l + (r + 1) /\ r + 1 \in 0..l - 1 /\ n + 1 \in Nat
    BY <1>2, <1>4
  <2>2. (n + 1) % l = r + 1
    BY <1>2, <2>1, ModIs
  <2> QED  BY <1>2, <1>4, <2>2
<1> QED  BY <1>1, <1>3, <1>4

Batches ==
  /\ doc_index \in Nat \cup {-1}
  /\ part_grads = IF doc_index = -1 THEN 0 ELSE (doc_index % tau) + 1

LEMMA Tau == tau \in Nat /\ tau > 0
BY PipelineAssumption

LEMMA OptimizeBatches ==
  ASSUME Batches, NEW k \in Docs, Optimize(k)
  PROVE  Batches' /\ (alphas' # alphas => part_grads = tau)
<1>1. /\ doc_index' = doc_index + 1
      /\ alphas' = IF StepDue THEN alphas + 1 ELSE alphas
      /\ part_grads' = (IF StepDue THEN 0 ELSE part_grads) + 1
  BY DEF Optimize
<1>2. CASE doc_index = -1
  <2>1. doc_index' = 0 /\ 0 % tau = 0
    BY <1>1, <1>2, Tau, ModIs
  <2> QED  BY <1>1, <1>2, <2>1 DEF Batches, StepDue
<1>3. CASE doc_index \in Nat
  <2>1. /\ part_grads = (doc_index % tau) + 1
        /\ doc_index % tau \in 0..tau - 1
        /\ doc_index' % tau = IF doc_index % tau = tau - 1 THEN 0
                              ELSE (doc_index % tau) + 1
    <3>1. part_grads = (doc_index % tau) + 1
      BY <1>3 DEF Batches
    <3>2. /\ doc_index % tau \in 0..tau - 1
          /\ (doc_index + 1) % tau = IF doc_index % tau = tau - 1 THEN 0
                                     ELSE (doc_index % tau) + 1
      BY <1>3, Tau, ModOfNext
    <3> QED  BY <1>1, <3>1, <3>2
  <2>2. doc_index' \in Nat /\ doc_index' # 0
    BY <1>1, <1>3
  <2> QED  BY <1>1, <2>1, <2>2, Tau DEF Batches, StepDue
<1> QED  BY <1>2, <1>3 DEF Batches

LEMMA StepBatches ==
  Batches /\ [Next]_vars => Batches' /\ (alphas' # alphas => part_grads = tau)
<1> SUFFICES ASSUME Batches, [Next]_vars
             PROVE  Batches' /\ (alphas' # alphas => part_grads = tau)
  OBVIOUS
<1>1. CASE \E k \in Docs : Optimize(k)
  BY <1>1, OptimizeBatches
<1>2. CASE ~\E k \in Docs : Optimize(k)
  <2>1. UNCHANGED gradVars
    BY <1>2 DEF Next, vars, Assemble, Read, ReadEnd, IterationDone, Finish, Filter,
       CopyTotal, Sample, Update, CountNew, NoChange, Decrement, DecrementTotal,
       Increment, IncrementTotal, Updated, UpdateFrame, Test, Eval, Write
  <2> QED  BY <2>1 DEF gradVars, Batches
<1> QED  BY <1>1, <1>2

(***************************************************************************)
(* Alpha moves along the gradients of exactly tau documents, whatever tau  *)
(* and however many iterations and documents there are.                    *)
(***************************************************************************)
THEOREM BatchesComplete == Spec => BatchesOfTau
<1>1. Init => Batches
  BY DEF Init, Batches
<1> QED  BY <1>1, StepBatches, PTL DEF Spec, BatchesOfTau

-----------------------------------------------------------------------------
(***************************************************************************)
(* The counts of words and topics that topics of the documents give: X is  *)
(* a family of topics, X[k][i] the topic of the i-th word of document k.   *)
(* What the counts become when the topic of one word changes.              *)
(***************************************************************************)

\* The places of words in the corpus.
Places == UNION {{<<k, i>> : i \in Positions(k)} : k \in Docs}

LEMMA PlacesAre ==
  ASSUME NEW k, NEW i
  PROVE  <<k, i>> \in Places <=> k \in Docs /\ i \in Positions(k)
BY DEF Places

LEMMA PlacesFinite == IsFiniteSet(Places)
<1> DEFINE Of(k) == {<<k, i>> : i \in Positions(k)}
           All == {Of(k) : k \in Docs}
<1>1. ASSUME NEW k \in Docs PROVE IsFiniteSet(Of(k))
  <2>1. Positions(k) = 1..Len(Body[k]) /\ Len(Body[k]) \in Nat
    BY PipelineAssumption DEF Positions, Docs
  <2>2. IsFiniteSet(Positions(k))
    BY <2>1, FS_Interval
  <2> DEFINE f == [i \in Positions(k) |-> <<k, i>>]
  <2>3. Of(k) = {f[i] : i \in Positions(k)}
    OBVIOUS
  <2>4. f \in Surjection(Positions(k), Of(k))
    BY <2>3 DEF Surjection
  <2> HIDE DEF f, Of
  <2> QED  BY <2>2, <2>4, FS_Surjection
<1>2. IsFiniteSet(All)
  <2>1. IsFiniteSet(Docs)
    BY DocsAre, FS_Interval
  <2> DEFINE f == [k \in Docs |-> Of(k)]
  <2>2. f \in Surjection(Docs, All)
    <3> HIDE DEF Of
    <3> QED  BY DEF Surjection
  <2> HIDE DEF f, All
  <2> QED  BY <2>1, <2>2, FS_Surjection
<1>3. Places = UNION All
  BY DEF Places
<1> HIDE DEF Of
<1>4. \A s \in All : IsFiniteSet(s)
  BY <1>1
<1> HIDE DEF All
<1> QED  BY <1>2, <1>3, <1>4, FS_UNION

LEMMA OccurrencesAre ==
  ASSUME NEW X, NEW w, NEW t
  PROVE  /\ Occurrences(X, w, t) =
              {p \in Places : Body[p[1]][p[2]] = w /\ X[p[1]][p[2]] = t}
         /\ IsFiniteSet(Occurrences(X, w, t))
         /\ Cardinality(Occurrences(X, w, t)) \in Nat
<1> DEFINE O == {p \in Places : Body[p[1]][p[2]] = w /\ X[p[1]][p[2]] = t}
<1>1. Occurrences(X, w, t) \subseteq O
  BY DEF Occurrences, Places
<1>2. O \subseteq Occurrences(X, w, t)
  <2> SUFFICES ASSUME NEW p \in O PROVE p \in Occurrences(X, w, t)
    OBVIOUS
  <2>1. PICK k \in Docs : p \in {<<k, i>> : i \in Positions(k)}
    BY DEF Places
  <2>2. PICK i \in Positions(k) : p = <<k, i>>
    BY <2>1
  <2>3. i \in {n \in Positions(k) : Body[k][n] = w /\ X[k][n] = t}
    BY <2>2
  <2> QED  BY <2>2, <2>3 DEF Occurrences
<1>3. IsFiniteSet(O)
  BY PlacesFinite, FS_Subset
<1> QED  BY <1>1, <1>2, <1>3, FS_CardinalityType

One(S, p) == IF p \in S THEN 1 ELSE 0

\* Whether a place has word w and topic t, and whether it has topic t.
Counted(X, k, i, w, t) == IF Body[k][i] = w /\ X[k][i] = t THEN 1 ELSE 0
Topiced(X, k, i, t) == IF X[k][i] = t THEN 1 ELSE 0

\* A set that gets an element or loses one.
LEMMA CountOne ==
  ASSUME NEW A, NEW B, IsFiniteSet(A), NEW p, \A q : q # p => (q \in A <=> q \in B)
  PROVE  Cardinality(B) = Cardinality(A) + One(B, p) - One(A, p)
<1>1. Cardinality(A) \in Nat
  BY FS_CardinalityType
<1>2. CASE p \in A /\ p \in B
  <2>1. A = B
    BY <1>2
  <2> QED  BY <1>1, <1>2, <2>1 DEF One
<1>3. CASE p \in A /\ p \notin B
  <2>1. B = A \ {p}
    BY <1>3
  <2> QED  BY <1>1, <1>3, <2>1, FS_RemoveElement DEF One
<1>4. CASE p \notin A /\ p \in B
  <2>1. B = A \cup {p}
    BY <1>4
  <2> QED  BY <1>1, <1>4, <2>1, FS_AddElement DEF One
<1>5. CASE p \notin A /\ p \notin B
  <2>1. A = B
    BY <1>5
  <2> QED  BY <1>1, <1>5, <2>1 DEF One
<1> QED  BY <1>2, <1>3, <1>4, <1>5

\* Y has other topics than X at one place only.
DiffersAt(X, Y, k, i) ==
  \A j \in Docs : \A n \in Positions(j) : j # k \/ n # i => Y[j][n] = X[j][n]

LEMMA OccurrencesChange ==
  ASSUME NEW X, NEW Y, NEW k \in Docs, NEW i \in Positions(k), DiffersAt(X, Y, k, i),
         NEW w, NEW t
  PROVE  Cardinality(Occurrences(Y, w, t)) =
           Cardinality(Occurrences(X, w, t)) + Counted(Y, k, i, w, t)
             - Counted(X, k, i, w, t)
<1> DEFINE A == Occurrences(X, w, t)
           B == Occurrences(Y, w, t)
           p == <<k, i>>
<1>1. p \in Places
  BY PlacesAre
<1>2. p \in A <=> Body[k][i] = w /\ X[k][i] = t
  BY <1>1, OccurrencesAre
<1>3. p \in B <=> Body[k][i] = w /\ Y[k][i] = t
  BY <1>1, OccurrencesAre
<1>4. ASSUME NEW q, q # p PROVE q \in A <=> q \in B
  <2>1. CASE q \in Places
    <3>0. PICK j \in Docs : q \in {<<j, n>> : n \in Positions(j)}
      BY <2>1 DEF Places
    <3>1. PICK n \in Positions(j) : q = <<j, n>>
      BY <3>0
    <3>2. Y[j][n] = X[j][n]
      BY <1>4, <3>1 DEF DiffersAt
    <3>3. q \in A <=> Body[j][n] = w /\ X[j][n] = t
      BY <2>1, <3>1, OccurrencesAre
    <3>4. q \in B <=> Body[j][n] = w /\ Y[j][n] = t
      BY <2>1, <3>1, OccurrencesAre
    <3> QED  BY <3>2, <3>3, <3>4
  <2>2. CASE q \notin Places
    BY <2>2, OccurrencesAre
  <2> QED  BY <2>1, <2>2
<1>5. IsFiniteSet(A)
  BY OccurrencesAre
<1> HIDE DEF A, B, p
<1>6. Cardinality(B) = Cardinality(A) + One(B, p) - One(A, p)
  BY <1>4, <1>5, CountOne
<1> QED  BY <1>2, <1>3, <1>6 DEF One, Counted, A, B

\* The words of the corpus and its topics as numbers.
LEMMA WordIs ==
  ASSUME NEW k \in Docs, NEW i \in Positions(k)
  PROVE  Body[k][i] \in Words
BY PipelineAssumption DEF Docs, Positions

LEMMA TopicsAre == Topics \subseteq Nat \ {0} /\ Cardinality(Topics) \in Nat
<1>1. Cardinality(Topics) \in Nat
  BY PipelineAssumption, FS_CardinalityType
<1> QED  BY <1>1, PipelineAssumption

LEMMA CountsChange ==
  ASSUME NEW X, NEW Y, NEW k \in Docs, NEW i \in Positions(k), DiffersAt(X, Y, k, i),
         NEW w \in Words, NEW t \in Topics
  PROVE  /\ CountsOf(X)[w][t] \in Nat
         /\ CountsOf(Y)[w][t] =
              CountsOf(X)[w][t] + Counted(Y, k, i, w, t)
                - Counted(X, k, i, w, t)
<1>1. /\ CountsOf(X)[w][t] = Cardinality(Occurrences(X, w, t))
      /\ CountsOf(Y)[w][t] = Cardinality(Occurrences(Y, w, t))
  BY DEF CountsOf
<1> QED  BY <1>1, OccurrencesAre, OccurrencesChange

LEMMA TotalsChange ==
  ASSUME NEW X, NEW Y, NEW k \in Docs, NEW i \in Positions(k), DiffersAt(X, Y, k, i),
         NEW t \in Topics
  PROVE  /\ TotalsOf(CountsOf(X))[t] \in Int
         /\ TotalsOf(CountsOf(Y))[t] =
           TotalsOf(CountsOf(X))[t] + Topiced(Y, k, i, t) - Topiced(X, k, i, t)
<1> DEFINE f == [w \in Words |-> CountsOf(X)[w][t]]
           g == [w \in Words |-> CountsOf(Y)[w][t]]
           v == Body[k][i]
<1>1. /\ TotalsOf(CountsOf(X))[t] = SumFunction(f)
      /\ TotalsOf(CountsOf(Y))[t] = SumFunction(g)
  BY DEF TotalsOf
<1>2. \A w \in Words : /\ f[w] \in Nat
                       /\ g[w] = f[w] + Counted(Y, k, i, w, t)
                                      - Counted(X, k, i, w, t)
  BY CountsChange
<1>3. \A w \in Words : g[w] \in Int /\ f[w] \in Int
  BY <1>2 DEF Counted, Topiced
<1>4. /\ v \in Words /\ IsFiniteSet(Words)
      /\ \A w \in Words : w # v => g[w] = f[w]
  BY <1>2, WordIs, PipelineAssumption DEF Counted, Topiced
<1>5. g[v] = f[v] + Topiced(Y, k, i, t) - Topiced(X, k, i, t)
  <2>1. /\ Counted(Y, k, i, v, t) = Topiced(Y, k, i, t)
        /\ Counted(X, k, i, v, t) = Topiced(X, k, i, t)
    BY DEF Counted, Topiced
  <2> HIDE DEF f, g
  <2> QED  BY <1>2, <1>4, <2>1
<1>6. f \in [Words -> Int] /\ g \in [Words -> Int]
  BY <1>3
<1> HIDE DEF f, g
<1>7. SumFunction(g) = SumFunction(f) + g[v] - f[v] /\ SumFunction(f) \in Int
  BY <1>4, <1>6, TotalChange, TotalInt
<1>8. f[v] \in Int /\ Topiced(Y, k, i, t) \in Int /\ Topiced(X, k, i, t) \in Int
  BY <1>4, <1>6 DEF Counted, Topiced
<1> QED  BY <1>1, <1>5, <1>7, <1>8

IsTable(c) == c = [w \in Words |-> [t \in Topics |-> c[w][t]]]

LEMMA CountsAreTable ==
  ASSUME NEW X
  PROVE  /\ IsTable(CountsOf(X))
         /\ TotalsOf(CountsOf(X)) = [t \in Topics |-> TotalsOf(CountsOf(X))[t]]
BY DEF CountsOf, IsTable, TotalsOf

\* A word's topic is counted no more.
LEMMA CountsDown ==
  ASSUME NEW X, NEW Y, NEW k \in Docs, NEW i \in Positions(k), DiffersAt(X, Y, k, i),
         NEW old \in Topics, X[k][i] = old, Y[k][i] = 0
  PROVE  /\ CountsOf(X)[Body[k][i]][old] > 0
         /\ CountsOf(Y) = [CountsOf(X) EXCEPT ![Body[k][i]][old] = @ - 1]
<1> DEFINE v == Body[k][i]
           C == CountsOf(X)
           D == CountsOf(Y)
<1>1. v \in Words /\ 0 \notin Topics
  BY WordIs, TopicsAre
<1>2. IsTable(C) /\ IsTable(D)
  BY CountsAreTable
<1>3. \A w \in Words : \A t \in Topics :
        /\ C[w][t] \in Nat
        /\ D[w][t] = C[w][t] - Counted(X, k, i, w, t)
  <2> SUFFICES ASSUME NEW w \in Words, NEW t \in Topics
               PROVE  /\ C[w][t] \in Nat
                      /\ D[w][t] = C[w][t] - Counted(X, k, i, w, t)
    OBVIOUS
  <2>1. Counted(Y, k, i, w, t) = 0 /\ Counted(X, k, i, w, t) \in Int
    BY <1>1 DEF Counted
  <2>2. /\ C[w][t] \in Nat
        /\ D[w][t] = C[w][t] + Counted(Y, k, i, w, t) - Counted(X, k, i, w, t)
    BY CountsChange
  <2> HIDE DEF C, D
  <2> QED  BY <2>1, <2>2
<1>4. D[v][old] \in Nat
  BY <1>1, OccurrencesAre DEF CountsOf
<1>5. C[v][old] > 0
  BY <1>1, <1>3, <1>4 DEF Counted
<1>6. D = [w \in Words |-> [t \in Topics |->
             IF w = v /\ t = old THEN C[w][t] - 1 ELSE C[w][t]]]
  BY <1>2, <1>3 DEF IsTable, Counted
<1>7. [C EXCEPT ![v][old] = @ - 1] =
        [w \in Words |-> [t \in Topics |->
             IF w = v /\ t = old THEN C[w][t] - 1 ELSE C[w][t]]]
  <2> HIDE DEF C, v
  <2> QED  BY <1>1, <1>2 DEF IsTable
<1> QED  BY <1>5, <1>6, <1>7

LEMMA TotalsDown ==
  ASSUME NEW X, NEW Y, NEW k \in Docs, NEW i \in Positions(k), DiffersAt(X, Y, k, i),
         NEW old \in Topics, X[k][i] = old, Y[k][i] = 0
  PROVE  TotalsOf(CountsOf(Y)) = [TotalsOf(CountsOf(X)) EXCEPT ![old] = @ - 1]
<1> DEFINE C == CountsOf(X)
           D == CountsOf(Y)
<1>1. \A t \in Topics : /\ TotalsOf(C)[t] \in Int
                        /\ TotalsOf(D)[t] = TotalsOf(C)[t] - Topiced(X, k, i, t)
  <2> SUFFICES ASSUME NEW t \in Topics
               PROVE  /\ TotalsOf(C)[t] \in Int
                      /\ TotalsOf(D)[t] = TotalsOf(C)[t] - Topiced(X, k, i, t)
    OBVIOUS
  <2>1. Topiced(Y, k, i, t) = 0 /\ Topiced(X, k, i, t) \in Int
    BY TopicsAre DEF Topiced
  <2>2. /\ TotalsOf(C)[t] \in Int
        /\ TotalsOf(D)[t] = TotalsOf(C)[t] + Topiced(Y, k, i, t)
                              - Topiced(X, k, i, t)
    BY TotalsChange
  <2> HIDE DEF C, D
  <2> QED  BY <2>1, <2>2
<1>2. /\ TotalsOf(C) = [t \in Topics |-> TotalsOf(C)[t]]
      /\ TotalsOf(D) = [t \in Topics |-> TotalsOf(D)[t]]
  BY CountsAreTable
<1>3. \A t \in Topics : Topiced(X, k, i, t) = IF old = t THEN 1 ELSE 0
  BY DEF Topiced
<1> HIDE DEF C, D
<1>4. \A t \in Topics : TotalsOf(D)[t] = IF t = old THEN TotalsOf(C)[t] - 1
                                         ELSE TotalsOf(C)[t]
  BY <1>1, <1>3
<1>5. TotalsOf(D) = [TotalsOf(C) EXCEPT ![old] = @ - 1]
  BY <1>2, <1>4
<1> QED  BY <1>5 DEF C, D

\* A word without a topic gets one.
LEMMA CountsUp ==
  ASSUME NEW X, NEW Y, NEW k \in Docs, NEW i \in Positions(k), DiffersAt(X, Y, k, i),
         X[k][i] = 0, NEW new \in Topics, Y[k][i] = new
  PROVE  CountsOf(Y) = [CountsOf(X) EXCEPT ![Body[k][i]][new] = @ + 1]
<1> DEFINE v == Body[k][i]
           C == CountsOf(X)
           D == CountsOf(Y)
<1>1. v \in Words /\ 0 \notin Topics
  BY WordIs, TopicsAre
<1>2. IsTable(C) /\ IsTable(D)
  BY CountsAreTable
<1>3. \A w \in Words : \A t \in Topics :
        /\ C[w][t] \in Nat
        /\ D[w][t] = C[w][t] + Counted(Y, k, i, w, t)
  <2> SUFFICES ASSUME NEW w \in Words, NEW t \in Topics
               PROVE  /\ C[w][t] \in Nat
                      /\ D[w][t] = C[w][t] + Counted(Y, k, i, w, t)
    OBVIOUS
  <2>1. Counted(X, k, i, w, t) = 0 /\ Counted(Y, k, i, w, t) \in Int
    BY <1>1 DEF Counted
  <2>2. /\ C[w][t] \in Nat
        /\ D[w][t] = C[w][t] + Counted(Y, k, i, w, t) - Counted(X, k, i, w, t)
    BY CountsChange
  <2> HIDE DEF C, D
  <2> QED  BY <2>1, <2>2
<1>4. D = [w \in Words |-> [t \in Topics |->
             IF w = v /\ t = new THEN C[w][t] + 1 ELSE C[w][t]]]
  BY <1>2, <1>3 DEF IsTable, Counted
<1>5. [C EXCEPT ![v][new] = @ + 1] =
        [w \in Words |-> [t \in Topics |->
             IF w = v /\ t = new THEN C[w][t] + 1 ELSE C[w][t]]]
  <2> HIDE DEF C, v
  <2> QED  BY <1>1, <1>2 DEF IsTable
<1> QED  BY <1>4, <1>5

LEMMA TotalsUp ==
  ASSUME NEW X, NEW Y, NEW k \in Docs, NEW i \in Positions(k), DiffersAt(X, Y, k, i),
         X[k][i] = 0, NEW new \in Topics, Y[k][i] = new
  PROVE  TotalsOf(CountsOf(Y)) = [TotalsOf(CountsOf(X)) EXCEPT ![new] = @ + 1]
<1> DEFINE C == CountsOf(X)
           D == CountsOf(Y)
<1>1. \A t \in Topics : /\ TotalsOf(C)[t] \in Int
                        /\ TotalsOf(D)[t] = TotalsOf(C)[t] + Topiced(Y, k, i, t)
  <2> SUFFICES ASSUME NEW t \in Topics
               PROVE  /\ TotalsOf(C)[t] \in Int
                      /\ TotalsOf(D)[t] = TotalsOf(C)[t] + Topiced(Y, k, i, t)
    OBVIOUS
  <2>1. Topiced(X, k, i, t) = 0 /\ Topiced(Y, k, i, t) \in Int
    BY TopicsAre DEF Topiced
  <2>2. /\ TotalsOf(C)[t] \in Int
        /\ TotalsOf(D)[t] = TotalsOf(C)[t] + Topiced(Y, k, i, t)
                              - Topiced(X, k, i, t)
    BY TotalsChange
  <2> HIDE DEF C, D
  <2> QED  BY <2>1, <2>2
<1>2. /\ TotalsOf(C) = [t \in Topics |-> TotalsOf(C)[t]]
      /\ TotalsOf(D) = [t \in Topics |-> TotalsOf(D)[t]]
  BY CountsAreTable
<1>3. \A t \in Topics : Topiced(Y, k, i, t) = IF new = t THEN 1 ELSE 0
  BY DEF Topiced
<1> HIDE DEF C, D
<1>4. \A t \in Topics : TotalsOf(D)[t] = IF t = new THEN TotalsOf(C)[t] + 1
                                         ELSE TotalsOf(C)[t]
  BY <1>1, <1>3
<1>5. TotalsOf(D) = [TotalsOf(C) EXCEPT ![new] = @ + 1]
  BY <1>2, <1>4
<1> QED  BY <1>5 DEF C, D

-----------------------------------------------------------------------------
(***************************************************************************)
(* The totals of the counts are numbers of places, and the totals less a   *)
(* document's own words still cover any other document.                    *)
(***************************************************************************)

\* The places with topic t.
With(X, t) == {p \in Places : X[p[1]][p[2]] = t}

\* The total of a topic counts its places, whatever their words.
LEMMA TotalIs ==
  ASSUME NEW X, NEW t \in Topics
  PROVE  TotalsOf(CountsOf(X))[t] = Cardinality(With(X, t))
<1> DEFINE f == [w \in Words |-> CountsOf(X)[w][t]]
           Of(T) == {p \in Places : Body[p[1]][p[2]] \in T /\ X[p[1]][p[2]] = t}
           Good == {T \in SUBSET Words : SumFunctionOnSet(f, T) = Cardinality(Of(T))}
<1>1. IsFiniteSet(Words)
  BY PipelineAssumption
<1>2. \A w \in Words : f[w] = Cardinality(Occurrences(X, w, t)) /\ f[w] \in Nat
  BY OccurrencesAre DEF CountsOf
<1>3. \A T : IsFiniteSet(Of(T)) /\ Cardinality(Of(T)) \in Nat
  BY PlacesFinite, FS_Subset, FS_CardinalityType
<1>4. {} \in Good
  <2>1. Of({}) = {}
    OBVIOUS
  <2> HIDE DEF f, Of
  <2>2. SumFunctionOnSet(f, {}) = 0 /\ Cardinality({}) = 0
    BY SumEmpty, FS_EmptySet
  <2> QED  BY <2>1, <2>2
<1>5. ASSUME NEW T \in SUBSET Words, NEW w \in Words, w \notin T, T \in Good
      PROVE  T \cup {w} \in Good
  <2>1. IsFiniteSet(T)
    BY <1>1, FS_Subset
  <2>2. Of(T \cup {w}) = Of(T) \cup Occurrences(X, w, t)
    BY OccurrencesAre
  <2>3. Of(T) \cap Occurrences(X, w, t) = {}
    BY <1>5, OccurrencesAre
  <2>4. IsFiniteSet(Occurrences(X, w, t)) /\ Cardinality(Occurrences(X, w, t)) \in Nat
    BY OccurrencesAre
  <2>5. SumFunctionOnSet(f, T) = Cardinality(Of(T))
    BY <1>5
  <2> HIDE DEF f, Of
  <2>6. Cardinality(Of(T \cup {w})) =
          Cardinality(Of(T)) + Cardinality(Occurrences(X, w, t))
    <3>1. PICK P, Q : P = Of(T) /\ Q = Occurrences(X, w, t)
      OBVIOUS
    <3>2. IsFiniteSet(P) /\ IsFiniteSet(Q) /\ P \cap Q = {}
      BY <1>3, <2>3, <2>4, <3>1
    <3>3. Cardinality(P \cup Q) = Cardinality(P) + Cardinality(Q) - Cardinality(P \cap Q)
      BY <3>2, FS_Union
    <3>4. /\ Cardinality(P \cap Q) = 0
          /\ Cardinality(P) \in Nat /\ Cardinality(Q) \in Nat
      BY <3>2, FS_EmptySet, FS_CardinalityType
    <3>5. Cardinality(P \cup Q) = Cardinality(P) + Cardinality(Q)
      BY <3>3, <3>4
    <3> QED  BY <2>2, <3>1, <3>5
  <2>7. \A v \in T \cup {w} : f[v] \in Int
    BY <1>2
  <2>8. SumFunctionOnSet(f, T \cup {w}) = f[w] + SumFunctionOnSet(f, T)
    BY <1>5, <2>1, <2>7, SumAdd
  <2>9. SumFunctionOnSet(f, T \cup {w}) = Cardinality(Of(T \cup {w}))
    BY <1>2, <1>3, <2>4, <2>5, <2>6, <2>8
  <2> QED  BY <2>9
<1>6. Words \in Good
  <2> HIDE DEF Good
  <2>1. SUBSET Words \subseteq Good
    BY <1>1, <1>4, <1>5, SubsetInduction
  <2> QED  BY <2>1
<1>7. Of(Words) = With(X, t)
  <2>1. \A p \in Places : Body[p[1]][p[2]] \in Words
    <3> SUFFICES ASSUME NEW p \in Places PROVE Body[p[1]][p[2]] \in Words
      OBVIOUS
    <3>1. PICK k \in Docs : p \in {<<k, i>> : i \in Positions(k)}
      BY DEF Places
    <3>2. PICK i \in Positions(k) : p = <<k, i>>
      BY <3>1
    <3> QED  BY <3>2, WordIs
  <2> QED  BY <2>1 DEF With
<1>8. TotalsOf(CountsOf(X))[t] = SumFunctionOnSet(f, Words)
  BY DEF TotalsOf, SumFunction
<1> QED  BY <1>6, <1>7, <1>8

\* So it counts at least those of one document.
LEMMA TotalCovers ==
  ASSUME NEW X, NEW t \in Topics, NEW k \in Docs
  PROVE  /\ TotalsOf(CountsOf(X))[t] \in Nat
         /\ TotalsOf(CountsOf(X))[t] >= Cardinality({i \in Positions(k) : X[k][i] = t})
<1> DEFINE A == {i \in Positions(k) : X[k][i] = t}
           B == {p \in With(X, t) : p[1] = k}
           f == [p \in B |-> p[2]]
<1>1. IsFiniteSet(With(X, t)) /\ Cardinality(With(X, t)) \in Nat
  BY PlacesFinite, FS_Subset, FS_CardinalityType DEF With
<1>2. IsFiniteSet(B) /\ Cardinality(B) <= Cardinality(With(X, t))
  BY <1>1, FS_Subset
<1>3. f \in Surjection(B, A)
  <2>1. \A p \in B : f[p] \in A
    <3> SUFFICES ASSUME NEW p \in B PROVE p[2] \in A
      OBVIOUS
    <3>1. p \in Places /\ p[1] = k /\ X[p[1]][p[2]] = t
      BY DEF With
    <3>2. PICK j \in Docs : p \in {<<j, i>> : i \in Positions(j)}
      BY <3>1 DEF Places
    <3>3. PICK i \in Positions(j) : p = <<j, i>>
      BY <3>2
    <3> QED  BY <3>1, <3>3
  <2>2. \A i \in A : <<k, i>> \in B /\ f[<<k, i>>] = i
    BY PlacesAre DEF With
  <2> HIDE DEF f, A, B
  <2>3. f \in [B -> A]
    BY <2>1 DEF f
  <2> QED  BY <2>2, <2>3 DEF Surjection
<1> HIDE DEF f, A, B
<1>4. Cardinality(A) <= Cardinality(B) /\ IsFiniteSet(A)
  BY <1>2, <1>3, FS_Surjection
<1>5. Cardinality(A) \in Nat /\ Cardinality(B) \in Nat
  BY <1>2, <1>4, FS_CardinalityType
<1>6. Cardinality(A) <= Cardinality(With(X, t))
  BY <1>1, <1>2, <1>4, <1>5
<1> QED  BY <1>1, <1>6, TotalIs DEF A

-----------------------------------------------------------------------------
(***************************************************************************)
(* The filters of each kind of iteration, and what a step of a filter does *)
(* to its document's token.                                                *)
(***************************************************************************)

Resampling == Testing \/ ~optimize
SettlesAt == IF Testing THEN 2 ELSE 3

Last == {"eval", "writer"}

Begins(s, n) ==
  /\ s \in Seq(AllFilters) /\ Len(s) >= n
  /\ \A i \in n + 1..Len(s) : s[i] \in Last

LEMMA BeginsOn ==
  ASSUME NEW s, NEW n \in Nat, Begins(s, n), NEW t, t \in Seq(Last)
  PROVE  Begins(s \o t, n) /\ \A i \in 1..n : (s \o t)[i] = s[i]
<1>1. t \in Seq(AllFilters) /\ \A i \in 1..Len(t) : t[i] \in Last
  BY DEF AllFilters, OtherFilters, Last
<1>2. s \in Seq(AllFilters) /\ Len(s) >= n
  BY DEF Begins
<1> DEFINE c == s \o t
<1>3. /\ c \in Seq(AllFilters) /\ Len(c) = Len(s) + Len(t)
      /\ Len(s) \in Nat /\ Len(t) \in Nat
      /\ \A i \in 1..Len(s) : c[i] = s[i]
      /\ \A i \in 1..Len(t) : c[i + Len(s)] = t[i]
  BY <1>1, <1>2, ConcatIs
<1> HIDE DEF c
<1>4. ASSUME NEW i \in n + 1..Len(c) PROVE c[i] \in Last
  <2>1. CASE i \in 1..Len(s)
    <3>1. i \in n + 1..Len(s)
      BY <1>3, <2>1
    <3> QED  BY <1>3, <2>1, <3>1 DEF Begins
  <2>2. CASE i \notin 1..Len(s)
    <3>1. i - Len(s) \in 1..Len(t) /\ (i - Len(s)) + Len(s) = i
      BY <1>3, <2>2
    <3>2. c[i] = t[i - Len(s)]
      BY <1>3, <3>1
    <3> QED  BY <1>1, <3>1, <3>2
  <2> QED  BY <2>1, <2>2
<1>5. \A i \in 1..n : c[i] = s[i]
  BY <1>2, <1>3
<1>6. Len(c) >= n
  BY <1>2, <1>3
<1>7. Begins(c, n)
  BY <1>3, <1>4, <1>6 DEF Begins
<1> QED  BY <1>5, <1>7 DEF c

\* Where the filters are that give topics to a document.
LEMMA FiltersAre ==
  /\ DOMAIN Filters = 1..Len(Filters) /\ Len(Filters) \in Nat
  /\ 2 <= Len(Filters) /\ (Resampling => SettlesAt < Len(Filters))
  /\ \A f \in 1..Len(Filters) :
       /\ Filters[f] = "tester" <=> Testing /\ f = 2
       /\ Filters[f] = "optimizer" <=> ~Resampling /\ f = 2
       /\ Filters[f] = "sampler" <=> ~Testing /\ Resampling /\ f = 2
       /\ Filters[f] = "updater" <=> ~Testing /\ Resampling /\ f = 3
<1> DEFINE evl == IF compute_loglikelihood THEN <<"eval">> ELSE <<>>
<1>1. CASE Testing
  <2>1. Filters = <<"reader", "tester", "eval", "writer">>
    BY <1>1 DEF Filters
  <2> QED  BY <1>1, <2>1 DEF Resampling, SettlesAt
<1>2. evl \in Seq(Last) /\ <<"writer">> \in Seq(Last)
  <2>1. <<>> \in Seq(Last) /\ <<"eval">> \in Seq(Last) /\ <<"writer">> \in Seq(Last)
    BY DEF Last
  <2> QED  BY <2>1
<1>3. /\ <<"reader">> \in Seq(AllFilters) /\ <<"optimizer">> \in Seq(AllFilters)
      /\ <<"sampler", "updater">> \in Seq(AllFilters)
  BY DEF AllFilters, OtherFilters
<1>4. CASE ~Testing /\ optimize
  <2>1. PICK first : first = <<"reader">> \o <<"optimizer">>
    OBVIOUS
  <2>2. /\ first \in Seq(AllFilters) /\ Len(first) = 2
        /\ first[1] = "reader" /\ first[2] = "optimizer"
    BY <1>3, <2>1
  <2>3. Filters = first \o evl \o <<"writer">>
    BY <1>4, <2>1, Zenon DEF Filters
  <2> HIDE DEF evl
  <2>4. Begins(first, 2)
    BY <2>2 DEF Begins
  <2>5. Begins(first \o evl, 2) /\ \A i \in 1..2 : (first \o evl)[i] = first[i]
    BY <1>2, <2>4, BeginsOn
  <2>6. Begins(Filters, 2) /\ \A i \in 1..2 : Filters[i] = (first \o evl)[i]
    <3>1. PICK c : c = first \o evl
      OBVIOUS
    <3>2. Begins(c, 2) /\ Filters = c \o <<"writer">>
      BY <2>3, <2>5, <3>1
    <3>3. Begins(Filters, 2) /\ \A i \in 1..2 : Filters[i] = c[i]
      BY <1>2, <3>2, BeginsOn
    <3> QED  BY <3>1, <3>3
  <2>7. Filters[1] = "reader" /\ Filters[2] = "optimizer"
    <3>1. 1 \in 1..2 /\ 2 \in 1..2
      OBVIOUS
    <3> QED  BY <2>2, <2>5, <2>6, <3>1
  <2>8. ~Resampling
    BY <1>4 DEF Resampling
  <2>9. /\ DOMAIN Filters = 1..Len(Filters) /\ Len(Filters) \in Nat
        /\ 2 <= Len(Filters)
    BY <2>6 DEF Begins
  <2>10. ASSUME NEW f \in 1..Len(Filters)
         PROVE  f = 1 \/ f = 2 \/ (f # 2 /\ Filters[f] \in Last)
    BY <2>6, <2>9 DEF Begins
  <2> QED  BY <1>4, <2>7, <2>8, <2>9, <2>10 DEF Last
<1>5. CASE ~Testing /\ ~optimize
  <2>1. PICK first : first = <<"reader">> \o <<"sampler", "updater">>
    OBVIOUS
  <2>2. /\ first \in Seq(AllFilters) /\ Len(first) = 3
        /\ first[1] = "reader" /\ first[2] = "sampler" /\ first[3] = "updater"
    BY <1>3, <2>1
  <2>3. Filters = first \o evl \o <<"writer">>
    BY <1>5, <2>1, Zenon DEF Filters
  <2> HIDE DEF evl
  <2>4. Begins(first, 3)
    BY <2>2 DEF Begins
  <2>5. Begins(first \o evl, 3) /\ \A i \in 1..3 : (first \o evl)[i] = first[i]
    BY <1>2, <2>4, BeginsOn
  <2>6. Begins(Filters, 3) /\ \A i \in 1..3 : Filters[i] = (first \o evl)[i]
    <3>1. PICK c : c = first \o evl
      OBVIOUS
    <3>2. Begins(c, 3) /\ Filters = c \o <<"writer">>
      BY <2>3, <2>5, <3>1
    <3>3. Begins(Filters, 3) /\ \A i \in 1..3 : Filters[i] = c[i]
      BY <1>2, <3>2, BeginsOn
    <3> QED  BY <3>1, <3>3
  <2>7. Filters[1] = "reader" /\ Filters[2] = "sampler" /\ Filters[3] = "updater"
    <3>1. 1 \in 1..3 /\ 2 \in 1..3 /\ 3 \in 1..3
      OBVIOUS
    <3> QED  BY <2>2, <2>5, <2>6, <3>1
  <2>8. Resampling /\ SettlesAt = 3
    BY <1>5 DEF Resampling, SettlesAt
  <2>9. /\ DOMAIN Filters = 1..Len(Filters) /\ Len(Filters) \in Nat
        /\ 3 <= Len(Filters)
    BY <2>6 DEF Begins
  <2>10. 3 < Len(Filters)
    <3>1. Filters[Len(Filters)] = "writer"
      <4>1. Len(Filters) \in 1..Len(Filters)
        BY <2>9
      <4> QED  BY <4>1, WriterIsLast
    <3> QED  BY <2>7, <2>9, <3>1
  <2>11. ASSUME NEW f \in 1..Len(Filters)
         PROVE  f = 1 \/ f = 2 \/ f = 3 \/ (f # 2 /\ f # 3 /\ Filters[f] \in Last)
    BY <2>6, <2>9 DEF Begins
  <2> QED  BY <1>5, <2>7, <2>8, <2>9, <2>10, <2>11 DEF Last
<1> QED  BY <1>1, <1>4, <1>5

\* The updater or the tester is behind a document that has new topics.
LEMMA SettledIs ==
  \A k \in Docs : Settled(k) <=> /\ pc = "run" /\ k <= read /\ Resampling
                                 /\ k \in Live => token[k].at > SettlesAt
<1>1. \A f \in DOMAIN Filters : Filters[f] \in {"updater", "tester"} <=>
                                  Resampling /\ f = SettlesAt
  BY FiltersAre DEF Resampling, SettlesAt
<1>2. Resampling => SettlesAt \in DOMAIN Filters
  BY FiltersAre DEF SettlesAt
<1> QED  BY <1>1, <1>2 DEF Settled

\* The topics a document has in the file the iteration starts from.
FromFile(k) == StoredTopics(input_t, k)

LEMMA TopicsOfIs ==
  Inv /\ mode # "stream" =>
    \A k \in Docs :
      TopicsOf(k) = IF ~Settled(k) THEN FromFile(k)
                    ELSE IF k \in Live THEN TopicsIn(k) ELSE StoredTopics(output_t, k)
<1> SUFFICES ASSUME Inv, mode # "stream", NEW k \in Docs
             PROVE  TopicsOf(k) = IF ~Settled(k) THEN FromFile(k)
                                  ELSE IF k \in Live THEN TopicsIn(k)
                                  ELSE StoredTopics(output_t, k)
  OBVIOUS
<1>1. ASSUME Settled(k) PROVE k \in Live <=> k \notin DOMAIN output_t
  <2>1. pc = "run" /\ k <= read
    BY <1>1, SettledIs
  <2>2. /\ Live = {j \in Docs : Len(output_t) < j /\ j <= read}
        /\ output_t \in Seq(Records)
    BY <2>1 DEF Inv, FilesInv, InOrder, FilesOK
  <2>3. k \in Live <=> Len(output_t) < k
    BY <2>1, <2>2
  <2> QED  BY <2>2, <2>3, DocsAre
<1>2. CASE ~Settled(k)
  BY <1>2 DEF TopicsOf, FromFile
<1>3. CASE Settled(k) /\ k \in Live
  BY <1>1, <1>3 DEF TopicsOf
<1>4. CASE Settled(k) /\ k \notin Live
  BY <1>1, <1>4 DEF TopicsOf
<1> QED  BY <1>2, <1>3, <1>4

-----------------------------------------------------------------------------
(***************************************************************************)
(* What the filters do to a document's token.                              *)
(***************************************************************************)
\* The fields of a token, but its slot and its copy of the totals.
TokenHas(u, at, changes, n, step) ==
  u.at = at /\ u.changes = changes /\ u.n = n /\ u.step = step

LEMMA TokenPasses ==
  ASSUME NEW t, IsToken(t)
  PROVE  /\ IsToken([t EXCEPT !.at = @ + 1])
         /\ TokenHas([t EXCEPT !.at = @ + 1], t.at + 1, t.changes, t.n, t.step)
         /\ [t EXCEPT !.at = @ + 1].nt = t.nt
<1>1. PICK at, slot, nt, changes, n, st :
        t = [at |-> at, slot |-> slot, nt |-> nt, changes |-> changes,
             n |-> n, step |-> st]
  BY DEF IsToken
<1>2. PICK u : u = [t EXCEPT !.at = @ + 1]
  OBVIOUS
<1>3. u = [at |-> at + 1, slot |-> slot, nt |-> nt, changes |-> changes, n |-> n,
           step |-> st]
  BY <1>1, <1>2
<1>4. /\ u.at = at + 1 /\ u.slot = slot /\ u.nt = nt /\ u.changes = changes
      /\ u.n = n /\ u.step = st
  BY <1>3
<1>5. IsToken(u)
  BY <1>3, <1>4 DEF IsToken
<1>6. t.at = at /\ t.changes = changes /\ t.n = n /\ t.step = st /\ t.nt = nt
  BY <1>1
<1> QED  BY <1>2, <1>4, <1>5, <1>6 DEF TokenHas

LEMMA TokenCopies ==
  ASSUME NEW t, IsToken(t), NEW v
  PROVE  /\ IsToken([t EXCEPT !.nt = v])
         /\ TokenHas([t EXCEPT !.nt = v], t.at, t.changes, t.n, t.step)
         /\ [t EXCEPT !.nt = v].nt = v
<1>1. PICK at, slot, nt, changes, n, st :
        t = [at |-> at, slot |-> slot, nt |-> nt, changes |-> changes,
             n |-> n, step |-> st]
  BY DEF IsToken
<1>2. PICK u : u = [t EXCEPT !.nt = v]
  OBVIOUS
<1>3. u = [at |-> at, slot |-> slot, nt |-> v, changes |-> changes, n |-> n,
           step |-> st]
  BY <1>1, <1>2
<1>4. /\ u.at = at /\ u.slot = slot /\ u.nt = v /\ u.changes = changes
      /\ u.n = n /\ u.step = st
  BY <1>3
<1>5. IsToken(u)
  BY <1>3, <1>4 DEF IsToken
<1>6. t.at = at /\ t.changes = changes /\ t.n = n /\ t.step = st /\ t.nt = nt
  BY <1>1
<1> QED  BY <1>2, <1>4, <1>5, <1>6 DEF TokenHas

LEMMA TokenNotes ==
  ASSUME NEW t, IsToken(t), NEW v
  PROVE  /\ IsToken([t EXCEPT !.changes = v])
         /\ TokenHas([t EXCEPT !.changes = v], t.at, v, t.n, t.step)
         /\ [t EXCEPT !.changes = v].nt = t.nt
<1>1. PICK at, slot, nt, changes, n, st :
        t = [at |-> at, slot |-> slot, nt |-> nt, changes |-> changes,
             n |-> n, step |-> st]
  BY DEF IsToken
<1>2. PICK u : u = [t EXCEPT !.changes = v]
  OBVIOUS
<1>3. u = [at |-> at, slot |-> slot, nt |-> nt, changes |-> v, n |-> n,
           step |-> st]
  BY <1>1, <1>2
<1>4. /\ u.at = at /\ u.slot = slot /\ u.nt = nt /\ u.changes = v
      /\ u.n = n /\ u.step = st
  BY <1>3
<1>5. IsToken(u)
  BY <1>3, <1>4 DEF IsToken
<1>6. t.at = at /\ t.changes = changes /\ t.n = n /\ t.step = st /\ t.nt = nt
  BY <1>1
<1> QED  BY <1>2, <1>4, <1>5, <1>6 DEF TokenHas

LEMMA TokenCounts ==
  ASSUME NEW t, IsToken(t), NEW v
  PROVE  /\ IsToken([t EXCEPT !.n = v])
         /\ TokenHas([t EXCEPT !.n = v], t.at, t.changes, v, t.step)
         /\ [t EXCEPT !.n = v].nt = t.nt
<1>1. PICK at, slot, nt, changes, n, st :
        t = [at |-> at, slot |-> slot, nt |-> nt, changes |-> changes,
             n |-> n, step |-> st]
  BY DEF IsToken
<1>2. PICK u : u = [t EXCEPT !.n = v]
  OBVIOUS
<1>3. u = [at |-> at, slot |-> slot, nt |-> nt, changes |-> changes, n |-> v,
           step |-> st]
  BY <1>1, <1>2
<1>4. /\ u.at = at /\ u.slot = slot /\ u.nt = nt /\ u.changes = changes
      /\ u.n = v /\ u.step = st
  BY <1>3
<1>5. IsToken(u)
  BY <1>3, <1>4 DEF IsToken
<1>6. t.at = at /\ t.changes = changes /\ t.n = n /\ t.step = st /\ t.nt = nt
  BY <1>1
<1> QED  BY <1>2, <1>4, <1>5, <1>6 DEF TokenHas

LEMMA TokenSteps ==
  ASSUME NEW t, IsToken(t), NEW v
  PROVE  /\ IsToken([t EXCEPT !.step = v])
         /\ TokenHas([t EXCEPT !.step = v], t.at, t.changes, t.n, v)
         /\ [t EXCEPT !.step = v].nt = t.nt
<1>1. PICK at, slot, nt, changes, n, st :
        t = [at |-> at, slot |-> slot, nt |-> nt, changes |-> changes,
             n |-> n, step |-> st]
  BY DEF IsToken
<1>2. PICK u : u = [t EXCEPT !.step = v]
  OBVIOUS
<1>3. u = [at |-> at, slot |-> slot, nt |-> nt, changes |-> changes, n |-> n,
           step |-> v]
  BY <1>1, <1>2
<1>4. /\ u.at = at /\ u.slot = slot /\ u.nt = nt /\ u.changes = changes
      /\ u.n = n /\ u.step = v
  BY <1>3
<1>5. IsToken(u)
  BY <1>3, <1>4 DEF IsToken
<1>6. t.at = at /\ t.changes = changes /\ t.n = n /\ t.step = st /\ t.nt = nt
  BY <1>1
<1> QED  BY <1>2, <1>4, <1>5, <1>6 DEF TokenHas

-----------------------------------------------------------------------------
(***************************************************************************)
(* The topics a document has, where its token is.                          *)
(***************************************************************************)
TopicsAt(k) == token[k].at = 2 \/ ~Resampling => TopicsIn(k) = FromFile(k)

TopicsInv ==
  /\ mode \in {"test", "online"} /\ iter = 1 => input_t = <<>>
  /\ \A k \in Live : TopicsAt(k)
  /\ pc = "run" /\ ~Resampling =>
       \A k \in DOMAIN output_t : StoredTopics(output_t, k) = FromFile(k)

(***************************************************************************)
(* The changes that the sampler has noted and the updater takes over.      *)
(***************************************************************************)
NotedChanges(k) ==
  [i \in Positions(k) |->
     [word |-> Body[k][i], old |-> IF ignore_old_topic THEN 0 ELSE FromFile(k)[i],
      new |-> TopicsIn(k)[i]]]

Updates(k) == ~Testing /\ Resampling /\ token[k].at = 3

ChangesAt(k) ==
  IF Updates(k)
  THEN /\ token[k].changes = NotedChanges(k)
       /\ token[k].n \in 1..Len(Body[k]) + 1
       /\ token[k].step \in {"ready", "removed", "dropped", "added"}
       /\ token[k].step # "ready" => token[k].n <= Len(Body[k])
       /\ token[k].step \in {"removed", "dropped"} => ~ignore_old_topic
  ELSE token[k].step = "ready" /\ (token[k].at = 2 => token[k].n = 1)

ChangesInv == \A k \in Live : ChangesAt(k)

Counting(none, new) == [k \in Docs |-> CountedTopics(k, none, new)]
InTable == Counting({"removed", "dropped"}, {"added"})
InTotals == Counting({"dropped", "added"}, {})

TableInv ==
  mode \in {"train", "online"} =>
    wt = CountsOf(InTable) /\ tokens_per_topic = TotalsOf(CountsOf(InTotals))

SweepInv ==
  mode # "stream" =>
    pc \in {"init", "run", "done"} /\ TopicsInv /\ ChangesInv /\ TableInv

-----------------------------------------------------------------------------
(***************************************************************************)
(* A filter's step leaves everything of the other documents alone.         *)
(***************************************************************************)
Alone(k) ==
  /\ k \in Live /\ Live' = Live
  /\ \A j \in Docs \ {k} : token'[j] = token[j]
  /\ \A j \in Live \ {k} : TopicsIn(j)' = TopicsIn(j)
  /\ UNCHANGED <<mode, iter, read, eof, ignore_old_topic, input_t, output_t>>
  /\ UNCHANGED <<Testing, Resampling, SettlesAt, Filters>>
  /\ pc = "run" /\ pc' \in {"run", "aborted"}
  /\ token'[k].slot = token[k].slot /\ token[k].slot \in Slots

LEMMA FilterRuns ==
  ASSUME NEW k \in Docs, Filter(k) PROVE pc = "run"
BY DEF Filter, CopyTotal, Sample, Update, CountNew, NoChange, Decrement,
     DecrementTotal, Increment, IncrementTotal, Updated, At, Updating, Optimize,
     Test, Eval, Write, In

LEMMA FilterAlone ==
  ASSUME Inv, mode # "stream", NEW k \in Docs, Filter(k), ~Write(k)
  PROVE  Alone(k)
<1>1. RingInv /\ FilterStep(k) /\ TopicsStep(k)
  BY FilterSteps, FilterTopics DEF Inv
<1>2. /\ k \in Live /\ token'[k].slot = token[k].slot /\ token'[k].at # 0
      /\ IsToken(token'[k]) /\ token' = [token EXCEPT ![k] = token'[k]]
      /\ UNCHANGED <<mode, iter, read, eof, ignore_old_topic, input_t, output_t>>
      /\ pc' \in {"run", "aborted"} /\ pc = "run"
  BY <1>1, WriterIsLast, FilterRuns DEF FilterStep, TopicsStep, readerVars
<1>3. \A j \in Docs \ {k} : token'[j] = token[j]
  <2>1. token = [j \in Docs |-> token[j]]
    BY <1>1 DEF RingInv, TokensOK
  <2> QED  BY <1>2, <2>1
<1>4. Live' = Live
  BY <1>2, <1>3 DEF Live, NoToken, Docs
<1>5. \A j \in Live : token[j].slot \in Slots
  BY <1>1 DEF RingInv, TokensOK
<1>6. ASSUME NEW j \in Live \ {k} PROVE TopicsIn(j)' = TopicsIn(j)
  <2>1. token'[j] = token[j]
    BY <1>3 DEF Live
  <2>2. token[j].slot \in Slots \ {token[k].slot}
    BY <1>1, <1>2, <1>5 DEF RingInv, RingIsExclusive
  <2>3. ring'[token[j].slot] = ring[token[j].slot]
    BY <1>1, <2>2 DEF TopicsStep
  <2> QED  BY <2>1, <2>3 DEF TopicsIn, Buffer
<1>7. UNCHANGED <<Testing, Resampling, SettlesAt, Filters>>
  <2>1. UNCHANGED <<Testing, optimize, compute_loglikelihood>>
    BY <1>2 DEF Testing, optimize, compute_loglikelihood
  <2> QED  BY <2>1 DEF Resampling, SettlesAt, Filters
<1> QED  BY <1>2, <1>3, <1>4, <1>5, <1>6, <1>7 DEF Alone

\* What is known of the document a filter takes.
LEMMA Taken ==
  ASSUME Inv, mode # "stream", NEW k \in Docs, NEW f, In(f, k)
  PROVE  /\ k \in Live /\ IsToken(token[k]) /\ token[k].at \in Nat
         /\ token[k].at \in 2..Len(Filters) /\ token[k].slot \in Slots
         /\ BodyOf(k) = Body[k] /\ Body[k] \in Seq(Words)
         /\ token = [j \in Docs |-> token[j]]
         /\ f = "sampler" => ~Testing /\ Resampling /\ token[k].at = 2
         /\ f = "updater" => Updates(k)
         /\ f = "tester" => Testing /\ token[k].at = 2
         /\ f = "optimizer" => ~Resampling
         /\ f \in {"eval", "writer"} => (Resampling => token[k].at > SettlesAt)
<1>1. /\ k \in Live /\ IsToken(token[k]) /\ token[k].at \in 2..Len(Filters)
      /\ token[k].slot \in Slots /\ token = [j \in Docs |-> token[j]]
      /\ Filters[token[k].at] = f
  BY InFilter DEF Inv, RingInv, TokensOK, In
<1>2. token[k].at \in Nat /\ token[k].at \in 1..Len(Filters)
  BY <1>1, FiltersAre
<1>3. BodyOf(k) = Body[k] /\ Body[k] \in Seq(Words)
  BY <1>1, PipelineAssumption DEF Inv, FilesInv, DocsOK, Docs
<1>4. /\ f = "sampler" => ~Testing /\ Resampling /\ token[k].at = 2
      /\ f = "updater" => Updates(k)
      /\ f = "tester" => Testing /\ token[k].at = 2
      /\ f = "optimizer" => ~Resampling
  BY <1>1, <1>2, FiltersAre DEF Updates
<1>5. ASSUME f \in {"eval", "writer"}, Resampling PROVE token[k].at > SettlesAt
  <2>1. token[k].at # 2
    BY <1>1, <1>2, <1>5, FiltersAre
  <2>2. ~Testing => token[k].at # 3
    BY <1>1, <1>2, <1>5, FiltersAre
  <2> QED  BY <1>1, <1>2, <2>1, <2>2, FiltersAre DEF SettlesAt
<1> QED  BY <1>1, <1>2, <1>3, <1>4, <1>5

Sampled(k, new) ==
  [i \in DOMAIN new |-> [word |-> BodyOf(k)[i], old |-> OldTopic(k, i), new |-> new[i]]]

LEMMA CopyTotalIs ==
  ASSUME Inv, mode # "stream", NEW k \in Docs, CopyTotal(k)
  PROVE  /\ ~Testing /\ Resampling /\ token[k].at = 2
         /\ TokenHas(token'[k], 2, token[k].changes, token[k].n, token[k].step)
         /\ token'[k].nt = Append(token[k].nt, tokens_per_topic[Len(token[k].nt) + 1])
         /\ Len(token[k].nt) < Cardinality(Topics)
         /\ TopicsIn(k)' = TopicsIn(k) /\ UNCHANGED <<wt, tokens_per_topic, pc>>
<1> DEFINE v == Append(token[k].nt, tokens_per_topic[Len(token[k].nt) + 1])
<1>1. In("sampler", k) /\ CopyTotal(k)
  BY DEF CopyTotal
<1>2. /\ ~Testing /\ Resampling /\ token[k].at = 2 /\ IsToken(token[k])
      /\ token = [j \in Docs |-> token[j]]
  BY <1>1, Taken
<1>3. token' = [token EXCEPT ![k] = [token[k] EXCEPT !.nt = v]]
  BY <1>1, <1>2 DEF CopyTotal
<1>4. token'[k] = [token[k] EXCEPT !.nt = v]
  BY <1>2, <1>3
<1> HIDE DEF v
<1>5. /\ TokenHas(token'[k], 2, token[k].changes, token[k].n, token[k].step)
      /\ token'[k].nt = v
  BY <1>2, <1>4, TokenCopies
<1>6. TopicsIn(k)' = TopicsIn(k)
  <2>1. token'[k].slot = token[k].slot /\ ring' = ring
    BY <1>2, <1>4 DEF CopyTotal, IsToken
  <2> QED  BY <2>1 DEF TopicsIn, Buffer
<1>7. UNCHANGED <<wt, tokens_per_topic, pc>> /\ Len(token[k].nt) < Cardinality(Topics)
  BY DEF CopyTotal, tableVars, controlVars
<1> QED  BY <1>2, <1>5, <1>6, <1>7 DEF v

LEMMA SampleIs ==
  ASSUME Inv, mode # "stream", NEW k \in Docs, Sample(k)
  PROVE  /\ ~Testing /\ Resampling /\ token[k].at = 2
         /\ \E new \in [Positions(k) -> Topics] :
              /\ TokenHas(token'[k], 3, Sampled(k, new), token[k].n, token[k].step)
              /\ TopicsIn(k)' = new
         /\ token'[k].nt = <<>>
         /\ UNCHANGED <<wt, tokens_per_topic, pc>>
<1>1. In("sampler", k)
  BY DEF Sample
<1>2. /\ ~Testing /\ Resampling /\ token[k].at = 2 /\ IsToken(token[k])
      /\ token = [j \in Docs |-> token[j]] /\ token[k].slot \in Slots
      /\ BodyOf(k) = Body[k]
  BY <1>1, Taken
<1>3. PICK new \in [Positions(k) -> Topics] :
        /\ ring' = [ring EXCEPT ![token[k].slot].topic_assignment = new]
        /\ token' = [token EXCEPT ![k] =
                       [Passed(k) EXCEPT !.nt = <<>>, !.changes = Sampled(k, new)]]
  BY <1>2 DEF Sample, sample, Sampled, Positions
<1>4. token'[k] = [Passed(k) EXCEPT !.nt = <<>>, !.changes = Sampled(k, new)]
  BY <1>2, <1>3
<1>5. /\ TokenHas(token'[k], token[k].at + 1, Sampled(k, new), token[k].n, token[k].step)
      /\ token'[k].nt = <<>>
  <2>1. PICK v : v = Sampled(k, new)
    OBVIOUS
  <2>2. PICK x : x = [token[k] EXCEPT !.at = @ + 1]
    OBVIOUS
  <2>3. PICK w : w = [x EXCEPT !.nt = <<>>]
    OBVIOUS
  <2>4. token'[k] = [w EXCEPT !.changes = v]
    BY <1>4, <2>1, <2>2, <2>3 DEF Passed
  <2>5. /\ IsToken(x)
        /\ TokenHas(x, token[k].at + 1, token[k].changes, token[k].n, token[k].step)
    BY <1>2, <2>2, TokenPasses
  <2>6. IsToken(w) /\ TokenHas(w, x.at, x.changes, x.n, x.step) /\ w.nt = <<>>
    BY <2>3, <2>5, TokenCopies
  <2>7. TokenHas(token'[k], w.at, v, w.n, w.step) /\ token'[k].nt = w.nt
    BY <2>4, <2>6, TokenNotes
  <2> QED  BY <2>1, <2>5, <2>6, <2>7 DEF TokenHas
<1>6. TokenHas(token'[k], 3, Sampled(k, new), token[k].n, token[k].step)
  BY <1>2, <1>5 DEF TokenHas
<1>7. TopicsIn(k)' = new
  <2>1. ring'[token[k].slot].topic_assignment = new
    BY <1>2, <1>3, NewTopics DEF Inv
  <2>2. token'[k].slot = token[k].slot
    BY FilterAlone DEF Alone, Filter, Write, Sample, In, serial
  <2> QED  BY <2>1, <2>2 DEF TopicsIn, Buffer
<1> QED  BY <1>2, <1>5, <1>6, <1>7 DEF Sample, tableVars, controlVars

LEMMA PassIs ==
  ASSUME Inv, mode # "stream", NEW k \in Docs, Optimize(k) \/ Eval(k)
  PROVE  /\ TokenHas(token'[k], token[k].at + 1, token[k].changes, token[k].n,
                     token[k].step)
         /\ token'[k].nt = token[k].nt
         /\ Resampling => token[k].at > SettlesAt
         /\ token[k].at \in Nat
         /\ TopicsIn(k)' = TopicsIn(k) /\ UNCHANGED <<wt, tokens_per_topic, pc>>
<1>1. PICK f \in {"optimizer", "eval"} : In(f, k)
  BY DEF Optimize, Eval
<1>2. /\ IsToken(token[k]) /\ token = [j \in Docs |-> token[j]]
      /\ Resampling => token[k].at > SettlesAt
      /\ token[k].at \in Nat
  BY <1>1, Taken
<1>3. token' = [token EXCEPT ![k] = Passed(k)] /\ ring' = ring
      /\ UNCHANGED <<wt, tokens_per_topic, pc>>
  BY DEF Optimize, Eval, tableVars, controlVars
<1>4. token'[k] = [token[k] EXCEPT !.at = @ + 1]
  BY <1>2, <1>3 DEF Passed
<1>5. /\ TokenHas(token'[k], token[k].at + 1, token[k].changes, token[k].n,
                  token[k].step)
      /\ token'[k].nt = token[k].nt /\ token'[k].slot = token[k].slot
  BY <1>2, <1>4, TokenPasses, TokenWrites DEF KeepsPlace
<1> QED  BY <1>2, <1>3, <1>5 DEF TopicsIn, Buffer

LEMMA TestIs ==
  ASSUME Inv, mode # "stream", NEW k \in Docs, Test(k)
  PROVE  /\ Testing /\ token[k].at = 2
         /\ TokenHas(token'[k], 3, token[k].changes, token[k].n, token[k].step)
         /\ token'[k].nt = token[k].nt /\ pc' = pc
<1>1. In("tester", k)
  BY DEF Test
<1>2. /\ IsToken(token[k]) /\ token = [j \in Docs |-> token[j]]
      /\ Testing /\ token[k].at = 2
  BY <1>1, Taken
<1>3. token' = [token EXCEPT ![k] = Passed(k)] /\ pc' = pc
  BY DEF Test, controlVars
<1>4. token'[k] = [token[k] EXCEPT !.at = @ + 1]
  BY <1>2, <1>3 DEF Passed
<1>5. /\ TokenHas(token'[k], token[k].at + 1, token[k].changes, token[k].n,
                  token[k].step)
      /\ token'[k].nt = token[k].nt
  BY <1>2, <1>4, TokenPasses
<1> QED  BY <1>2, <1>3, <1>5 DEF TokenHas

\* The updater's steps.
StepTo(k, step) ==
  TokenHas(token'[k], token[k].at, token[k].changes, token[k].n, step)

ToNext(k) ==
  TokenHas(token'[k], token[k].at, token[k].changes, token[k].n + 1, "ready")

LEMMA UpdateIs ==
  ASSUME Inv, mode # "stream", NEW k \in Docs, Update(k)
  PROVE  /\ Updates(k) /\ In("updater", k) /\ TopicsIn(k)' = TopicsIn(k)
         /\ token'[k].nt = token[k].nt
         /\ \A step : Step(k, step) => StepTo(k, step)
         /\ NextChange(k) => ToNext(k)
         /\ Updated(k) => TokenHas(token'[k], 4, <<>>, token[k].n, token[k].step)
<1> DEFINE t == token[k]
<1>1. In("updater", k)
  BY DEF Update, CountNew, NoChange, Decrement, DecrementTotal,
     Increment, IncrementTotal, Updated, At, Updating
<1>2. /\ IsToken(t) /\ token = [j \in Docs |-> token[j]] /\ Updates(k)
  BY <1>1, Taken
<1>3. ring' = ring /\ token'[k].slot = t.slot
  <2>1. ring' = ring
    BY DEF Update, CountNew, NoChange, Decrement, DecrementTotal,
       Increment, IncrementTotal, Updated, UpdateFrame
  <2>2. ~Write(k)
    BY <1>1 DEF Write, In
  <2> QED  BY <2>1, <2>2, FilterAlone DEF Alone, Filter
<1>4. ASSUME NEW step, Step(k, step)
      PROVE  StepTo(k, step) /\ token'[k].nt = t.nt
  <2>1. token'[k] = [t EXCEPT !.step = step]
    BY <1>2, <1>4 DEF Step
  <2> QED  BY <1>2, <2>1, TokenSteps DEF StepTo
<1>5. ASSUME NextChange(k) PROVE ToNext(k) /\ token'[k].nt = t.nt
  <2>1. token'[k] = [t EXCEPT !.n = @ + 1, !.step = "ready"]
    BY <1>2, <1>5 DEF NextChange
  <2>2. PICK m : m = t.n + 1
    OBVIOUS
  <2>3. PICK w : w = [t EXCEPT !.n = m]
    OBVIOUS
  <2>4. token'[k] = [w EXCEPT !.step = "ready"]
    BY <2>1, <2>2, <2>3
  <2>5. /\ IsToken(w) /\ TokenHas(w, t.at, t.changes, m, t.step) /\ w.nt = t.nt
    BY <1>2, <2>3, TokenCounts
  <2>6. TokenHas(token'[k], w.at, w.changes, w.n, "ready") /\ token'[k].nt = w.nt
    BY <2>4, <2>5, TokenSteps
  <2> QED  BY <2>2, <2>5, <2>6 DEF ToNext, TokenHas
<1>6. ASSUME Updated(k)
      PROVE  /\ TokenHas(token'[k], 4, <<>>, t.n, t.step)
             /\ token'[k].nt = t.nt
  <2>1. PICK w : w = [t EXCEPT !.at = @ + 1]
    OBVIOUS
  <2>2. token'[k] = [w EXCEPT !.changes = <<>>]
    BY <1>2, <1>6, <2>1 DEF Updated, Passed
  <2>3. /\ IsToken(w) /\ TokenHas(w, t.at + 1, t.changes, t.n, t.step)
        /\ w.nt = t.nt
    BY <1>2, <2>1, TokenPasses
  <2>4. TokenHas(token'[k], w.at, <<>>, w.n, w.step) /\ token'[k].nt = w.nt
    BY <2>2, <2>3, TokenNotes
  <2> QED  BY <1>2, <2>3, <2>4 DEF Updates, TokenHas
<1>7. token'[k].nt = t.nt
  <2>1. \/ \E step : Step(k, step)
        \/ NextChange(k) \/ token' = token \/ Updated(k)
    BY DEF Update, CountNew, NoChange, Decrement, DecrementTotal,
       Increment, IncrementTotal, Updated
  <2> QED  BY <1>4, <1>5, <1>6, <2>1
<1> QED  BY <1>1, <1>2, <1>3, <1>4, <1>5, <1>6, <1>7 DEF TopicsIn, Buffer

-----------------------------------------------------------------------------
(***************************************************************************)
(* The steps that work on a document's topics keep where they are and the  *)
(* changes noted for the updater.                                          *)
(***************************************************************************)

LEMMA FromFileIs ==
  ASSUME Inv, TopicsInv, mode \in {"train", "online"}, NEW k \in Docs
  PROVE  IF ignore_old_topic THEN FromFile(k) = <<>> ELSE IsTopicing(k, FromFile(k))
<1>1. FilesOK /\ ControlOK /\ k \in Nat
  BY DocsAre DEF Inv, FilesInv
<1>2. CASE ignore_old_topic
  <2>1. input_t = <<>>
    BY <1>1, <1>2 DEF ControlOK, TopicsInv
  <2>2. ReadRecord(input_t, k, Clear) = Clear
    BY <2>1 DEF ReadRecord
  <2> QED  BY <1>2, <2>2, ClearIs DEF FromFile, StoredTopics
<1>3. CASE ~ignore_old_topic
  <2>1. DOMAIN input_t = Docs /\ IsTopicsFile(input_t)
    BY <1>1, <1>3 DEF ControlOK, FilesOK
  <2>2. IsTopicsOf(k, input_t[k]) /\ IsTopicing(k, TopicsOfRecord(input_t[k]))
    BY <2>1 DEF IsTopicsFile
  <2>3. FromFile(k) = TopicsOfRecord(input_t[k])
    BY <1>1, <2>1, <2>2, ReadsTopics DEF FromFile, StoredTopics
  <2> QED  BY <1>3, <2>2, <2>3
<1> QED  BY <1>2, <1>3

LEMMA PositionsAre ==
  ASSUME NEW k \in Docs
  PROVE  Positions(k) = 1..Len(Body[k]) /\ Len(Body[k]) \in Nat
BY PipelineAssumption DEF Docs, Positions

LEMMA NotedIs ==
  ASSUME NEW k \in Docs
  PROVE  /\ Len(NotedChanges(k)) = Len(Body[k])
         /\ \A i \in Positions(k) :
              /\ NotedChanges(k)[i].word = Body[k][i]
              /\ NotedChanges(k)[i].new = TopicsIn(k)[i]
              /\ NotedChanges(k)[i].old = IF ignore_old_topic THEN 0
                                          ELSE FromFile(k)[i]
BY PositionsAre DEF NotedChanges

\* A filter's step has only to keep what is known of its own document.
LEMMA KeepsAt ==
  ASSUME TopicsInv, ChangesInv, NEW k \in Docs, Alone(k),
         TopicsAt(k)', ChangesAt(k)'
  PROVE  TopicsInv' /\ ChangesInv'
<1>1. ASSUME NEW j \in Live \ {k} PROVE TopicsAt(j)' /\ ChangesAt(j)'
  <2>1. TopicsAt(j) /\ ChangesAt(j)
    BY DEF TopicsInv, ChangesInv
  <2>2. /\ token'[j] = token[j] /\ TopicsIn(j)' = TopicsIn(j)
        /\ FromFile(j)' = FromFile(j)
        /\ UNCHANGED <<Testing, Resampling, ignore_old_topic>>
    BY DEF Alone, Live, FromFile, StoredTopics
  <2>3. NotedChanges(j)' = NotedChanges(j)
    BY <2>2 DEF NotedChanges, Positions
  <2>4. Updates(j)' <=> Updates(j)
    BY <2>2 DEF Updates
  <2> QED  BY <2>1, <2>2, <2>3, <2>4 DEF TopicsAt, ChangesAt
<1>2. \A j \in Live' : TopicsAt(j)' /\ ChangesAt(j)'
  BY <1>1 DEF Alone
<1>3. \A j : FromFile(j)' = FromFile(j)
  BY DEF Alone, FromFile, StoredTopics
<1>4. /\ pc' = "run" /\ ~Resampling' =>
           \A j \in DOMAIN output_t' : StoredTopics(output_t', j) = FromFile(j)'
      /\ mode' \in {"test", "online"} /\ iter' = 1 => input_t' = <<>>
  BY <1>3 DEF Alone, TopicsInv
<1> QED  BY <1>2, <1>4 DEF TopicsInv, ChangesInv

\* Where document k's update is.
UpdateAt(k) ==
  /\ k \in Live /\ Updates(k) /\ pc = "run"
  /\ token[k].changes = NotedChanges(k) /\ Len(token[k].changes) = Len(Body[k])
  /\ token[k].n \in 1..Len(Body[k]) + 1
  /\ token[k].step \in {"ready", "removed", "dropped", "added"}
  /\ token[k].step # "ready" => token[k].n <= Len(Body[k])
  /\ token[k].step \in {"removed", "dropped"} => ~ignore_old_topic

LEMMA UpdateIsAt ==
  ASSUME Inv, mode # "stream", ChangesInv, NEW k \in Docs, Update(k)
  PROVE  UpdateAt(k)
<1>1. Updates(k) /\ In("updater", k)
  BY UpdateIs
<1>2. k \in Live /\ pc = "run"
  BY <1>1 DEF In
<1>3. ChangesAt(k)
  BY <1>2 DEF ChangesInv
<1>4. Len(NotedChanges(k)) = Len(Body[k])
  BY NotedIs
<1> QED  BY <1>1, <1>2, <1>3, <1>4 DEF ChangesAt, UpdateAt

LEMMA UpdateKeepsAt ==
  ASSUME Inv, mode # "stream", TopicsInv, ChangesInv, NEW k \in Docs, Update(k)
  PROVE  TopicsInv' /\ ChangesInv'
<1> DEFINE t == token[k]
           u == token'[k]
<1>1. Alone(k)
  <2>1. ~Write(k)
    BY UpdateIs DEF Write, In
  <2> QED  BY <2>1, FilterAlone DEF Filter
<1>2. UpdateAt(k) /\ Len(Body[k]) \in Nat
  BY UpdateIsAt, PositionsAre
<1>3. /\ UNCHANGED <<TopicsIn(k), FromFile(k), Testing, Resampling, ignore_old_topic>>
      /\ \A step : Step(k, step) => StepTo(k, step)
      /\ NextChange(k) => ToNext(k)
      /\ Updated(k) => TokenHas(u, 4, <<>>, t.n, t.step)
  BY <1>1, UpdateIs DEF Alone, FromFile, StoredTopics
<1>4. NotedChanges(k)' = NotedChanges(k)
  BY <1>3 DEF NotedChanges, Positions
<1>5. TopicsAt(k)'
  <2>1. t.at = 3 /\ Resampling
    BY <1>2 DEF UpdateAt, Updates
  <2>2. u.at # 2
    <3>1. \/ \E step : Step(k, step)
          \/ NextChange(k) \/ token' = token \/ Updated(k)
      BY DEF Update, CountNew, NoChange, Decrement, DecrementTotal,
         Increment, IncrementTotal, Updated
    <3> QED  BY <1>3, <2>1, <3>1 DEF StepTo, ToNext, TokenHas
  <2> QED  BY <1>3, <2>1, <2>2 DEF TopicsAt
<1>6. ASSUME NEW step \in {"removed", "dropped", "added"}, StepTo(k, step),
             t.n <= Len(Body[k]), step # "added" => ~ignore_old_topic
      PROVE  ChangesAt(k)'
  BY <1>2, <1>3, <1>4, <1>6 DEF StepTo, TokenHas, ChangesAt, UpdateAt, Updates
<1>7. ASSUME ToNext(k), t.n <= Len(Body[k]) PROVE ChangesAt(k)'
  <2>1. t.n + 1 \in 1..Len(Body[k]) + 1
    BY <1>2, <1>7 DEF UpdateAt
  <2> QED  BY <1>2, <1>3, <1>4, <1>7, <2>1
        DEF ToNext, TokenHas, ChangesAt, UpdateAt, Updates
<1>8. ASSUME Updated(k) PROVE ChangesAt(k)'
  <2>1. t.step = "ready"
    BY <1>2, <1>8 DEF UpdateAt, Updated
  <2> QED  BY <1>3, <1>8, <2>1 DEF TokenHas, ChangesAt, Updates
<1>9. ASSUME token' = token PROVE ChangesAt(k)'
  BY <1>2, <1>3, <1>4, <1>9 DEF ChangesAt, UpdateAt, Updates
<1>10. CASE CountNew(k)
  BY <1>2, <1>3, <1>6, <1>10, <1>1, <1>5, KeepsAt DEF CountNew, At, Updating, UpdateAt
<1>11. CASE NoChange(k)
  BY <1>2, <1>3, <1>7, <1>11, <1>1, <1>5, KeepsAt DEF NoChange, At, Updating, UpdateAt
<1>12. CASE Decrement(k)
  <2>1. token' = token \/ Step(k, "removed")
    BY <1>12 DEF Decrement
  <2>2. t.n <= Len(Body[k]) /\ ~ignore_old_topic
    BY <1>2, <1>12 DEF Decrement, At, Updating, UpdateAt
  <2> QED  BY <1>1, <1>3, <1>5, <1>6, <1>9, <2>1, <2>2, KeepsAt
<1>13. CASE DecrementTotal(k)
  <2>1. t.n <= Len(Body[k]) /\ ~ignore_old_topic /\ Step(k, "dropped")
    BY <1>2, <1>13 DEF DecrementTotal, At, Updating, UpdateAt
  <2> QED  BY <1>1, <1>3, <1>5, <1>6, <2>1, KeepsAt
<1>14. CASE Increment(k)
  <2>1. t.n <= Len(Body[k]) /\ Step(k, "added")
    BY <1>2, <1>14 DEF Increment, At, Updating, UpdateAt
  <2> QED  BY <1>1, <1>3, <1>5, <1>6, <2>1, KeepsAt
<1>15. CASE IncrementTotal(k)
  <2>1. t.n <= Len(Body[k]) /\ NextChange(k)
    BY <1>2, <1>15 DEF IncrementTotal, At, Updating, UpdateAt
  <2> QED  BY <1>1, <1>3, <1>5, <1>7, <2>1, KeepsAt
<1>16. CASE Updated(k)
  BY <1>1, <1>5, <1>8, <1>16, KeepsAt
<1> QED  BY <1>10, <1>11, <1>12, <1>13, <1>14, <1>15, <1>16 DEF Update

LEMMA FilterKeepsAt ==
  ASSUME Inv, mode # "stream", TopicsInv, ChangesInv, NEW k \in Docs, Filter(k), ~Write(k)
  PROVE  TopicsInv' /\ ChangesInv'
<1>1. Alone(k)
  BY FilterAlone
<1>2. /\ k \in Live /\ TopicsAt(k) /\ ChangesAt(k)
      /\ UNCHANGED <<FromFile(k), Testing, Resampling, ignore_old_topic>>
  BY <1>1 DEF Alone, TopicsInv, ChangesInv, FromFile, StoredTopics
<1>3. CASE CopyTotal(k)
  <2>1. /\ ~Testing /\ Resampling /\ token[k].at = 2
        /\ TokenHas(token'[k], 2, token[k].changes, token[k].n, token[k].step)
        /\ TopicsIn(k)' = TopicsIn(k)
    BY <1>3, CopyTotalIs
  <2>2. TopicsAt(k)' /\ ChangesAt(k)'
    BY <1>2, <2>1 DEF TokenHas, TopicsAt, ChangesAt, Updates
  <2> QED  BY <1>1, <2>2, KeepsAt
<1>4. CASE Sample(k)
  <2>1. ~Testing /\ Resampling /\ token[k].at = 2
    BY <1>4, SampleIs
  <2>2. PICK new \in [Positions(k) -> Topics] :
          /\ TokenHas(token'[k], 3, Sampled(k, new), token[k].n, token[k].step)
          /\ TopicsIn(k)' = new
    BY <1>4, SampleIs
  <2>3. /\ token[k].n = 1 /\ token[k].step = "ready" /\ TopicsIn(k) = FromFile(k)
    BY <1>2, <2>1 DEF TopicsAt, ChangesAt, Updates
  <2>4. BodyOf(k) = Body[k] /\ Len(Body[k]) \in Nat
    BY <1>2, PositionsAre DEF Inv, FilesInv, DocsOK
  <2>5. Sampled(k, new) = NotedChanges(k)'
    BY <1>2, <2>2, <2>3, <2>4 DEF Sampled, NotedChanges, OldTopic, Positions
  <2>6. TopicsAt(k)' /\ ChangesAt(k)'
    BY <1>2, <2>1, <2>2, <2>3, <2>4, <2>5 DEF TokenHas, TopicsAt, ChangesAt, Updates
  <2> QED  BY <1>1, <2>6, KeepsAt
<1>5. CASE Update(k)
  BY <1>5, UpdateKeepsAt
<1>6. CASE Optimize(k) \/ Eval(k)
  <2>1. /\ TokenHas(token'[k], token[k].at + 1, token[k].changes, token[k].n,
                     token[k].step)
        /\ Resampling => token[k].at > SettlesAt
        /\ token[k].at \in Nat /\ TopicsIn(k)' = TopicsIn(k)
    BY <1>6, PassIs
  <2>2. token[k].at >= 2
    <3>1. token[k].at \in 2..Len(Filters)
      BY <1>2 DEF Inv, RingInv, TokensOK
    <3> QED  BY <2>1, <3>1
  <2>3. ~Updates(k) /\ ~Updates(k)' /\ token'[k].at # 2
    BY <1>2, <2>1, <2>2 DEF TokenHas, Updates, SettlesAt
  <2>4. TopicsAt(k)' /\ ChangesAt(k)'
    BY <1>2, <2>1, <2>3 DEF TokenHas, TopicsAt, ChangesAt
  <2> QED  BY <1>1, <2>4, KeepsAt
<1>7. CASE Test(k)
  <2>1. /\ Testing /\ token[k].at = 2
        /\ TokenHas(token'[k], 3, token[k].changes, token[k].n, token[k].step)
    BY <1>7, TestIs
  <2>2. TopicsAt(k)' /\ ChangesAt(k)'
    BY <1>2, <2>1 DEF TokenHas, TopicsAt, ChangesAt, Updates, Resampling
  <2> QED  BY <1>1, <2>2, KeepsAt
<1> QED  BY <1>3, <1>4, <1>5, <1>6, <1>7 DEF Filter

-----------------------------------------------------------------------------
(***************************************************************************)
(* The writer, the reader and the steps between iterations keep them.      *)
(***************************************************************************)

\* What a document was written with.
LEMMA WriteIs ==
  ASSUME Inv, mode # "stream", NEW k \in Docs, Write(k)
  PROVE  /\ k \in Live /\ Live' = Live \ {k} /\ k \notin DOMAIN output_t
         /\ \A j \in Live' : token'[j] = token[j] /\ TopicsIn(j)' = TopicsIn(j)
         /\ \A j \in Docs : j \in Live' => j # k
         /\ DOMAIN output_t' = DOMAIN output_t \cup {k}
         /\ \A j \in DOMAIN output_t :
              StoredTopics(output_t', j) = StoredTopics(output_t, j)
         /\ StoredTopics(output_t', k) = TopicsIn(k)
         /\ Len(output_t) \in Nat /\ k = Len(output_t) + 1
         /\ output_t' = Append(output_t, Written(k))
         /\ token[k].at = Len(Filters) /\ pc = "run"
         /\ UNCHANGED <<mode, iter, pc, read, ignore_old_topic, input_t, wt,
                        tokens_per_topic>>
<1>1. /\ k \in Live /\ token[k].at = Len(Filters)
      /\ \A j \in Live : ~(j < k)
      /\ Live' = Live \ {k} /\ \A j \in Live' : token'[j] = token[j]
  BY WriterIsBehind DEF Inv
<1>2. /\ pc = "run" /\ output_t' = Append(output_t, Written(k)) /\ ring' = ring
      /\ UNCHANGED <<mode, iter, pc, read, ignore_old_topic, input_t, wt,
                     tokens_per_topic>>
  BY DEF Write, In, controlVars, readerVars, tableVars
<1>3. /\ output_t \in Seq(Records) /\ output_t' \in Seq(Records)
      /\ IsTopicsFile(output_t')
  <2>1. FilesOK /\ FilesOK'
    BY WriteKeepsFiles DEF Inv, FilesInv, FilesParts
  <2> QED  BY <2>1 DEF FilesOK
<1> DEFINE n == Len(output_t)
<1>4. /\ n \in Nat /\ read \in Nat /\ k \in Nat
      /\ Live = {j \in Docs : n < j /\ j <= read}
  BY <1>2, <1>3, DocsAre DEF Inv, FilesInv, InOrder, RingInv, RingOK
<1> HIDE DEF n
<1>5. k = n + 1
  <2>1. n < k /\ k <= read /\ k <= Len(Body)
    BY <1>1, <1>4, DocsAre
  <2>2. n + 1 \in Docs /\ n < n + 1 /\ n + 1 <= read
    BY <1>4, <2>1, DocsAre
  <2>3. ~(n + 1 < k)
    BY <1>1, <1>4, <2>2
  <2> QED  BY <1>4, <2>1, <2>3
<1>6. /\ Len(output_t') = n + 1
      /\ DOMAIN output_t' = 1..n + 1 /\ DOMAIN output_t = 1..n
      /\ \A j \in 1..n : output_t'[j] = output_t[j]
      /\ output_t'[n + 1] = Written(k)
  BY <1>2, <1>3 DEF n
<1>7. DOMAIN output_t' = DOMAIN output_t \cup {k} /\ k \notin DOMAIN output_t
  BY <1>4, <1>5, <1>6
<1>8. \A j \in DOMAIN output_t :
        StoredTopics(output_t', j) = StoredTopics(output_t, j)
  BY <1>6, <1>7 DEF StoredTopics, ReadRecord
<1>9. StoredTopics(output_t', k) = TopicsIn(k)
  <2>1. Len(Filters) # 2
    BY SecondFilter, WriterIsLast
  <2>2. IsTopicing(k, TopicsIn(k))
    BY <1>1, <2>1 DEF Inv, FilesInv, DocsOK, Untopiced
  <2>3. PICK d : d = Buffer(k)
    OBVIOUS
  <2>4. IsDoc(d) /\ d.docid = k /\ d.topic_assignment \in Seq(Topics)
    BY <1>1, <2>2, <2>3
      DEF Inv, RingInv, RingOK, TokensOK, RingIsExclusive, Buffer, TopicsIn, IsTopicing
  <2>5. Written(k) = SerializeToString([d EXCEPT !.body = <<>>])
    BY <2>3 DEF Written
  <2>6. TopicsOfRecord(Written(k)) = TopicsIn(k)
    BY <1>4, <2>3, <2>4, <2>5, Writes DEF TopicsIn
  <2>7. output_t'[k] = Written(k) /\ k \in DOMAIN output_t'
    BY <1>5, <1>6, <1>7
  <2>8. IsTopicsOf(k, output_t'[k])
    BY <1>3, <2>7 DEF IsTopicsFile
  <2>9. ReadRecord(output_t', k, Clear).topic_assignment = TopicsOfRecord(output_t'[k])
    <3>1. PICK file : file = output_t'
      OBVIOUS
    <3> QED  BY <1>4, <2>7, <2>8, <3>1, ReadsTopics
  <2> QED  BY <2>6, <2>7, <2>9 DEF StoredTopics
<1>10. \A j \in Live' : TopicsIn(j)' = TopicsIn(j)
  BY <1>1, <1>2 DEF TopicsIn, Buffer
<1> QED  BY <1>1, <1>2, <1>4, <1>5, <1>7, <1>8, <1>9, <1>10 DEF n

LEMMA Frame ==
  ASSUME UNCHANGED <<mode, iter>>
  PROVE  UNCHANGED <<Testing, Resampling, SettlesAt, Filters>>
BY DEF Testing, optimize, compute_loglikelihood, Resampling, SettlesAt, Filters

LEMMA WriteKeepsAt ==
  ASSUME Inv, mode # "stream", TopicsInv, ChangesInv, NEW k \in Docs, Write(k)
  PROVE  TopicsInv' /\ ChangesInv'
<1>1. /\ Live' = Live \ {k} /\ k \in Live
      /\ \A j \in Live' : token'[j] = token[j] /\ TopicsIn(j)' = TopicsIn(j)
      /\ DOMAIN output_t' = DOMAIN output_t \cup {k}
      /\ \A j \in DOMAIN output_t :
              StoredTopics(output_t', j) = StoredTopics(output_t, j)
      /\ StoredTopics(output_t', k) = TopicsIn(k)
      /\ pc = "run"
      /\ UNCHANGED <<mode, iter, ignore_old_topic, input_t>>
  BY WriteIs
<1>2. UNCHANGED <<Testing, Resampling>> /\ \A j : FromFile(j)' = FromFile(j)
  BY <1>1, Frame DEF FromFile, StoredTopics
<1>3. ASSUME NEW j \in Live' PROVE TopicsAt(j)' /\ ChangesAt(j)'
  <2>1. TopicsAt(j) /\ ChangesAt(j) /\ token'[j] = token[j] /\ TopicsIn(j)' = TopicsIn(j)
    BY <1>1 DEF TopicsInv, ChangesInv
  <2>2. NotedChanges(j)' = NotedChanges(j)
    BY <1>1, <1>2, <2>1 DEF NotedChanges, Positions
  <2>3. Updates(j)' <=> Updates(j)
    BY <1>2, <2>1 DEF Updates
  <2> QED  BY <1>1, <1>2, <2>1, <2>2, <2>3 DEF TopicsAt, ChangesAt
<1>4. ASSUME ~Resampling, NEW j \in DOMAIN output_t'
      PROVE  StoredTopics(output_t', j) = FromFile(j)
  <2>1. CASE j = k
    BY <1>1, <1>4, <2>1 DEF TopicsInv, TopicsAt
  <2>2. CASE j # k
    BY <1>1, <1>4, <2>2 DEF TopicsInv
  <2> QED  BY <2>1, <2>2
<1> QED  BY <1>1, <1>2, <1>3, <1>4 DEF TopicsInv, ChangesInv

LEMMA AssembleKeepsAt ==
  ASSUME Inv, mode # "stream", TopicsInv, Assemble
  PROVE  TopicsInv' /\ ChangesInv'
<1>1. /\ Live' = {} /\ output_t = <<>> /\ pc' = "run"
      /\ UNCHANGED <<mode, iter, input_t, output_t>>
  BY DEF Inv, RingInv, LastRead, FilesInv, ControlOK, Assemble, Live, fileVars
<1> QED  BY <1>1 DEF TopicsInv, ChangesInv

LEMMA EndKeepsAt ==
  ASSUME Inv, mode # "stream", TopicsInv, IterationDone \/ Finish
  PROVE  TopicsInv' /\ ChangesInv'
<1>1. Live' = {} /\ pc' # "run"
  BY DEF Inv, RingInv, LastRead, IterationDone, Finish, Live
<1>2. mode' \in {"test", "online"} /\ iter' = 1 => input_t' = <<>>
  <2>1. iter \in Nat /\ iter >= 1
    BY DEF Inv, FilesInv, ControlOK
  <2>2. CASE IterationDone
    BY <2>1, <2>2 DEF IterationDone
  <2>3. CASE Finish
    BY <2>3 DEF Finish, fileVars, TopicsInv
  <2> QED  BY <2>2, <2>3
<1> QED  BY <1>1, <1>2 DEF TopicsInv, ChangesInv

\* The document that is read next, and those that were.
LEMMA ReadIs ==
  ASSUME Inv, mode \in Modes, mode # "stream", Read
  PROVE  \E r \in Docs :
           /\ r = read + 1 /\ read' = r /\ r \notin Live /\ Live' = Live \cup {r}
           /\ \A j \in Live : token'[j] = token[j] /\ TopicsIn(j)' = TopicsIn(j)
           /\ TokenHas(token'[r], 2, <<>>, 1, "ready") /\ token'[r].nt = <<>>
           /\ TopicsIn(r)' = IF mode = "test" \/ ignore_old_topic THEN <<>>
                             ELSE FromFile(r)
           /\ pc = "run"
           /\ UNCHANGED <<controlVars, fileVars, tableVars>>
<1>1. RingInv' /\ RingInv /\ DocsOK
  BY ReadKeepsRing DEF Inv, FilesInv
<1>2. PICK r : r = read + 1
  OBVIOUS
<1>3. /\ read \in Nat /\ r \in Docs /\ r \in Nat /\ pc = "run"
      /\ read' = r /\ next_doc \in Slots
      /\ UNCHANGED <<controlVars, fileVars, tableVars>>
  BY <1>1, <1>2, DocsAre DEF Read, MayRead, RingInv, RingOK
<1>4. token' = [k \in Docs |->
        IF k = r THEN [at |-> 2, slot |-> next_doc, nt |-> <<>>,
                       changes |-> <<>>, n |-> 1, step |-> "ready"]
                 ELSE token[k]]
  BY <1>1, <1>2 DEF Read, RingInv, TokensOK
<1>5. PICK doc \in Document(r) :
        ring' = [s \in Slots |-> IF s = next_doc THEN doc ELSE ring[s]]
  BY <1>1, <1>2 DEF Read, RingInv, RingOK
<1>6. Live' = Live \cup {r} /\ r \notin Live
  <2>1. Live' = Live \cup {r}
    BY <1>3, <1>4 DEF Live, NoToken, Docs
  <2>2. r \notin Live
    BY <1>1, <1>2, <1>3, DocsAre DEF RingInv, LastRead
  <2> QED  BY <2>1, <2>2
<1>7. ASSUME NEW j \in Live PROVE token'[j] = token[j] /\ TopicsIn(j)' = TopicsIn(j)
  <2>1. token'[j] = token[j] /\ token'[r].slot = next_doc /\ j # r
    BY <1>3, <1>4, <1>6 DEF Live
  <2>2. token[j].slot \in Slots /\ token[j].slot # next_doc
    BY <1>1, <1>6, <2>1 DEF RingInv, TokensOK, RingIsExclusive
  <2>3. Buffer(j)' = Buffer(j)
    BY <1>5, <2>1, <2>2 DEF Buffer
  <2> QED  BY <2>1, <2>3 DEF TopicsIn
<1>8. TokenHas(token'[r], 2, <<>>, 1, "ready") /\ token'[r].nt = <<>>
  BY <1>3, <1>4 DEF TokenHas
<1>9. TopicsIn(r)' = doc.topic_assignment
  <2>1. token'[r].slot = next_doc
    BY <1>3, <1>4
  <2> QED  BY <1>3, <1>5, <2>1 DEF TopicsIn, Buffer
<1>10. doc.topic_assignment = IF mode = "test" \/ ignore_old_topic THEN <<>>
                              ELSE FromFile(r)
  <2> DEFINE wdoc == ReadRecord(input_w, r, Clear)
             tdoc == ReadRecord(input_t, r, Clear)
  <2>1. CASE mode = "test" \/ ignore_old_topic
    <3>1. FilesInv
      BY DEF Inv
    <3> QED  BY <1>3, <1>5, <2>1, <3>1, DocumentIs
  <2>2. CASE ~(mode = "test" \/ ignore_old_topic)
    <3>1. doc = MergeFrom(wdoc, tdoc)
      BY <1>5, <2>2 DEF Document
    <3>2. DOMAIN input_t = Docs /\ IsTopicsFile(input_t)
      BY <2>2 DEF Inv, FilesInv, ControlOK, FilesOK
    <3>3. IsTopicsOf(r, input_t[r])
      BY <1>3, <3>2 DEF IsTopicsFile
    <3>4. tdoc.docid \in {0, r} /\ tdoc.body = <<>> /\ tdoc.topic_assignment \in Seq(Topics)
      BY <1>3, <3>2, <3>3, ReadsTopics
    <3>5. wdoc.docid = r /\ wdoc.body \in Seq(Words) /\ wdoc.topic_assignment = <<>>
      BY <1>3, ReadsWords, PipelineAssumption DEF Docs
    <3> HIDE DEF wdoc, tdoc
    <3>6. doc.topic_assignment = tdoc.topic_assignment
      BY <1>3, <3>1, <3>4, <3>5, Merges
    <3> QED  BY <2>2, <3>6 DEF tdoc, FromFile, StoredTopics
  <2> QED  BY <2>1, <2>2
<1> QED  BY <1>2, <1>3, <1>6, <1>7, <1>8, <1>9, <1>10

LEMMA NoFile == input_t = <<>> => \A k : FromFile(k) = <<>>
BY ClearIs DEF FromFile, StoredTopics, ReadRecord

LEMMA ReadKeepsAt ==
  ASSUME Inv, mode \in Modes, mode # "stream", TopicsInv, ChangesInv, Read
  PROVE  TopicsInv' /\ ChangesInv'
<1>1. PICK r \in Docs :
           /\ Live' = Live \cup {r}
           /\ \A j \in Live : token'[j] = token[j] /\ TopicsIn(j)' = TopicsIn(j)
           /\ TokenHas(token'[r], 2, <<>>, 1, "ready")
           /\ TopicsIn(r)' = IF mode = "test" \/ ignore_old_topic THEN <<>>
                             ELSE FromFile(r)
           /\ pc = "run"
           /\ UNCHANGED <<controlVars, fileVars>>
  BY ReadIs
<1>2. UNCHANGED <<mode, iter, ignore_old_topic, input_t, output_t, pc>>
  BY <1>1 DEF controlVars, fileVars
<1>3. UNCHANGED <<Testing, Resampling>> /\ \A j : FromFile(j)' = FromFile(j)
  BY <1>2, Frame DEF FromFile, StoredTopics
<1>4. ASSUME NEW j \in Live PROVE TopicsAt(j)' /\ ChangesAt(j)'
  <2>1. TopicsAt(j) /\ ChangesAt(j) /\ token'[j] = token[j] /\ TopicsIn(j)' = TopicsIn(j)
    BY <1>1 DEF TopicsInv, ChangesInv
  <2>2. NotedChanges(j)' = NotedChanges(j)
    BY <1>2, <1>3, <2>1 DEF NotedChanges, Positions
  <2>3. Updates(j)' <=> Updates(j)
    BY <1>3, <2>1 DEF Updates
  <2> QED  BY <1>2, <1>3, <2>1, <2>2, <2>3 DEF TopicsAt, ChangesAt
<1>5. TopicsIn(r)' = FromFile(r)
  <2>1. mode = "test" \/ ignore_old_topic => input_t = <<>>
    BY <1>1 DEF Inv, FilesInv, ControlOK, TopicsInv
  <2> QED  BY <1>1, <2>1, NoFile
<1>6. TopicsAt(r)' /\ ChangesAt(r)'
  BY <1>1, <1>3, <1>5 DEF TokenHas, TopicsAt, ChangesAt, Updates
<1>7. \A j \in Live' : TopicsAt(j)' /\ ChangesAt(j)'
  BY <1>1, <1>4, <1>6
<1> QED  BY <1>2, <1>3, <1>7 DEF TopicsInv, ChangesInv

\* Steps that leave the documents alone.
LEMMA SameKeepsAt ==
  ASSUME TopicsInv, ChangesInv,
         UNCHANGED <<mode, iter, pc, ignore_old_topic, ring, token, input_t, output_t>>
  PROVE  TopicsInv' /\ ChangesInv'
<1>1. /\ UNCHANGED <<Testing, Resampling, Live>>
      /\ \A j : FromFile(j)' = FromFile(j) /\ TopicsIn(j)' = TopicsIn(j)
  BY Frame DEF FromFile, StoredTopics, Live, TopicsIn, Buffer
<1>2. \A j : NotedChanges(j)' = NotedChanges(j) /\ (Updates(j)' <=> Updates(j))
  BY <1>1 DEF NotedChanges, Positions, Updates
<1> QED  BY <1>1, <1>2 DEF TopicsInv, ChangesInv, TopicsAt, ChangesAt

LEMMA StepKeepsAt ==
  ASSUME Inv, mode \in Modes, mode # "stream", TopicsInv, ChangesInv, [Next]_vars
  PROVE  TopicsInv' /\ ChangesInv'
<1>1. CASE Assemble
  BY <1>1, AssembleKeepsAt
<1>2. CASE Read
  BY <1>2, ReadKeepsAt
<1>3. CASE ReadEnd \/ UNCHANGED vars
  BY <1>3, SameKeepsAt DEF ReadEnd, vars, controlVars, fileVars
<1>4. CASE IterationDone \/ Finish
  BY <1>4, EndKeepsAt
<1>5. CASE \E k \in Docs : Filter(k)
  BY <1>5, FilterKeepsAt, WriteKeepsAt
<1> QED  BY <1>1, <1>2, <1>3, <1>4, <1>5 DEF Next

-----------------------------------------------------------------------------
(***************************************************************************)
(* View: the topics a document has in this iteration, in its buffer, in    *)
(* the file read or in the file written, as the counts see them.           *)
(***************************************************************************)

\* Where a document's topics are, and whether they are new.
Behind(k) ==
  /\ pc = "run" /\ k <= read /\ Resampling
  /\ k \in Live => token[k].at > SettlesAt

View(k) ==
  IF ~Behind(k) THEN FromFile(k)
  ELSE IF k \in Live THEN TopicsIn(k) ELSE StoredTopics(output_t, k)

LEMMA ViewIs ==
  Inv /\ mode # "stream" =>
    \A k \in Docs : (Settled(k) <=> Behind(k)) /\ TopicsOf(k) = View(k)
<1>1. \A k \in Docs : Settled(k) <=> Behind(k)
  BY SettledIs DEF Behind
<1> QED  BY <1>1, TopicsOfIs DEF View

LEMMA ViewNext ==
  Inv' /\ mode' # "stream" =>
    \A k \in Docs : (Settled(k)' <=> Behind(k)') /\ TopicsOf(k)' = View(k)'
<1>1. (Inv /\ mode # "stream")' =>
      (\A k \in Docs : (Settled(k) <=> Behind(k)) /\ TopicsOf(k) = View(k))'
  BY ViewIs, PTL
<1> QED  BY <1>1 DEF Docs

Stays(k) == (Behind(k)' <=> Behind(k)) /\ View(k)' = View(k)

LEMMA EndStays ==
  ASSUME Inv, mode # "stream", TopicsInv, IterationDone, NEW k \in Docs
  PROVE  /\ ~Behind(k)' /\ View(k)' = View(k)
         /\ output_t \in Seq(Records) /\ Len(output_t) = Len(Body)
         /\ View(k) = StoredTopics(output_t, k)
<1>1. Live = {} /\ pc = "run" /\ pc' = "init" /\ input_t' = output_t /\ read = Len(Body)
  BY DEF IterationDone, Inv, FilesInv, ControlOK
<1>2. /\ DOMAIN output_t = Docs /\ output_t \in Seq(Records) /\ Len(output_t) = Len(Body)
  <2>1. /\ {} = {j \in Docs : Len(output_t) < j /\ j <= read}
        /\ Len(output_t) <= read /\ output_t \in Seq(Records)
    BY <1>1 DEF Inv, FilesInv, FilesOK, InOrder
  <2>2. Len(output_t) \in Nat
    BY <2>1
  <2>3. ~(Len(output_t) < Len(Body))
    BY <1>1, <2>1, <2>2, DocsAre
  <2>4. Len(output_t) = Len(Body)
    BY <1>1, <2>1, <2>2, <2>3, DocsAre
  <2> QED  BY <2>1, <2>4, DocsAre
<1>3. View(k)' = StoredTopics(output_t, k) /\ ~Behind(k)'
  BY <1>1 DEF View, Behind, FromFile, StoredTopics
<1>4. CASE Resampling
  <2>1. Behind(k)
    BY <1>1, <1>4, DocsAre DEF Behind
  <2> QED  BY <1>1, <1>2, <1>3, <2>1 DEF View
<1>5. CASE ~Resampling
  BY <1>1, <1>2, <1>3, <1>5 DEF View, Behind, TopicsInv
<1> QED  BY <1>4, <1>5, <1>2

LEMMA ReadStays ==
  ASSUME Inv, mode \in Modes, mode # "stream", Read, NEW k \in Docs
  PROVE  Stays(k)
<1>1. PICK r \in Docs :
           /\ r = read + 1 /\ read' = r /\ r \notin Live /\ Live' = Live \cup {r}
           /\ \A j \in Live : token'[j] = token[j] /\ TopicsIn(j)' = TopicsIn(j)
           /\ TokenHas(token'[r], 2, <<>>, 1, "ready")
           /\ UNCHANGED <<controlVars, fileVars>>
  BY ReadIs
<1>2. UNCHANGED <<mode, iter, pc, input_t, output_t>>
  BY <1>1 DEF controlVars, fileVars
<1>3. UNCHANGED <<Resampling, SettlesAt, FromFile(k)>>
  BY <1>2, Frame DEF FromFile, StoredTopics
<1>4. read \in Nat /\ k \in Nat
  BY DocsAre DEF Inv, RingInv, RingOK
<1>5. CASE k = r
  BY <1>1, <1>2, <1>3, <1>4, <1>5 DEF Stays, Behind, View, TokenHas, SettlesAt
<1>6. CASE k # r
  BY <1>1, <1>2, <1>3, <1>4, <1>6 DEF Stays, Behind, View
<1> QED  BY <1>5, <1>6

LEMMA WriteStays ==
  ASSUME Inv, mode # "stream", TopicsInv, NEW j \in Docs, Write(j), NEW k \in Docs
  PROVE  Stays(k) /\ (Resampling => Behind(j)) /\ View(j) = TopicsIn(j)
<1>1. /\ j \in Live /\ Live' = Live \ {j}
      /\ \A i \in Live' : token'[i] = token[i] /\ TopicsIn(i)' = TopicsIn(i)
      /\ DOMAIN output_t' = DOMAIN output_t \cup {j}
      /\ \A i \in DOMAIN output_t :
              StoredTopics(output_t', i) = StoredTopics(output_t, i)
      /\ StoredTopics(output_t', j) = TopicsIn(j)
      /\ token[j].at = Len(Filters)
      /\ pc = "run"
      /\ UNCHANGED <<mode, iter, pc, read, input_t>>
  BY WriteIs
<1>2. UNCHANGED <<Resampling, SettlesAt, FromFile(k)>>
  BY <1>1, Frame DEF FromFile, StoredTopics
<1>3. Resampling => token[j].at > SettlesAt
  BY <1>1, FiltersAre DEF SettlesAt
<1>4. j <= read /\ TopicsAt(j)
  BY <1>1 DEF Inv, RingInv, LastRead, TopicsInv
<1>5. View(j) = TopicsIn(j) /\ (Resampling => Behind(j))
  BY <1>1, <1>3, <1>4 DEF View, Behind, TopicsAt
<1>6. CASE k = j
  BY <1>1, <1>2, <1>3, <1>4, <1>6 DEF View, Behind, TopicsAt, Stays
<1>7. CASE k # j
  <2>1. Behind(k)' <=> Behind(k)
    BY <1>1, <1>2, <1>7 DEF Behind
  <2>2. Behind(k) /\ k \notin Live => k \in DOMAIN output_t
    <3>1. ASSUME k <= read, k \notin Live PROVE k \in DOMAIN output_t
      <4>1. /\ ~(Len(output_t) < k) /\ output_t \in Seq(Records)
        BY <1>1, <3>1 DEF Inv, FilesInv, InOrder, FilesOK
      <4>2. Len(output_t) \in Nat /\ DOMAIN output_t = 1..Len(output_t)
        BY <4>1
      <4> QED  BY <4>1, <4>2, DocsAre
    <3> QED  BY <3>1 DEF Behind
  <2> QED  BY <1>1, <1>2, <1>5, <1>7, <2>1, <2>2 DEF View, Stays
<1> QED  BY <1>5, <1>6, <1>7

LEMMA FilterStays ==
  ASSUME Inv, mode # "stream", NEW j \in Docs, Filter(j), ~Write(j), pc' = "run",
         NEW k \in Docs
  PROVE  /\ k # j => Stays(k)
         /\ ~Updated(j) /\ ~Test(j) => Stays(j)
         /\ Updated(j) \/ Test(j) => ~Behind(j) /\ Behind(j)' /\ View(j)' = TopicsIn(j)'
<1>1. Alone(j)
  BY FilterAlone
<1>2. UNCHANGED <<FromFile(j), FromFile(k), Resampling, SettlesAt, read, Testing, output_t>>
      /\ j \in Live /\ j <= read /\ pc = "run" /\ Live' = Live
  BY <1>1 DEF Alone, FromFile, StoredTopics, Inv, RingInv, LastRead
<1>3. k # j => Stays(k)
  BY <1>1, <1>2 DEF Alone, Stays, Behind, View
<1>4. CASE CopyTotal(j)
  <2>1. /\ ~Testing /\ token[j].at = 2
        /\ TokenHas(token'[j], 2, token[j].changes, token[j].n, token[j].step)
    BY <1>4, CopyTotalIs
  <2>2. ~Behind(j) /\ ~Behind(j)'
    BY <1>2, <2>1 DEF Behind, SettlesAt, TokenHas
  <2>3. ~Updated(j) /\ ~Test(j)
    BY <1>4, <2>1, UpdateIs, TestIs DEF Update, Updates
  <2> QED  BY <1>2, <1>3, <2>2, <2>3 DEF Stays, View
<1>5. CASE Sample(j)
  <2>1. ~Testing /\ token[j].at = 2
    BY <1>5, SampleIs
  <2>2. token'[j].at = 3
    BY <1>5, SampleIs DEF TokenHas
  <2>3. ~Behind(j) /\ ~Behind(j)'
    BY <1>2, <2>1, <2>2 DEF Behind, SettlesAt
  <2>4. ~Updated(j) /\ ~Test(j)
    BY <1>4, <2>1, UpdateIs, TestIs DEF Update, Updates
  <2> QED  BY <1>2, <1>3, <2>3, <2>4 DEF Stays, View
<1>6. CASE Update(j)
  <2>1. /\ Updates(j) /\ TopicsIn(j)' = TopicsIn(j)
        /\ \A step : Step(j, step) => StepTo(j, step)
        /\ NextChange(j) => ToNext(j)
        /\ Updated(j) => token'[j].at = 4
    BY <1>6, UpdateIs DEF TokenHas
  <2>2. ~Behind(j) /\ ~Test(j) /\ token[j].at = 3 /\ ~Testing /\ Resampling
    BY <1>2, <2>1, TestIs DEF Behind, SettlesAt, Updates
  <2>3. ASSUME ~Updated(j) PROVE ~Behind(j)'
    <3>1. (\E step : Step(j, step)) \/ NextChange(j) \/ token' = token
      BY <1>6, <2>3 DEF Update, CountNew, NoChange, Decrement, DecrementTotal,
         Increment, IncrementTotal
    <3>2. token'[j].at = 3
      BY <2>1, <2>2, <3>1 DEF StepTo, ToNext, TokenHas
    <3> QED  BY <1>2, <2>2, <3>2 DEF Behind, SettlesAt
  <2>4. ASSUME Updated(j) PROVE Behind(j)'
    BY <1>2, <2>1, <2>2, <2>4 DEF Behind, SettlesAt
  <2> QED  BY <1>2, <1>3, <2>2, <2>3, <2>4 DEF Stays, View
<1>7. CASE Optimize(j) \/ Eval(j)
  <2>1. /\ token'[j].at = token[j].at + 1 /\ token[j].at \in Nat
        /\ Resampling => token[j].at > SettlesAt
        /\ TopicsIn(j)' = TopicsIn(j)
    BY <1>7, PassIs DEF TokenHas
  <2>2. SettlesAt \in Nat
    BY DEF SettlesAt
  <2>3. (Behind(j)' <=> Resampling) /\ (Behind(j) <=> Resampling)
    BY <1>2, <2>1, <2>2 DEF Behind
  <2>4. ~Updated(j) /\ ~Test(j)
    BY <1>7, <2>1, UpdateIs, TestIs DEF Update, Updates, SettlesAt, Resampling
  <2> QED  BY <1>2, <1>3, <2>1, <2>3, <2>4 DEF Stays, View
<1>8. CASE Test(j)
  <2>1. Testing /\ token[j].at = 2 /\ token'[j].at = 3
    BY <1>8, TestIs DEF TokenHas
  <2>2. ~Behind(j) /\ Behind(j)'
    BY <1>2, <2>1 DEF Behind, SettlesAt, Resampling
  <2> QED  BY <1>2, <1>3, <1>8, <2>2 DEF View
<1> QED  BY <1>4, <1>5, <1>6, <1>7, <1>8 DEF Filter

LEMMA OtherStays ==
  ASSUME Inv, mode # "stream",
         Assemble \/ ReadEnd \/ Finish \/ UNCHANGED vars, NEW k \in Docs
  PROVE  Stays(k)
<1>1. CASE Assemble
  <2>1. /\ pc = "init" /\ read' = 0 /\ input_t' = input_t /\ k \in Nat /\ ~(k <= 0)
    BY <1>1, DocsAre DEF Assemble, fileVars
  <2> QED  BY <2>1 DEF Stays, Behind, View, FromFile, StoredTopics
<1>2. CASE Finish
  <2>1. pc # "run" /\ pc' # "run" /\ input_t' = input_t
    BY <1>2 DEF Finish, fileVars
  <2> QED  BY <2>1 DEF Stays, Behind, View, FromFile, StoredTopics
<1>3. CASE ReadEnd \/ UNCHANGED vars
  <2>1. UNCHANGED <<mode, iter, pc, ring, read, token, input_t, output_t>>
    BY <1>3 DEF ReadEnd, vars, controlVars, fileVars, readerVars
  <2>2. UNCHANGED <<Resampling, SettlesAt, Live, FromFile(k), TopicsIn(k)>>
    BY <2>1, Frame DEF Live, FromFile, StoredTopics, TopicsIn, Buffer
  <2> QED  BY <2>1, <2>2 DEF Stays, Behind, View, StoredTopics
<1> QED  BY <1>1, <1>2, <1>3

-----------------------------------------------------------------------------
(***************************************************************************)
(* Tally: the topic under which a word of a document is counted, in the    *)
(* table or in the totals, while the updater goes through the document.    *)
(***************************************************************************)

Given(topics, i) == IF i \in DOMAIN topics THEN topics[i] ELSE 0

\* The topic a word is counted under.
Tally(k, i, none, new) ==
  IF k \in Live /\ Updates(k)
  THEN IF i < token[k].n \/ (i = token[k].n /\ token[k].step \in new)
       THEN TopicsIn(k)[i]
       ELSE IF i = token[k].n /\ token[k].step \in none THEN 0
            ELSE Given(FromFile(k), i)
  ELSE Given(View(k), i)

LEMMA CountedIs ==
  ASSUME Inv, mode # "stream", pc \in {"init", "run", "done"}, ChangesInv,
         NEW k \in Docs, NEW i \in Positions(k), NEW none, NEW new,
         none \cap new = {}
  PROVE  CountedTopics(k, none, new)[i] = Tally(k, i, none, new)
<1> DEFINE changing == k \in Live /\ In("updater", k)
<1>1. changing <=> k \in Live /\ Updates(k)
  <2>1. ASSUME k \in Live PROVE pc = "run" /\ token[k].at \in 1..Len(Filters)
    <3>1. pc = "run" /\ token[k].at \in 2..Len(Filters)
      BY <2>1 DEF Inv, RingInv, LastRead, TokensOK
    <3> QED  BY <3>1, FiltersAre
  <2> QED  BY <2>1, FiltersAre DEF In, serial, Updates
<1>2. TopicsOf(k) = View(k)
  BY ViewIs
<1>3. i \in Nat
  BY PositionsAre
<1>4. CASE ~changing
  <2>1. CountedTopics(k, none, new)[i] = Given(TopicsOf(k), i)
    BY <1>4 DEF CountedTopics, Given
  <2> QED  BY <1>1, <1>2, <1>4, <2>1 DEF Tally
<1>5. CASE changing
  <2>1. ChangesAt(k) /\ Updates(k) /\ k \in Live
    BY <1>1, <1>5 DEF ChangesInv
  <2>2. /\ token[k].changes[i].new = TopicsIn(k)[i]
        /\ token[k].n \in Nat
    BY <2>1, NotedIs, PositionsAre DEF ChangesAt
  <2>3. View(k) = FromFile(k)
    BY <2>1 DEF Updates, View, Behind, SettlesAt
  <2>4. CountedTopics(k, none, new)[i] =
          CASE i < token[k].n \/ (i = token[k].n /\ token[k].step \in new)
                 -> token[k].changes[i].new
            [] i = token[k].n /\ token[k].step \in none -> 0
            [] OTHER -> Given(TopicsOf(k), i)
    BY <1>5 DEF CountedTopics, Given
  <2>5. ~((i < token[k].n \/ (i = token[k].n /\ token[k].step \in new))
           /\ (i = token[k].n /\ token[k].step \in none))
    BY <1>3, <2>2
  <2> QED  BY <1>2, <2>1, <2>2, <2>3, <2>4, <2>5 DEF Tally
<1> QED  BY <1>4, <1>5

TalliesAre ==
  \A k \in Docs : \A i \in Positions(k) :
    /\ InTable[k][i] = Tally(k, i, {"removed", "dropped"}, {"added"})
    /\ InTotals[k][i] = Tally(k, i, {"dropped", "added"}, {})

Counts == Inv /\ mode # "stream" /\ pc \in {"init", "run", "done"} /\ ChangesInv

LEMMA Tallies == Counts => TalliesAre
BY CountedIs DEF Counts, TalliesAre, InTable, InTotals, Counting

LEMMA TalliesNext == Counts' => TalliesAre'
BY Tallies, PTL

\* What is counted is one topic for each word of the corpus.
LEMMA CountingIs ==
  /\ InTable = [k \in Docs |-> [i \in Positions(k) |-> InTable[k][i]]]
  /\ InTotals = [k \in Docs |-> [i \in Positions(k) |-> InTotals[k][i]]]
BY DEF InTable, InTotals, Counting, CountedTopics

LEMMA CountingNext ==
  /\ InTable' = [k \in Docs |-> [i \in Positions(k) |-> InTable'[k][i]]]
  /\ InTotals' = [k \in Docs |-> [i \in Positions(k) |-> InTotals'[k][i]]]
BY DEF InTable, InTotals, Counting, CountedTopics, Docs, Positions

SameTallies(k) ==
  \A i \in Positions(k) :
    /\ Tally(k, i, {"removed", "dropped"}, {"added"})' =
         Tally(k, i, {"removed", "dropped"}, {"added"})
    /\ Tally(k, i, {"dropped", "added"}, {})' = Tally(k, i, {"dropped", "added"}, {})

LEMMA SameCounts ==
  ASSUME Counts, Counts', \A k \in Docs : SameTallies(k)
  PROVE  InTable' = InTable /\ InTotals' = InTotals
<1>1. TalliesAre /\ TalliesAre'
  BY Tallies, TalliesNext
<1>2. \A k \in Docs : \A i \in Positions(k) :
        InTable'[k][i] = InTable[k][i] /\ InTotals'[k][i] = InTotals[k][i]
  BY <1>1 DEF TalliesAre, SameTallies, Docs, Positions
<1> QED  BY <1>2, CountingIs, CountingNext, Zenon

LEMMA KeepsTable ==
  ASSUME TableInv, Counts, Counts', \A k \in Docs : SameTallies(k), mode' = mode,
         UNCHANGED tableVars
  PROVE  TableInv'
<1>1. InTable' = InTable /\ InTotals' = InTotals
  BY SameCounts
<1>2. CountsOf(InTable)' = CountsOf(InTable) /\ CountsOf(InTotals)' = CountsOf(InTotals)
  BY <1>1 DEF CountsOf, Occurrences, Docs, Positions
<1>3. TotalsOf(CountsOf(InTotals))' = TotalsOf(CountsOf(InTotals))
  BY <1>2 DEF TotalsOf
<1> QED  BY <1>2, <1>3 DEF TableInv, tableVars

\* A document that is not being updated before and after.
LEMMA QuietTallies ==
  ASSUME NEW k, k \in Live => ~Updates(k), k \in Live' => ~Updates(k)',
         View(k)' = View(k)
  PROVE  SameTallies(k)
BY DEF SameTallies, Tally, Positions

\* A document whose update goes on where it was.
LEMMA WaitingTallies ==
  ASSUME NEW k, k \in Live, k \in Live', token'[k] = token[k],
         TopicsIn(k)' = TopicsIn(k), FromFile(k)' = FromFile(k),
         Updates(k)' <=> Updates(k), View(k)' = View(k)
  PROVE  SameTallies(k)
BY DEF SameTallies, Tally, Positions

-----------------------------------------------------------------------------
(***************************************************************************)
(* The table and the totals follow: a step changes the tally of one word   *)
(* at most, and the counts with it. Hence an old topic is counted whenever *)
(* the updater takes it off, and no update aborts.                         *)
(***************************************************************************)

LEMMA OthersTally ==
  ASSUME Inv, mode # "stream", NEW k \in Docs, Filter(k), ~Write(k), pc' = "run",
         NEW j \in Docs \ {k}
  PROVE  SameTallies(j)
<1>1. Alone(k) /\ Stays(j)
  BY FilterAlone, FilterStays
<1>2. /\ token'[j] = token[j] /\ Live' = Live /\ FromFile(j)' = FromFile(j)
      /\ (Updates(j)' <=> Updates(j)) /\ View(j)' = View(j)
      /\ j \in Live => TopicsIn(j)' = TopicsIn(j)
  BY <1>1 DEF Alone, FromFile, StoredTopics, Updates, Stays
<1>3. CASE j \in Live
  BY <1>2, <1>3, WaitingTallies
<1>4. CASE j \notin Live
  BY <1>2, <1>4, QuietTallies
<1> QED  BY <1>3, <1>4

\* The word whose change is under way: its old topic, its new one, and how it
\* is counted in the steps of the change.
Old(k) == Given(FromFile(k), token[k].n)
New(k) == TopicsIn(k)[token[k].n]

InTableAt(k, step) ==
  IF step = "added" THEN New(k)
  ELSE IF step \in {"removed", "dropped"} THEN 0 ELSE Old(k)

InTotalsAt(k, step) == IF step \in {"dropped", "added"} THEN 0 ELSE Old(k)

LEMMA ChangeIs ==
  ASSUME Inv, mode # "stream", TopicsInv, NEW k \in Docs, UpdateAt(k),
         token[k].n <= Len(Body[k])
  PROVE  /\ token[k].n \in Positions(k)
         /\ Change(k).word = Body[k][token[k].n]
         /\ Change(k).new = New(k) /\ New(k) \in Topics
         /\ IF ignore_old_topic THEN Old(k) = 0
            ELSE Change(k).old = Old(k) /\ Old(k) \in Topics
<1>1. mode \in {"train", "online"}
  BY DEF Inv, FilesInv, ControlOK, UpdateAt, Updates, Testing
<1>2. token[k].n \in Positions(k) /\ Positions(k) = 1..Len(Body[k])
  BY PositionsAre DEF UpdateAt
<1>3. IsTopicing(k, TopicsIn(k))
  BY DEF Inv, FilesInv, DocsOK, UpdateAt, Updates, Untopiced
<1>4. New(k) \in Topics
  BY <1>2, <1>3 DEF IsTopicing, New
<1>5. /\ Change(k).word = Body[k][token[k].n]
      /\ Change(k).new = New(k)
      /\ Change(k).old = IF ignore_old_topic THEN 0 ELSE FromFile(k)[token[k].n]
  BY <1>2, NotedIs DEF Change, UpdateAt, New
<1>6. IF ignore_old_topic THEN FromFile(k) = <<>> ELSE IsTopicing(k, FromFile(k))
  BY <1>1, FromFileIs
<1>7. ignore_old_topic => Old(k) = 0
  BY <1>2, <1>6 DEF Old, Given
<1>8. ~ignore_old_topic => Old(k) = FromFile(k)[token[k].n] /\ Old(k) \in Topics
  BY <1>2, <1>6 DEF Old, Given, IsTopicing
<1> QED  BY <1>2, <1>4, <1>5, <1>7, <1>8

\* An update's step changes how one word is counted.
Recounts(k) ==
  /\ DiffersAt(InTable, InTable', k, token[k].n)
  /\ DiffersAt(InTotals, InTotals', k, token[k].n)
  /\ InTable[k][token[k].n] = InTableAt(k, token[k].step)
  /\ InTotals[k][token[k].n] = InTotalsAt(k, token[k].step)

LEMMA RecountsOthers ==
  ASSUME Counts, Counts', NEW k \in Docs, UpdateAt(k), token[k].n <= Len(Body[k]),
         \A j \in Docs \ {k} : SameTallies(j),
         \A i \in Positions(k) : i # token[k].n =>
           /\ Tally(k, i, {"removed", "dropped"}, {"added"})' =
                Tally(k, i, {"removed", "dropped"}, {"added"})
           /\ Tally(k, i, {"dropped", "added"}, {})' =
                Tally(k, i, {"dropped", "added"}, {})
  PROVE  Recounts(k)
<1>1. TalliesAre /\ TalliesAre'
  BY Tallies, TalliesNext
<1>2. ASSUME NEW j \in Docs, NEW i \in Positions(j), j # k \/ i # token[k].n
      PROVE  InTable'[j][i] = InTable[j][i] /\ InTotals'[j][i] = InTotals[j][i]
  <2>1. /\ Tally(j, i, {"removed", "dropped"}, {"added"})' =
                Tally(j, i, {"removed", "dropped"}, {"added"})
        /\ Tally(j, i, {"dropped", "added"}, {})' =
                Tally(j, i, {"dropped", "added"}, {})
    BY <1>2 DEF SameTallies
  <2> QED  BY <1>1, <2>1 DEF TalliesAre, Docs, Positions
<1>3. token[k].n \in Positions(k) /\ k \in Live /\ Updates(k) /\ token[k].n \in Nat
  BY PositionsAre DEF UpdateAt
<1>4. /\ Tally(k, token[k].n, {"removed", "dropped"}, {"added"}) =
           InTableAt(k, token[k].step)
      /\ Tally(k, token[k].n, {"dropped", "added"}, {}) = InTotalsAt(k, token[k].step)
  BY <1>3 DEF Tally, InTableAt, InTotalsAt, Old, New, UpdateAt
<1> QED  BY <1>1, <1>2, <1>3, <1>4 DEF Recounts, TalliesAre, DiffersAt

\* What is needed of an update's step on the word, and what it keeps.
Changing(k) ==
  /\ Counts /\ Counts' /\ TopicsInv /\ Update(k) /\ UpdateAt(k) /\ pc' = "run"
  /\ token[k].n <= Len(Body[k])

LEMMA ChangingKeeps ==
  ASSUME NEW k \in Docs, Changing(k)
  PROVE  /\ Alone(k) /\ \A j \in Docs \ {k} : SameTallies(j)
         /\ TopicsIn(k)' = TopicsIn(k) /\ FromFile(k)' = FromFile(k)
         /\ k \in Live /\ Live' = Live /\ token[k].n \in Nat
         /\ Updates(k) /\ (token'[k].at = token[k].at => Updates(k)')
<1>1. Inv /\ mode # "stream" /\ Update(k) /\ Filter(k) /\ UpdateAt(k)
  BY DEF Changing, Counts, Filter
<1>2. ~Write(k)
  BY <1>1, UpdateIs DEF Write, In
<1>3. Alone(k)
  BY <1>1, <1>2, FilterAlone
<1>4. \A j \in Docs \ {k} : SameTallies(j)
  BY <1>1, <1>2, OthersTally DEF Changing
<1>5. TopicsIn(k)' = TopicsIn(k)
  BY <1>1, UpdateIs
<1>6. token[k].n \in Nat
  BY <1>1, PositionsAre DEF UpdateAt
<1> QED  BY <1>1, <1>3, <1>4, <1>5, <1>6
      DEF Alone, FromFile, StoredTopics, UpdateAt, Updates

LEMMA StepRecounts ==
  ASSUME NEW k \in Docs, Changing(k), NEW step, StepTo(k, step)
  PROVE  /\ Recounts(k)
         /\ InTable'[k][token[k].n] = InTableAt(k, step)
         /\ InTotals'[k][token[k].n] = InTotalsAt(k, step)
<1>1. /\ Alone(k) /\ \A j \in Docs \ {k} : SameTallies(j)
      /\ TopicsIn(k)' = TopicsIn(k) /\ FromFile(k)' = FromFile(k)
      /\ k \in Live /\ Live' = Live /\ token[k].n \in Nat
      /\ Updates(k) /\ Updates(k)'
  BY ChangingKeeps DEF StepTo, TokenHas
<1>2. token'[k].n = token[k].n /\ token'[k].step = step
  BY DEF StepTo, TokenHas
<1>3. \A i \in Positions(k) : i # token[k].n =>
           /\ Tally(k, i, {"removed", "dropped"}, {"added"})' =
                Tally(k, i, {"removed", "dropped"}, {"added"})
           /\ Tally(k, i, {"dropped", "added"}, {})' =
                Tally(k, i, {"dropped", "added"}, {})
  BY <1>1, <1>2 DEF Tally, Positions
<1>4. Recounts(k)
  BY <1>1, <1>3, RecountsOthers DEF Changing
<1>5. PICK n \in Positions(k) : n = token[k].n
  BY PositionsAre DEF Changing, UpdateAt
<1>6. /\ InTable'[k][n] = Tally(k, n, {"removed", "dropped"}, {"added"})'
      /\ InTotals'[k][n] = Tally(k, n, {"dropped", "added"}, {})'
  BY <1>5, TalliesNext DEF Changing, TalliesAre, Docs, Positions
<1>7. /\ Tally(k, n, {"removed", "dropped"}, {"added"})' = InTableAt(k, step)
      /\ Tally(k, n, {"dropped", "added"}, {})' = InTotalsAt(k, step)
  BY <1>1, <1>2, <1>5 DEF Tally, InTableAt, InTotalsAt, Old, New
<1> QED  BY <1>4, <1>5, <1>6, <1>7

LEMMA NextRecounts ==
  ASSUME NEW k \in Docs, Changing(k), ToNext(k)
  PROVE  /\ Recounts(k)
         /\ InTable'[k][token[k].n] = New(k)
         /\ InTotals'[k][token[k].n] = New(k)
<1>1. /\ Alone(k) /\ \A j \in Docs \ {k} : SameTallies(j)
      /\ TopicsIn(k)' = TopicsIn(k) /\ FromFile(k)' = FromFile(k)
      /\ k \in Live /\ Live' = Live /\ token[k].n \in Nat
      /\ Updates(k) /\ Updates(k)'
  BY ChangingKeeps DEF ToNext, TokenHas
<1>2. token'[k].n = token[k].n + 1 /\ token'[k].step = "ready"
  BY DEF ToNext, TokenHas
<1>3. ASSUME NEW i \in Positions(k), i # token[k].n
      PROVE  /\ Tally(k, i, {"removed", "dropped"}, {"added"})' =
                  Tally(k, i, {"removed", "dropped"}, {"added"})
             /\ Tally(k, i, {"dropped", "added"}, {})' =
                  Tally(k, i, {"dropped", "added"}, {})
  <2>1. i \in Nat /\ (i < token[k].n + 1 <=> i < token[k].n)
    BY <1>1, <1>3, PositionsAre
  <2> QED  BY <1>1, <1>2, <1>3, <2>1 DEF Tally
<1>4. Recounts(k)
  BY <1>1, <1>3, RecountsOthers DEF Changing
<1>5. PICK n \in Positions(k) : n = token[k].n
  BY PositionsAre DEF Changing, UpdateAt
<1>6. /\ InTable'[k][n] = Tally(k, n, {"removed", "dropped"}, {"added"})'
      /\ InTotals'[k][n] = Tally(k, n, {"dropped", "added"}, {})'
  BY <1>5, TalliesNext DEF Changing, TalliesAre, Docs, Positions
<1>7. /\ Tally(k, n, {"removed", "dropped"}, {"added"})' = New(k)
      /\ Tally(k, n, {"dropped", "added"}, {})' = New(k)
  <2>1. n < token'[k].n
    BY <1>1, <1>2, <1>5
  <2> QED  BY <1>1, <1>5, <2>1 DEF Tally, New
<1> QED  BY <1>4, <1>5, <1>6, <1>7

\* A word that is counted as it was.
LEMMA CountedAsBefore ==
  ASSUME NEW k \in Docs, NEW i \in Positions(k)
  PROVE  /\ DiffersAt(InTable, InTable', k, i) /\ InTable'[k][i] = InTable[k][i]
              => InTable' = InTable
         /\ DiffersAt(InTotals, InTotals', k, i) /\ InTotals'[k][i] = InTotals[k][i]
              => InTotals' = InTotals
<1>1. ASSUME NEW X, NEW Y, DiffersAt(X, Y, k, i), Y[k][i] = X[k][i],
             X = [j \in Docs |-> [n \in Positions(j) |-> X[j][n]]],
             Y = [j \in Docs |-> [n \in Positions(j) |-> Y[j][n]]]
      PROVE  Y = X
  <2>1. \A j \in Docs : \A n \in Positions(j) : Y[j][n] = X[j][n]
    BY <1>1 DEF DiffersAt
  <2> QED  BY <1>1, <2>1, Zenon
<1> QED  BY <1>1, CountingIs, CountingNext

\* The table and the totals after a step.
LEMMA TableNext ==
  ASSUME NEW X, NEW Y, InTable' = X, InTotals' = Y,
         wt' = CountsOf(X), tokens_per_topic' = TotalsOf(CountsOf(Y))
  PROVE  TableInv'
<1>1. CountsOf(InTable)' = CountsOf(X) /\ CountsOf(InTotals)' = CountsOf(Y)
  BY DEF CountsOf, Occurrences, Docs, Positions
<1>2. TotalsOf(CountsOf(InTotals))' = TotalsOf(CountsOf(Y))
  BY <1>1 DEF TotalsOf
<1> QED  BY <1>1, <1>2 DEF TableInv

\* No word loses a topic that its table does not have.
LEMMA OldTopicIsCounted ==
  ASSUME Counts, TopicsInv, TableInv, NEW k \in Docs, UpdateAt(k),
         token[k].n <= Len(Body[k]), token[k].step = "ready", ~ignore_old_topic
  PROVE  wt[Change(k).word][Change(k).old] > 0
<1>1. /\ token[k].n \in Positions(k) /\ Change(k).word = Body[k][token[k].n]
      /\ Change(k).old = Old(k) /\ Old(k) \in Topics
  BY ChangeIs DEF Counts
<1>2. PICK n \in Positions(k) : n = token[k].n
  BY <1>1
<1>3. PICK X : X = InTable
  OBVIOUS
<1>4. PICK Y : Y = [j \in Docs |-> [m \in Positions(j) |->
                      IF j = k /\ m = n THEN 0 ELSE X[j][m]]]
  OBVIOUS
<1>5. DiffersAt(X, Y, k, n) /\ Y[k][n] = 0
  BY <1>4 DEF DiffersAt
<1>6. X[k][n] = Old(k)
  <2>1. X[k][n] = Tally(k, n, {"removed", "dropped"}, {"added"})
    BY <1>2, <1>3, Tallies DEF TalliesAre
  <2>2. k \in Live /\ Updates(k) /\ n \in Nat
    BY PositionsAre DEF UpdateAt
  <2> QED  BY <1>2, <2>1, <2>2 DEF Tally, Old
<1>7. CountsOf(X)[Body[k][n]][X[k][n]] > 0
  BY <1>1, <1>5, <1>6, CountsDown
<1>8. wt = CountsOf(X)
  BY <1>3 DEF Counts, TableInv, Inv, FilesInv, ControlOK, UpdateAt, Updates, Testing
<1> QED  BY <1>1, <1>2, <1>6, <1>7, <1>8

LEMMA NeverAborts ==
  ASSUME Inv, mode # "stream", TopicsInv, ChangesInv, TableInv,
         pc \in {"init", "run", "done"}, [Next]_vars
  PROVE  pc' \in {"init", "run", "done"}
<1>1. CASE \E k \in Docs : Decrement(k)
  <2>1. PICK k \in Docs : Decrement(k)
    BY <1>1
  <2>2. Update(k)
    BY <2>1 DEF Update
  <2>3. UpdateAt(k)
    BY <2>2, UpdateIsAt
  <2>4. token[k].n <= Len(Body[k]) /\ token[k].step = "ready" /\ ~ignore_old_topic
    BY <2>1, <2>3 DEF Decrement, At, Updating, UpdateAt
  <2>5. wt[Change(k).word][Change(k).old] > 0
    BY <2>3, <2>4, OldTopicIsCounted DEF Counts
  <2> QED  BY <2>1, <2>5 DEF Decrement
<1>2. CASE \E k \in Docs : Update(k) /\ ~Decrement(k)
  BY <1>2 DEF Update, CountNew, NoChange, DecrementTotal, Increment, IncrementTotal,
              Updated
<1>3. CASE \E k \in Docs : Filter(k) /\ ~Update(k)
  BY <1>3 DEF Filter, CopyTotal, Sample, Optimize, Test, Eval, Write, controlVars
<1>4. CASE Assemble \/ Read \/ ReadEnd \/ IterationDone \/ Finish \/ UNCHANGED vars
  BY <1>4 DEF Assemble, Read, ReadEnd, IterationDone, Finish, vars, controlVars
<1> QED  BY <1>1, <1>2, <1>3, <1>4 DEF Next, Filter, Update

LEMMA ChangingKeepsTable ==
  ASSUME NEW k \in Docs, Changing(k), TableInv PROVE TableInv'
<1>1. PICK n \in Positions(k) : n = token[k].n
  BY PositionsAre DEF Changing, UpdateAt
<1>2. PICK v : v = Body[k][n]
  OBVIOUS
<1>3. PICK old : old = Old(k)
  OBVIOUS
<1>4. PICK new \in Topics : new = New(k)
  BY ChangeIs DEF Changing, Counts
<1>5. /\ Change(k).word = v /\ Change(k).new = new
      /\ IF ignore_old_topic THEN old = 0 ELSE Change(k).old = old /\ old \in Topics
  BY <1>1, <1>2, <1>3, <1>4, ChangeIs DEF Changing, Counts
<1>6. PICK A, B, C, D : A = InTable /\ B = InTable' /\ C = InTotals /\ D = InTotals'
  OBVIOUS
<1>7. wt = CountsOf(A) /\ tokens_per_topic = TotalsOf(CountsOf(C))
  BY <1>6 DEF Changing, Counts, TableInv, Inv, FilesInv, ControlOK, UpdateAt,
              Updates, Testing
<1> DEFINE Table(step) == IF step = "added" THEN new
                          ELSE IF step \in {"removed", "dropped"} THEN 0 ELSE old
           Totals(step) == IF step \in {"dropped", "added"} THEN 0 ELSE old
<1>8. ASSUME NEW step, StepTo(k, step)
      PROVE  /\ DiffersAt(A, B, k, n) /\ DiffersAt(C, D, k, n)
             /\ A[k][n] = Table(token[k].step) /\ C[k][n] = Totals(token[k].step)
             /\ B[k][n] = Table(step) /\ D[k][n] = Totals(step)
  BY <1>1, <1>3, <1>4, <1>6, <1>8, StepRecounts DEF Recounts, InTableAt, InTotalsAt
<1>9. ASSUME ToNext(k)
      PROVE  /\ DiffersAt(A, B, k, n) /\ DiffersAt(C, D, k, n)
             /\ A[k][n] = Table(token[k].step) /\ C[k][n] = Totals(token[k].step)
             /\ B[k][n] = new /\ D[k][n] = new
  BY <1>1, <1>3, <1>4, <1>6, <1>9, NextRecounts DEF Recounts, InTableAt, InTotalsAt
<1>10. /\ DiffersAt(A, B, k, n) /\ B[k][n] = A[k][n] => B = A
       /\ DiffersAt(C, D, k, n) /\ D[k][n] = C[k][n] => D = C
  BY <1>6, CountedAsBefore
<1>11. /\ \A step : Step(k, step) => StepTo(k, step)
       /\ NextChange(k) => ToNext(k)
       /\ ~Updated(k)
  <2>1. Inv /\ mode # "stream" /\ Update(k)
    BY DEF Changing, Counts
  <2>2. ~Updated(k)
    BY PositionsAre DEF Changing, UpdateAt, Updated
  <2> QED  BY <2>1, <2>2, UpdateIs
<1>12. ASSUME wt' = CountsOf(B), tokens_per_topic' = TotalsOf(CountsOf(D))
       PROVE  TableInv'
  BY <1>6, <1>12, TableNext
<1>13. CASE CountNew(k)
  <2>1. /\ token[k].step = "ready" /\ ignore_old_topic /\ StepTo(k, "added")
        /\ wt' = [wt EXCEPT ![v][new] = @ + 1] /\ tokens_per_topic' = tokens_per_topic
    BY <1>5, <1>11, <1>13 DEF CountNew, At
  <2>2. /\ DiffersAt(A, B, k, n) /\ A[k][n] = 0 /\ B[k][n] = new
        /\ DiffersAt(C, D, k, n) /\ C[k][n] = 0 /\ D[k][n] = 0
    BY <1>5, <1>8, <2>1
  <2>3. CountsOf(B) = [CountsOf(A) EXCEPT ![Body[k][n]][new] = @ + 1]
    BY <2>2, CountsUp
  <2>4. D = C
    BY <1>10, <2>2
  <2> QED  BY <1>2, <1>7, <1>12, <2>1, <2>3, <2>4
<1>14. CASE NoChange(k)
  <2>1. /\ token[k].step = "ready" /\ ToNext(k) /\ old = new
        /\ wt' = wt /\ tokens_per_topic' = tokens_per_topic
    BY <1>5, <1>11, <1>14 DEF NoChange, At, tableVars
  <2>2. B = A /\ D = C
    BY <1>9, <1>10, <2>1
  <2> QED  BY <1>7, <1>12, <2>1, <2>2
<1>15. CASE Decrement(k)
  <2>1. /\ token[k].step = "ready" /\ ~ignore_old_topic /\ tokens_per_topic' = tokens_per_topic
        /\ Change(k).old = old /\ old \in Topics
    BY <1>5, <1>15 DEF Decrement, At
  <2>2. wt' = [wt EXCEPT ![v][old] = @ - 1] /\ StepTo(k, "removed")
    BY <1>5, <1>11, <1>15, <2>1 DEF Decrement, Changing
  <2>3. /\ DiffersAt(A, B, k, n) /\ A[k][n] = old /\ B[k][n] = 0
        /\ DiffersAt(C, D, k, n) /\ C[k][n] = old /\ D[k][n] = old
    BY <1>8, <2>1, <2>2
  <2>4. CountsOf(B) = [CountsOf(A) EXCEPT ![v][old] = @ - 1] /\ D = C
    BY <1>2, <1>10, <2>1, <2>3, CountsDown
  <2> QED  BY <1>7, <1>12, <2>1, <2>2, <2>4
<1>16. CASE DecrementTotal(k)
  <2>1. /\ token[k].step = "removed" /\ StepTo(k, "dropped")
        /\ tokens_per_topic' = [tokens_per_topic EXCEPT ![Change(k).old] = @ - 1]
        /\ wt' = wt
    BY <1>11, <1>16 DEF DecrementTotal, At
  <2>2. ~ignore_old_topic
    BY <2>1 DEF Changing, UpdateAt
  <2>3. /\ DiffersAt(A, B, k, n) /\ A[k][n] = 0 /\ B[k][n] = 0
        /\ DiffersAt(C, D, k, n) /\ C[k][n] = old /\ D[k][n] = 0
    BY <1>8, <2>1
  <2>4. old \in Topics /\ Change(k).old = old /\ B = A
    BY <1>5, <1>10, <2>2, <2>3
  <2>5. TotalsOf(CountsOf(D)) = [TotalsOf(CountsOf(C)) EXCEPT ![old] = @ - 1]
    <3>1. DiffersAt(C, D, k, n) /\ C[k][n] = old /\ D[k][n] = 0
      BY <2>3
    <3>2. old \in Topics
      BY <2>4
    <3> QED  BY <3>1, <3>2, TotalsDown
  <2> QED  BY <1>7, <1>12, <2>1, <2>4, <2>5
<1>17. CASE Increment(k)
  <2>1. /\ token[k].step = "dropped" /\ StepTo(k, "added")
        /\ wt' = [wt EXCEPT ![v][new] = @ + 1] /\ tokens_per_topic' = tokens_per_topic
    BY <1>5, <1>11, <1>17 DEF Increment, At
  <2>2. /\ DiffersAt(A, B, k, n) /\ A[k][n] = 0 /\ B[k][n] = new
        /\ DiffersAt(C, D, k, n) /\ C[k][n] = 0 /\ D[k][n] = 0
    BY <1>8, <2>1
  <2>3. CountsOf(B) = [CountsOf(A) EXCEPT ![Body[k][n]][new] = @ + 1]
    BY <2>2, CountsUp
  <2>4. D = C
    BY <1>10, <2>2
  <2> QED  BY <1>2, <1>7, <1>12, <2>1, <2>3, <2>4
<1>18. CASE IncrementTotal(k)
  <2>1. /\ token[k].step = "added" /\ ToNext(k) /\ wt' = wt
        /\ tokens_per_topic' = [tokens_per_topic EXCEPT ![new] = @ + 1]
    BY <1>5, <1>11, <1>18 DEF IncrementTotal, At
  <2>2. /\ DiffersAt(A, B, k, n) /\ A[k][n] = new /\ B[k][n] = new
        /\ DiffersAt(C, D, k, n) /\ C[k][n] = 0 /\ D[k][n] = new
    BY <1>9, <2>1
  <2>3. TotalsOf(CountsOf(D)) = [TotalsOf(CountsOf(C)) EXCEPT ![new] = @ + 1]
    <3>1. DiffersAt(C, D, k, n) /\ C[k][n] = 0 /\ D[k][n] = new
      BY <2>2
    <3> QED  BY <3>1, TotalsUp
  <2>4. B = A
    BY <1>10, <2>2
  <2> QED  BY <1>7, <1>12, <2>1, <2>3, <2>4
<1> QED  BY <1>11, <1>13, <1>14, <1>15, <1>16, <1>17, <1>18 DEF Changing, Update

LEMMA QuietKeepsTable ==
  ASSUME TableInv, Counts, Counts', mode' = mode, UNCHANGED tableVars,
         \A k \in Docs : /\ k \in Live => ~Updates(k)
                         /\ k \in Live' => ~Updates(k)'
                         /\ View(k)' = View(k)
  PROVE  TableInv'
BY QuietTallies, KeepsTable

LEMMA SameUpdates ==
  ASSUME NEW k, UNCHANGED <<mode, iter>>, token'[k] = token[k]
  PROVE  Updates(k)' <=> Updates(k)
BY Frame DEF Updates

LEMMA StepKeepsTable ==
  ASSUME Inv, mode \in Modes, mode # "stream", TopicsInv, ChangesInv, TableInv,
         pc \in {"init", "run", "done"}, [Next]_vars
  PROVE  TableInv'
<1>1. Counts /\ Counts' /\ mode' = mode /\ pc' \in {"init", "run", "done"}
  BY NeverAborts, StepKeepsAt, StepKeepsRing, StepKeepsFiles, ModeStays
    DEF Counts, Inv
<1>2. CASE Assemble
  <2>1. Live = {} /\ Live' = {} /\ UNCHANGED tableVars
    BY <1>2 DEF Assemble, Live, Inv, RingInv, LastRead
  <2>2. \A k \in Docs : View(k)' = View(k)
    BY <1>2, OtherStays DEF Stays
  <2> QED  BY <1>1, <2>1, <2>2, QuietKeepsTable
<1>3. CASE IterationDone
  <2>1. Live = {} /\ Live' = {} /\ UNCHANGED tableVars
    BY <1>3 DEF IterationDone, Live
  <2>2. \A k \in Docs : View(k)' = View(k)
    BY <1>3, EndStays
  <2> QED  BY <1>1, <2>1, <2>2, QuietKeepsTable
<1>4. CASE ReadEnd \/ Finish \/ UNCHANGED vars
  <2>1. UNCHANGED <<mode, iter, ring, token, input_t, tableVars>>
    BY <1>4 DEF ReadEnd, Finish, vars, controlVars, fileVars
  <2>2. /\ \A k \in Docs : View(k)' = View(k) /\ FromFile(k)' = FromFile(k)
                           /\ TopicsIn(k)' = TopicsIn(k)
                           /\ (Updates(k)' <=> Updates(k)) /\ token'[k] = token[k]
        /\ Live' = Live
    BY <1>4, <2>1, OtherStays, SameUpdates
      DEF Stays, Live, FromFile, StoredTopics, TopicsIn, Buffer
  <2>3. \A k \in Docs : SameTallies(k)
    BY <2>2, QuietTallies, WaitingTallies
  <2> QED  BY <1>1, <2>1, <2>3, KeepsTable
<1>5. CASE Read
  <2>1. PICK r \in Docs :
           /\ r \notin Live /\ Live' = Live \cup {r}
           /\ \A j \in Live : token'[j] = token[j] /\ TopicsIn(j)' = TopicsIn(j)
           /\ TokenHas(token'[r], 2, <<>>, 1, "ready")
           /\ UNCHANGED <<controlVars, fileVars, tableVars>>
    BY <1>5, ReadIs
  <2>2. UNCHANGED <<mode, iter, input_t, tableVars>>
    BY <2>1 DEF controlVars, fileVars
  <2>3. ASSUME NEW k \in Docs PROVE SameTallies(k)
    <3>1. View(k)' = View(k)
      BY <1>5, ReadStays DEF Stays
    <3>2. CASE k \in Live
      <4>1. FromFile(k)' = FromFile(k) /\ (Updates(k)' <=> Updates(k))
        BY <2>1, <2>2, <3>2, SameUpdates DEF FromFile, StoredTopics
      <4> QED  BY <2>1, <3>1, <3>2, <4>1, WaitingTallies
    <3>3. CASE k \notin Live
      <4>1. k \in Live' => ~Updates(k)'
        BY <2>1, <3>3 DEF TokenHas, Updates
      <4> QED  BY <3>1, <3>3, <4>1, QuietTallies
    <3> QED  BY <3>2, <3>3
  <2> QED  BY <1>1, <2>2, <2>3, KeepsTable
<1>6. CASE \E k \in Docs : Write(k)
  <2>1. PICK k \in Docs : Write(k)
    BY <1>6
  <2>2. /\ k \in Live /\ Live' = Live \ {k}
        /\ \A j \in Live' : token'[j] = token[j] /\ TopicsIn(j)' = TopicsIn(j)
        /\ token[k].at = Len(Filters)
        /\ UNCHANGED <<mode, iter, input_t, tableVars>>
    BY <2>1, WriteIs DEF tableVars
  <2>3. ~Updates(k)
    BY <2>2, FiltersAre DEF Updates, SettlesAt
  <2>4. ASSUME NEW j \in Docs PROVE SameTallies(j)
    <3>1. View(j)' = View(j)
      BY <2>1, WriteStays DEF Stays
    <3>2. CASE j \in Live'
      <4>1. FromFile(j)' = FromFile(j) /\ (Updates(j)' <=> Updates(j))
        BY <2>2, <3>2, SameUpdates DEF FromFile, StoredTopics
      <4> QED  BY <2>2, <3>1, <3>2, <4>1, WaitingTallies
    <3>3. CASE j \notin Live'
      BY <2>2, <2>3, <3>1, <3>3, QuietTallies
    <3> QED  BY <3>2, <3>3
  <2> QED  BY <1>1, <2>2, <2>4, KeepsTable
<1>7. CASE \E k \in Docs : Filter(k) /\ ~Write(k)
  <2>1. PICK k \in Docs : Filter(k) /\ ~Write(k)
    BY <1>7
  <2>2. /\ Alone(k) /\ pc' = "run"
    BY <1>1, <2>1, FilterAlone DEF Alone
  <2>3. /\ k \in Live /\ Live' = Live /\ ChangesAt(k) /\ TopicsAt(k)
        /\ UNCHANGED <<FromFile(k), Testing, Resampling>>
    BY <2>2 DEF Alone, FromFile, StoredTopics, ChangesInv, TopicsInv
  <2>4. ASSUME SameTallies(k), UNCHANGED tableVars PROVE TableInv'
    <3>1. \A j \in Docs : SameTallies(j)
      BY <2>1, <2>2, <2>4, OthersTally
    <3> QED  BY <1>1, <2>4, <3>1, KeepsTable
  <2>5. CASE CopyTotal(k) \/ Optimize(k) \/ Eval(k)
    <3>1. View(k)' = View(k)
      <4>1. ~Updated(k) /\ ~Test(k)
        <5>1. ~Updates(k) /\ ~(Testing /\ token[k].at = 2)
          BY <2>5, CopyTotalIs, PassIs DEF Updates, SettlesAt, Resampling
        <5> QED  BY <5>1, UpdateIs, TestIs DEF Update
      <4> QED  BY <2>1, <2>2, <4>1, FilterStays DEF Stays
    <3>2. ~Updates(k) /\ ~Updates(k)' /\ UNCHANGED tableVars
      BY <2>3, <2>5, CopyTotalIs, PassIs DEF Updates, TokenHas, SettlesAt, tableVars
    <3> QED  BY <2>4, <3>1, <3>2, QuietTallies
  <2>6. CASE Test(k)
    BY <2>6, <1>1, TestIs DEF TableInv, Testing
  <2>7. CASE Sample(k)
    <3>1. /\ ~Testing /\ Resampling /\ token[k].at = 2
          /\ token'[k].at = 3 /\ token'[k].n = 1 /\ token'[k].step = "ready"
          /\ UNCHANGED tableVars
      BY <2>3, <2>7, SampleIs DEF ChangesAt, Updates, TokenHas, tableVars
    <3>2. ~Updates(k) /\ Updates(k)' /\ View(k) = FromFile(k)
      BY <2>3, <3>1 DEF Updates, View, Behind, SettlesAt
    <3>3. \A i \in Positions(k) : ~(i < 1)
      BY PositionsAre
    <3>4. SameTallies(k)
      BY <2>3, <3>1, <3>2, <3>3 DEF SameTallies, Tally, Positions
    <3> QED  BY <2>4, <3>1, <3>4
  <2>8. CASE Updated(k)
    <3>1. Update(k)
      BY <2>8 DEF Update
    <3>2. UpdateAt(k) /\ token[k].n = Len(Body[k]) + 1
      BY <2>8, <3>1, UpdateIsAt, PositionsAre DEF UpdateAt, Updated
    <3>3. /\ token'[k].at = 4 /\ TopicsIn(k)' = TopicsIn(k) /\ UNCHANGED tableVars
      BY <2>8, <3>1, UpdateIs DEF TokenHas, Updated
    <3>4. Updates(k) /\ ~Updates(k)' /\ View(k)' = TopicsIn(k)
      BY <2>1, <2>2, <2>8, <3>2, <3>3, FilterStays DEF UpdateAt, Updates
    <3>5. \A i \in Positions(k) : i < token[k].n /\ i \in DOMAIN TopicsIn(k)
      <4>1. IsTopicing(k, TopicsIn(k))
        BY <2>3, <3>4 DEF Inv, FilesInv, DocsOK, Updates, Untopiced
      <4> QED  BY <3>2, <4>1, PositionsAre DEF IsTopicing
    <3>6. SameTallies(k)
      BY <2>3, <3>3, <3>4, <3>5 DEF SameTallies, Tally, Given, Positions
    <3> QED  BY <2>4, <3>3, <3>6
  <2>9. CASE Update(k) /\ ~Updated(k)
    <3>1. UpdateAt(k)
      BY <2>9, UpdateIsAt
    <3>2. token[k].n <= Len(Body[k])
      BY <2>9, <3>1 DEF Update, CountNew, NoChange, Decrement, DecrementTotal,
         Increment, IncrementTotal, At, Updating, UpdateAt
    <3> QED  BY <1>1, <2>2, <2>9, <3>1, <3>2, ChangingKeepsTable DEF Changing
  <2> QED  BY <2>1, <2>5, <2>6, <2>7, <2>8, <2>9 DEF Filter
<1> QED  BY <1>2, <1>3, <1>4, <1>5, <1>6, <1>7 DEF Next

-----------------------------------------------------------------------------
(***************************************************************************)
(* From the first topics on, in every step.                                *)
(***************************************************************************)

LEMMA SameTopics ==
  ASSUME NEW X, NEW Y, \A k \in Docs : \A i \in Positions(k) : X[k][i] = Y[k][i]
  PROVE  CountsOf(X) = CountsOf(Y)
<1>1. ASSUME NEW w, NEW t PROVE Occurrences(X, w, t) = Occurrences(Y, w, t)
  <2>1. \A p \in Places : X[p[1]][p[2]] = Y[p[1]][p[2]]
    <3> SUFFICES ASSUME NEW p \in Places PROVE X[p[1]][p[2]] = Y[p[1]][p[2]]
      OBVIOUS
    <3>1. PICK j \in Docs : p \in {<<j, i>> : i \in Positions(j)}
      BY DEF Places
    <3>2. PICK i \in Positions(j) : p = <<j, i>>
      BY <3>1
    <3> QED  BY <3>2
  <2>2. /\ Occurrences(X, w, t) =
             {p \in Places : Body[p[1]][p[2]] = w /\ X[p[1]][p[2]] = t}
        /\ Occurrences(Y, w, t) =
             {p \in Places : Body[p[1]][p[2]] = w /\ Y[p[1]][p[2]] = t}
    BY OccurrencesAre
  <2> QED  BY <2>1, <2>2
<1> QED  BY <1>1 DEF CountsOf

LEMMA NothingCounted ==
  ASSUME NEW X, \A k \in Docs : \A i \in Positions(k) : X[k][i] = 0
  PROVE  CountsOf(X) = [w \in Words |-> [t \in Topics |-> 0]]
<1>1. ASSUME NEW w \in Words, NEW t \in Topics PROVE Cardinality(Occurrences(X, w, t)) = 0
  <2>1. t # 0
    BY TopicsAre
  <2>2. Occurrences(X, w, t) = {}
    BY <2>1 DEF Occurrences
  <2> QED  BY <2>2, FS_EmptySet
<1> QED  BY <1>1 DEF CountsOf

LEMMA SweepInit == Init => SweepInv
<1> SUFFICES ASSUME Init, mode # "stream"
             PROVE  pc \in {"init", "run", "done"} /\ TopicsInv /\ ChangesInv /\ TableInv
  BY DEF SweepInv
<1>1. Live = {} /\ pc = "init" /\ Inv
  BY RingInit, FilesInit DEF Init, Live, Inv
<1>2. TopicsInv /\ ChangesInv
  BY <1>1 DEF Init, TopicsInv, ChangesInv
<1>3. Counts
  BY <1>1, <1>2 DEF Counts
<1>4. ASSUME NEW k \in Docs, NEW i \in Positions(k)
      PROVE  /\ InTable[k][i] = Given(FromFile(k), i)
             /\ InTotals[k][i] = Given(FromFile(k), i)
  <2>1. View(k) = FromFile(k) /\ k \notin Live
    BY <1>1 DEF View, Behind
  <2> QED  BY <1>3, <2>1, Tallies DEF TalliesAre, Tally
<1>5. CASE mode = "train"
  <2>1. PICK topics \in Assignments :
          input_t = AssignmentFile(topics) /\ wt = CountsOf(topics)
    BY <1>5 DEF Init
  <2>2. ASSUME NEW k \in Docs, NEW i \in Positions(k)
        PROVE  Given(FromFile(k), i) = topics[k][i]
    <3>1. k \in DOMAIN input_t /\ k \in Nat
      BY <2>1, DocsAre DEF AssignmentFile
    <3>2. FromFile(k) = TopicsOfRecord(input_t[k])
      BY <2>1, <3>1, FirstTopics, ReadsTopics DEF FromFile, StoredTopics
    <3>3. FromFile(k) = topics[k] /\ IsTopicing(k, topics[k])
      BY <2>1, <3>2, FirstTopics
    <3> QED  BY <3>3, PositionsAre DEF Given, IsTopicing
  <2>3. CountsOf(InTable) = CountsOf(topics) /\ CountsOf(InTotals) = CountsOf(topics)
    BY <1>4, <2>2, SameTopics
  <2>4. tokens_per_topic = TotalsOf(wt)
    BY DEF Init
  <2> QED  BY <1>1, <1>2, <2>1, <2>3, <2>4 DEF TableInv
<1>6. CASE mode # "train"
  <2>1. /\ input_t = <<>> /\ wt = [w \in Words |-> [t \in Topics |-> 0]]
        /\ tokens_per_topic = TotalsOf(wt)
    BY <1>6 DEF Init
  <2>2. \A k \in Docs : \A i \in Positions(k) : InTable[k][i] = 0 /\ InTotals[k][i] = 0
    BY <1>4, <2>1, NoFile DEF Given
  <2>3. CountsOf(InTable) = wt /\ CountsOf(InTotals) = wt
    BY <2>1, <2>2, NothingCounted
  <2> QED  BY <1>1, <1>2, <2>1, <2>3 DEF TableInv
<1> QED  BY <1>5, <1>6

LEMMA StepKeepsSweep == Inv /\ mode \in Modes /\ SweepInv /\ [Next]_vars => SweepInv'
<1> SUFFICES ASSUME Inv, mode \in Modes, SweepInv, [Next]_vars, mode # "stream"
             PROVE  SweepInv'
  BY ModeStays DEF SweepInv
<1>1. pc \in {"init", "run", "done"} /\ TopicsInv /\ ChangesInv /\ TableInv
  BY DEF SweepInv
<1>2. TopicsInv' /\ ChangesInv'
  BY <1>1, StepKeepsAt
<1>3. TableInv'
  BY <1>1, StepKeepsTable
<1>4. pc' \in {"init", "run", "done"}
  BY <1>1, NeverAborts
<1> QED  BY <1>2, <1>3, <1>4 DEF SweepInv

LEMMA SweepInvHolds == Spec => [](Inv /\ mode \in Modes /\ SweepInv)
<1>1. Inv /\ mode \in Modes /\ SweepInv /\ [Next]_vars => SweepInv'
  BY StepKeepsSweep
<1> QED  BY <1>1, SweepInit, InvHolds, PTL DEF Spec

(***************************************************************************)
(* At every step of training the table counts each word under the topic    *)
(* its document has in this iteration, and n(t) is the total of those      *)
(* counts, but for the one change that the updater has under way: whatever *)
(* the corpus, the number of topics and of tokens, and however the         *)
(* sampler, the updater and the writer work on different documents         *)
(* meanwhile.                                                              *)
(***************************************************************************)
THEOREM CountsFollow == Spec => []CountsFollowAssignments
<1>1. SweepInv => CountsFollowAssignments
  BY DEF SweepInv, TableInv, CountsFollowAssignments, InTable, InTotals, Counting
<1> QED  BY <1>1, SweepInvHolds, PTL

-----------------------------------------------------------------------------
(***************************************************************************)
(* The copies of the totals.                                               *)
(***************************************************************************)
Covers(k, nt) ==
  \A t \in DOMAIN nt :
    nt[t] >= Cardinality({i \in DOMAIN TopicsIn(k) : TopicsIn(k)[i] = t})

CopiesAt(k) ==
  /\ token[k].nt \in Seq(Int) /\ Len(token[k].nt) <= Cardinality(Topics)
  /\ token[k].nt # <<>> => ~Testing /\ Resampling /\ token[k].at = 2
  /\ Covers(k, token[k].nt)

CopiesInv == \A k \in Live : CopiesAt(k)

LEMMA NoCopy == \A k : token[k].nt = <<>> => CopiesAt(k)
<1> SUFFICES ASSUME NEW k, token[k].nt = <<>> PROVE CopiesAt(k)
  OBVIOUS
<1>1. token[k].nt \in Seq(Int) /\ Len(token[k].nt) = 0 /\ DOMAIN token[k].nt = {}
  OBVIOUS
<1> QED  BY <1>1, TopicsAre DEF CopiesAt, Covers

LEMMA NoCopyNext == \A k : token'[k].nt = <<>> => CopiesAt(k)'
<1>1. (\A k : token[k].nt = <<>> => CopiesAt(k))'
  BY NoCopy, PTL
<1> QED  BY <1>1

\* When there is no sampler.
LEMMA TestingCopies ==
  ASSUME RingInv, CopiesInv, Testing, [Next]_vars PROVE CopiesInv'
<1>1. \A k \in Live : token[k].nt = <<>>
  BY DEF CopiesInv, CopiesAt
<1>2. token = [k \in Docs |-> token[k]] /\ \A k \in Live : IsToken(token[k])
  BY DEF RingInv, TokensOK
<1>3. ASSUME \A k \in Live' : k \in Live /\ token'[k].nt = token[k].nt
      PROVE  CopiesInv'
  BY <1>1, <1>3, NoCopyNext DEF CopiesInv
<1>4. CASE Read
  <2>1. PICK r : r = read + 1
    OBVIOUS
  <2>2. /\ token' = [k \in Docs |-> IF k = r THEN token'[k] ELSE token[k]]
        /\ r \in Docs => token'[r].nt = <<>>
    BY <1>2, <1>4, <2>1 DEF Read
  <2>3. \A k \in Live' : k \in Docs /\ (k = r \/ (k \in Live /\ token'[k] = token[k]))
    BY <2>2 DEF Live, Docs
  <2>4. \A k \in Live' : token'[k].nt = <<>>
    BY <1>1, <2>2, <2>3
  <2> QED  BY <2>4, NoCopyNext DEF CopiesInv
<1>5. CASE Assemble \/ ReadEnd \/ IterationDone \/ Finish \/ UNCHANGED vars
  <2>1. token' = token /\ Live' = Live
    BY <1>5 DEF Assemble, ReadEnd, IterationDone, Finish, vars, Live, Docs
  <2> QED  BY <1>3, <2>1
<1>6. CASE \E k \in Docs : Write(k)
  <2>1. PICK k \in Docs : Write(k)
    BY <1>6
  <2>2. Live' = Live \ {k} /\ \A j \in Live' : token'[j] = token[j]
    BY <2>1, WriterIsBehind
  <2> QED  BY <1>3, <2>2
<1>7. CASE \E k \in Docs : Filter(k) /\ ~Write(k)
  <2>1. PICK k \in Docs : Filter(k) /\ ~Write(k)
    BY <1>7
  <2>2. ASSUME NEW f \in {"sampler", "updater", "optimizer"} PROVE ~In(f, k)
    <3>1. ASSUME In(f, k) PROVE FALSE
      <4>1. token[k].at \in 2..Len(Filters) /\ Filters[token[k].at] = f
        BY <3>1, InFilter DEF In
      <4>2. token[k].at \in 1..Len(Filters)
        BY <4>1, FiltersAre
      <4> QED  BY <4>1, <4>2, FiltersAre DEF Resampling
    <3> QED  BY <3>1
  <2>3. Test(k) \/ Eval(k)
    BY <2>1, <2>2 DEF Filter, CopyTotal, Sample, Update, CountNew, NoChange, Decrement,
       DecrementTotal, Increment, IncrementTotal, Updated, At, Updating, Optimize
  <2>4. token' = [token EXCEPT ![k] = Passed(k)] /\ k \in Live
    BY <2>3 DEF Test, Eval, In
  <2>5. token'[k] = [token[k] EXCEPT !.at = @ + 1]
    BY <1>2, <2>4 DEF Passed
  <2>6. token'[k].nt = token[k].nt
    BY <1>2, <2>4, <2>5, TokenPasses
  <2>7. \A j \in Live' : j \in Live /\ token'[j].nt = token[j].nt
    BY <1>2, <2>4, <2>6 DEF Live, Docs
  <2> QED  BY <1>3, <2>7
<1> QED  BY <1>4, <1>5, <1>6, <1>7 DEF Next

\* The documents whose copies stay as they are.
LEMMA SameCopies ==
  ASSUME UNCHANGED <<mode, iter>>, NEW k, CopiesAt(k), token'[k] = token[k],
         TopicsIn(k)' = TopicsIn(k)
  PROVE  CopiesAt(k)'
BY Frame DEF CopiesAt, Covers

\* The total copied counts the document's own words.
LEMMA CopiedCovers ==
  ASSUME Counts, TopicsInv, TableInv, NEW k \in Docs, k \in Live, ~Testing,
         token[k].at = 2, NEW t \in Topics
  PROVE  /\ tokens_per_topic[t] \in Int
         /\ tokens_per_topic[t] >=
              Cardinality({i \in DOMAIN TopicsIn(k) : TopicsIn(k)[i] = t})
<1>1. tokens_per_topic = TotalsOf(CountsOf(InTotals))
  BY DEF Counts, TableInv, Inv, FilesInv, ControlOK, Testing
<1>2. PICK X : X = InTotals
  OBVIOUS
<1>3. /\ TotalsOf(CountsOf(X))[t] \in Nat
      /\ TotalsOf(CountsOf(X))[t] >= Cardinality({i \in Positions(k) : X[k][i] = t})
  BY TotalCovers
<1>4. TopicsIn(k) = FromFile(k)
  BY DEF TopicsInv, TopicsAt
<1>5. ASSUME NEW i \in Positions(k) PROVE X[k][i] = Given(TopicsIn(k), i)
  <2>1. X[k][i] = Tally(k, i, {"dropped", "added"}, {})
    BY <1>2, Tallies DEF TalliesAre
  <2>2. ~Updates(k) /\ View(k) = FromFile(k)
    BY DEF Updates, View, Behind, SettlesAt
  <2> QED  BY <1>4, <2>1, <2>2 DEF Tally
<1>6. DOMAIN TopicsIn(k) \subseteq Positions(k)
  <2>1. TopicsIn(k) = <<>> \/ IsTopicing(k, TopicsIn(k))
    BY DEF Counts, Inv, FilesInv, DocsOK
  <2> QED  BY <2>1, PositionsAre DEF IsTopicing
<1>7. t # 0
  BY TopicsAre
<1>8. {i \in DOMAIN TopicsIn(k) : TopicsIn(k)[i] = t} = {i \in Positions(k) : X[k][i] = t}
  BY <1>5, <1>6, <1>7 DEF Given
<1> QED  BY <1>1, <1>2, <1>3, <1>8

LEMMA AppendIs ==
  ASSUME NEW s \in Seq(Int), NEW v \in Int
  PROVE  /\ Append(s, v) \in Seq(Int) /\ Len(Append(s, v)) = Len(s) + 1
         /\ \A t \in DOMAIN Append(s, v) : t = Len(s) + 1 \/ t \in DOMAIN s
         /\ \A t \in DOMAIN s : Append(s, v)[t] = s[t]
         /\ Append(s, v)[Len(s) + 1] = v /\ Len(s) \in Nat
OBVIOUS

LEMMA TrainingCopies ==
  ASSUME Inv, mode \in Modes, SweepInv, CopiesInv, ~Testing, [Next]_vars
  PROVE  CopiesInv'
<1>1. mode # "stream" /\ Counts /\ TopicsInv /\ TableInv
  BY DEF Testing, SweepInv, Counts
<1>2. CASE Assemble \/ IterationDone \/ Finish
  <2>1. Live' = {}
    BY <1>2 DEF Assemble, IterationDone, Finish, Live, Inv, RingInv, LastRead
  <2> QED  BY <2>1 DEF CopiesInv
<1>3. CASE ReadEnd \/ UNCHANGED vars
  <2>1. UNCHANGED <<mode, iter, ring, token, Live>>
    BY <1>3 DEF ReadEnd, vars, controlVars, Live, Docs
  <2>2. \A k \in Live : TopicsIn(k)' = TopicsIn(k)
    BY <2>1 DEF TopicsIn, Buffer
  <2> QED  BY <2>1, <2>2, SameCopies DEF CopiesInv
<1>4. CASE Read
  <2>1. PICK r \in Docs :
           /\ Live' = Live \cup {r}
           /\ \A j \in Live : token'[j] = token[j] /\ TopicsIn(j)' = TopicsIn(j)
           /\ token'[r].nt = <<>>
           /\ UNCHANGED controlVars
    BY <1>1, <1>4, ReadIs
  <2>2. CopiesAt(r)'
    BY <2>1, NoCopyNext
  <2>3. \A j \in Live : CopiesAt(j)'
    BY <2>1, SameCopies DEF CopiesInv, controlVars
  <2> QED  BY <2>1, <2>2, <2>3 DEF CopiesInv
<1>5. CASE \E k \in Docs : Write(k)
  <2>1. PICK k \in Docs : Write(k)
    BY <1>5
  <2>2. /\ Live' = Live \ {k}
        /\ \A j \in Live' : token'[j] = token[j] /\ TopicsIn(j)' = TopicsIn(j)
        /\ UNCHANGED <<mode, iter>>
    BY <1>1, <2>1, WriteIs
  <2> QED  BY <2>2, SameCopies DEF CopiesInv
<1>6. CASE \E k \in Docs : Filter(k) /\ ~Write(k)
  <2>1. PICK k \in Docs : Filter(k) /\ ~Write(k)
    BY <1>6
  <2>2. Alone(k)
    BY <1>1, <2>1, FilterAlone
  <2>3. /\ k \in Live /\ Live' = Live /\ UNCHANGED <<mode, iter, Testing, Resampling>>
        /\ \A j \in Live \ {k} : token'[j] = token[j] /\ TopicsIn(j)' = TopicsIn(j)
    BY <2>2 DEF Alone, Live
  <2>4. \A j \in Live \ {k} : CopiesAt(j)'
    BY <2>3, SameCopies DEF CopiesInv
  <2>5. CopiesAt(k)
    BY <2>3 DEF CopiesInv
  <2>6. CASE CopyTotal(k)
    <3>1. /\ Resampling /\ token[k].at = 2 /\ token'[k].at = 2
          /\ token'[k].nt = Append(token[k].nt, tokens_per_topic[Len(token[k].nt) + 1])
          /\ Len(token[k].nt) < Cardinality(Topics)
          /\ TopicsIn(k)' = TopicsIn(k)
      BY <1>1, <2>6, CopyTotalIs DEF TokenHas
    <3>2. PICK s \in Seq(Int) : s = token[k].nt
      BY <2>5 DEF CopiesAt
    <3>3. PICK t : t = Len(s) + 1
      OBVIOUS
    <3>4. t \in Topics
      <4>1. Len(s) \in Nat /\ Len(s) < Cardinality(Topics)
        BY <3>1, <3>2
      <4> QED  BY <3>3, <4>1, TopicsAre, PipelineAssumption
    <3>5. PICK v \in Int : v = tokens_per_topic[t] /\
            v >= Cardinality({i \in DOMAIN TopicsIn(k) : TopicsIn(k)[i] = t})
      BY <1>1, <2>3, <3>1, <3>4, CopiedCovers
    <3>6. token'[k].nt = Append(s, v)
      BY <3>1, <3>2, <3>3, <3>5
    <3>7. Covers(k, s)
      BY <2>5, <3>2 DEF CopiesAt
    <3>8. Covers(k, Append(s, v))
      <4>1. PICK c : c = Append(s, v)
        OBVIOUS
      <4>2. /\ \A x \in DOMAIN c : x = t \/ x \in DOMAIN s
            /\ \A x \in DOMAIN s : c[x] = s[x]
            /\ c[t] = v
        BY <3>3, <4>1, AppendIs
      <4>3. Covers(k, c)
        BY <3>5, <3>7, <4>2 DEF Covers
      <4> QED  BY <4>1, <4>3
    <3>9. Append(s, v) \in Seq(Int) /\ Len(Append(s, v)) <= Cardinality(Topics)
      BY <3>1, <3>2, AppendIs, TopicsAre
    <3>10. CopiesAt(k)'
      BY <2>3, <3>1, <3>6, <3>8, <3>9 DEF CopiesAt, Covers
    <3> QED  BY <2>3, <2>4, <3>10 DEF CopiesInv
  <2>7. ASSUME token'[k].nt = <<>> PROVE CopiesInv'
    BY <2>3, <2>4, <2>7, NoCopyNext DEF CopiesInv
  <2>8. CASE Sample(k)
    BY <1>1, <2>7, <2>8, SampleIs
  <2>9. CASE Update(k)
    BY <1>1, <2>5, <2>7, <2>9, UpdateIs DEF CopiesAt, Updates
  <2>10. CASE Optimize(k) \/ Eval(k)
    BY <1>1, <2>5, <2>7, <2>10, PassIs DEF CopiesAt, SettlesAt
  <2>11. CASE Test(k)
    BY <1>1, <2>11, TestIs
  <2> QED  BY <2>1, <2>6, <2>8, <2>9, <2>10, <2>11 DEF Filter
<1> QED  BY <1>2, <1>3, <1>4, <1>5, <1>6 DEF Next

(***************************************************************************)
(* The copy of the totals that a document is sampled with is never less    *)
(* than the number of the document's own words of that topic, in training  *)
(* and in testing: what the sampler takes off the copy leaves no count     *)
(* below zero, though other documents are updated while it copies.         *)
(***************************************************************************)
THEOREM TotalsCover == Spec => []TotalsCoverTheDocument
<1>1. Init => CopiesInv
  BY DEF Init, CopiesInv, Live
<1>2. /\ (Inv /\ mode \in Modes /\ SweepInv) /\ CopiesInv /\ [Next]_vars
      => CopiesInv'
  BY TestingCopies, TrainingCopies DEF Inv
<1>3. CopiesInv => TotalsCoverTheDocument
  BY DEF CopiesInv, CopiesAt, Covers, TotalsCoverTheDocument
<1> QED  BY <1>1, <1>2, <1>3, SweepInvHolds, PTL DEF Spec

-----------------------------------------------------------------------------
(***************************************************************************)
(* The sweep: each document is resampled once and written once, in order.  *)
(***************************************************************************)

\* The sweep's variables.
assignment == [k \in Docs |-> TopicsOf(k)]
resampled == {k \in Docs : Settled(k)}
written ==
  IF pc = "run" THEN [k \in DOMAIN output_t |-> StoredTopics(output_t, k)] ELSE <<>>
sweepVars == <<assignment, resampled, written, Resampling>>

Topicings(k) == {<<>>} \cup [Positions(k) -> Topics]

LEMMA SweepIs ==
  /\ Inv /\ mode # "stream" =>
       /\ assignment = [k \in Docs |-> View(k)]
       /\ resampled = {k \in Docs : Behind(k)}
  /\ Inv' /\ mode' # "stream" =>
       /\ assignment' = [k \in Docs |-> View(k)']
       /\ resampled' = {k \in Docs : Behind(k)'}
<1>1. Inv /\ mode # "stream" =>
       /\ assignment = [k \in Docs |-> View(k)]
       /\ resampled = {k \in Docs : Behind(k)}
  BY ViewIs DEF assignment, resampled
<1>2. Inv' /\ mode' # "stream" =>
       /\ assignment' = [k \in Docs |-> View(k)']
       /\ resampled' = {k \in Docs : Behind(k)'}
  BY ViewNext DEF assignment, resampled, Docs
<1> QED  BY <1>1, <1>2

LEMMA IsTopicingOf ==
  ASSUME NEW k \in Docs, NEW topics, IsTopicing(k, topics)
  PROVE  topics \in Topicings(k)
<1>1. topics \in [1..Len(topics) -> Topics]
  BY DEF IsTopicing
<1> QED  BY <1>1, PositionsAre DEF IsTopicing, Topicings

LEMMA SweepStarts ==
  ASSUME Init, Inv, mode # "stream"
  PROVE  /\ assignment \in [1..Len(Body) -> UNION {Topicings(k) : k \in 1..Len(Body)}]
         /\ resampled = {} /\ written = <<>>
<1>1. pc = "init" /\ written = <<>>
  BY DEF Init, written
<1>2. resampled = {}
  BY <1>1, SweepIs DEF Behind
<1>3. ASSUME NEW k \in Docs PROVE View(k) \in Topicings(k)
  <2>1. View(k) = FromFile(k)
    BY <1>1 DEF View, Behind
  <2>2. CASE mode = "train"
    <3>1. PICK topics \in Assignments : input_t = AssignmentFile(topics)
      BY <2>2 DEF Init
    <3>2. k \in DOMAIN input_t /\ k \in Nat
      BY <3>1, DocsAre DEF AssignmentFile
    <3>3. FromFile(k) = TopicsOfRecord(input_t[k])
      BY <3>1, <3>2, FirstTopics, ReadsTopics DEF FromFile, StoredTopics
    <3>4. FromFile(k) = topics[k] /\ IsTopicing(k, topics[k])
      BY <3>1, <3>3, FirstTopics
    <3> QED  BY <2>1, <3>4, IsTopicingOf
  <2>3. CASE mode # "train"
    <3>1. input_t = <<>>
      BY <2>3 DEF Init
    <3> QED  BY <2>1, <3>1, NoFile DEF Topicings
  <2> QED  BY <2>2, <2>3
<1>4. assignment = [k \in Docs |-> View(k)]
  BY SweepIs
<1> QED  BY <1>1, <1>2, <1>3, <1>4, DocsAre

SweepResamples ==
  Resampling /\ \E k \in Docs :
    /\ k \notin resampled
    /\ \E topics \in Topicings(k) : assignment' = [assignment EXCEPT ![k] = topics]
    /\ resampled' = resampled \cup {k}
    /\ written' = written /\ Resampling' = Resampling

SweepWrites ==
  \E k \in Docs :
    /\ k = Len(written) + 1 /\ (Resampling => k \in resampled)
    /\ written' = Append(written, assignment[k])
    /\ assignment' = assignment /\ resampled' = resampled /\ Resampling' = Resampling

SweepEnds ==
  /\ Len(written) = Len(Body)
  /\ resampled' = {} /\ written' = <<>> /\ assignment' = assignment

LEMMA AppendToMap ==
  ASSUME NEW n \in Nat, NEW S, NEW f \in [1..n -> S], NEW g \in [1..n + 1 -> S],
         \A i \in 1..n : g[i] = f[i]
  PROVE  g = Append(f, g[n + 1]) /\ Len(f) = n
<1> DEFINE h == Append(f, g[n + 1])
<1>1. f \in Seq(S) /\ g \in Seq(S) /\ Len(f) = n /\ Len(g) = n + 1 /\ g[n + 1] \in S
  OBVIOUS
<1>2. h \in Seq(S) /\ Len(h) = n + 1 /\ h[n + 1] = g[n + 1]
  BY <1>1
<1>3. \A i \in 1..n : h[i] = f[i]
  BY <1>1
<1>4. \A i \in 1..Len(g) : g[i] = h[i]
  BY <1>1, <1>2, <1>3
<1> HIDE DEF h
<1>5. g = h
  BY <1>1, <1>2, <1>4
<1> QED  BY <1>1, <1>5 DEF h

LEMMA SweepSteps ==
  ASSUME Inv, Inv', mode # "stream", mode \in Modes, SweepInv, SweepInv', [Next]_vars
  PROVE  SweepResamples \/ SweepWrites \/ SweepEnds \/ UNCHANGED sweepVars
<1>1. /\ mode' = mode /\ TopicsInv /\ pc' \in {"init", "run", "done"}
  BY ModeStays DEF SweepInv
<1>2. /\ assignment = [k \in Docs |-> View(k)] /\ resampled = {k \in Docs : Behind(k)}
      /\ assignment' = [k \in Docs |-> View(k)']
      /\ resampled' = {k \in Docs : Behind(k)'}
  BY <1>1, SweepIs
<1>3. ASSUME \A k \in Docs : Stays(k), written' = written, iter' = iter
      PROVE  UNCHANGED sweepVars
  BY <1>1, <1>2, <1>3, Frame DEF Stays, sweepVars
<1>4. CASE Assemble \/ ReadEnd \/ Finish \/ UNCHANGED vars
  <2>1. \A k \in Docs : Stays(k)
    BY <1>4, OtherStays
  <2>2. written' = written
    <3>1. CASE Assemble
      <4>1. output_t = <<>> /\ output_t' = output_t /\ pc = "init" /\ pc' = "run"
        BY <3>1 DEF Assemble, fileVars, Inv, FilesInv, ControlOK
      <4>2. [k \in DOMAIN output_t |-> StoredTopics(output_t, k)] = <<>>
        BY <4>1
      <4> QED  BY <4>1, <4>2 DEF written
    <3>2. CASE Finish
      BY <3>2 DEF Finish, written
    <3>3. CASE ReadEnd \/ UNCHANGED vars
      <4>1. pc' = pc /\ output_t' = output_t
        BY <3>3 DEF ReadEnd, vars, controlVars, fileVars
      <4> QED  BY <4>1 DEF written
    <3> QED  BY <1>4, <3>1, <3>2, <3>3
  <2>3. iter' = iter
    BY <1>4 DEF Assemble, ReadEnd, Finish, vars, controlVars
  <2> QED  BY <1>3, <2>1, <2>2, <2>3
<1>5. CASE Read
  <2>1. UNCHANGED <<controlVars, fileVars>>
    BY <1>5 DEF Read
  <2>2. written' = written /\ iter' = iter
    BY <2>1 DEF written, controlVars, fileVars
  <2> QED  BY <1>3, <1>5, <2>2, ReadStays
<1>6. CASE IterationDone
  <2>1. \A k \in Docs : ~Behind(k)' /\ View(k)' = View(k)
    BY <1>1, <1>6, EndStays
  <2>2. assignment' = assignment /\ resampled' = {}
    BY <1>2, <2>1
  <2>3. written' = <<>> /\ pc = "run"
    BY <1>6 DEF IterationDone, written
  <2>4. Len(written) = Len(Body)
    <3>1. output_t \in Seq(Records) /\ Len(output_t) = Len(Body)
      <4>1. CASE Docs = {}
        <5>1. /\ output_t \in Seq(Records) /\ Len(output_t) <= read /\ read = Len(Body)
          BY <1>6, <2>3 DEF IterationDone, Inv, FilesInv, FilesOK, InOrder, ControlOK
        <5>2. Len(Body) = 0 /\ Len(output_t) \in Nat
          BY <4>1, <5>1, DocsAre
        <5> QED  BY <5>1, <5>2
      <4>2. CASE Docs # {}
        BY <1>1, <1>6, <4>2, EndStays
      <4> QED  BY <4>1, <4>2
    <3>2. DOMAIN output_t = 1..Len(Body)
      BY <3>1
    <3>3. written = [k \in 1..Len(Body) |-> StoredTopics(output_t, k)]
      BY <2>3, <3>2 DEF written
    <3> QED  BY <3>3, DocsAre
  <2> QED  BY <2>2, <2>3, <2>4 DEF SweepEnds
<1>7. CASE \E k \in Docs : Write(k)
  <2>1. PICK k \in Docs : Write(k)
    BY <1>7
  <2>2. /\ k \notin DOMAIN output_t
        /\ DOMAIN output_t' = DOMAIN output_t \cup {k}
        /\ \A j \in DOMAIN output_t :
              StoredTopics(output_t', j) = StoredTopics(output_t, j)
        /\ StoredTopics(output_t', k) = TopicsIn(k)
        /\ Len(output_t) \in Nat /\ k = Len(output_t) + 1
        /\ pc = "run" /\ pc' = pc /\ UNCHANGED <<mode, iter>>
    BY <2>1, WriteIs
  <2>3. /\ \A j \in Docs : Stays(j)
        /\ Resampling => Behind(k)
        /\ View(k) = TopicsIn(k)
    BY <1>1, <2>1, WriteStays
  <2>4. assignment' = assignment /\ resampled' = resampled
    BY <1>2, <2>3 DEF Stays
  <2>5. Resampling' = Resampling
    BY <2>2, Frame
  <2>6. PICK n \in Nat : n = Len(output_t)
    BY <2>2
  <2>7. DOMAIN output_t = 1..n /\ DOMAIN output_t' = 1..n + 1
    <3>1. output_t \in Seq(Records)
      BY DEF Inv, FilesInv, FilesOK
    <3>2. DOMAIN output_t = 1..n
      BY <2>6, <3>1
    <3> QED  BY <2>2, <2>6, <3>2
  <2>8. /\ written = [j \in 1..n |-> StoredTopics(output_t, j)]
        /\ written' = [j \in 1..n + 1 |-> StoredTopics(output_t', j)]
    BY <2>2, <2>7 DEF written
  <2>9. written' = Append(written, TopicsIn(k)) /\ Len(written) = n
    <3> DEFINE S == {written[i] : i \in 1..n} \cup {written'[i] : i \in 1..n + 1}
    <3>1. /\ written \in [1..n -> S] /\ written' \in [1..n + 1 -> S]
          /\ \A i \in 1..n : written'[i] = written[i]
          /\ written'[n + 1] = TopicsIn(k)
      BY <2>2, <2>6, <2>7, <2>8
    <3> HIDE DEF S
    <3>2. PICK f, g : f = written /\ g = written'
      OBVIOUS
    <3>3. f \in [1..n -> S] /\ g \in [1..n + 1 -> S] /\ \A i \in 1..n : g[i] = f[i]
      BY <3>1, <3>2
    <3>4. g = Append(f, g[n + 1]) /\ Len(f) = n
      BY <3>3, AppendToMap
    <3> QED  BY <3>1, <3>2, <3>4
  <2>10. assignment[k] = TopicsIn(k) /\ (Resampling => k \in resampled)
    BY <1>2, <2>3
  <2> QED  BY <2>2, <2>4, <2>5, <2>6, <2>9, <2>10 DEF SweepWrites
<1>8. CASE \E k \in Docs : Filter(k) /\ ~Write(k)
  <2>1. PICK k \in Docs : Filter(k) /\ ~Write(k)
    BY <1>8
  <2>2. Alone(k) /\ pc = "run" /\ pc' = "run"
    BY <1>1, <2>1, FilterAlone DEF Alone
  <2>3. written' = written /\ UNCHANGED <<mode, iter>>
    BY <2>2 DEF Alone, written
  <2>4. CASE ~Updated(k) /\ ~Test(k)
    <3>1. \A j \in Docs : Stays(j)
      BY <2>1, <2>2, <2>4, FilterStays
    <3> QED  BY <1>3, <2>3, <3>1
  <2>5. CASE Updated(k) \/ Test(k)
    <3>1. /\ \A j \in Docs \ {k} : Stays(j)
          /\ ~Behind(k) /\ Behind(k)' /\ View(k)' = TopicsIn(k)'
      BY <2>1, <2>2, <2>5, FilterStays
    <3>2. resampled' = resampled \cup {k} /\ k \notin resampled
      BY <1>2, <3>1 DEF Stays
    <3>3. assignment' = [assignment EXCEPT ![k] = TopicsIn(k)']
      BY <1>2, <3>1 DEF Stays
    <3>4. Resampling' = Resampling /\ Resampling
      BY <2>3, <3>1, Frame DEF Behind
    <3>5. TopicsIn(k)' \in Topicings(k)
      <4>1. k \in Live'
        BY <2>2 DEF Alone
      <4>2. TopicsIn(k)' = <<>> \/ IsTopicing(k, TopicsIn(k)')
        BY <1>1, <4>1 DEF Inv, FilesInv, DocsOK, IsTopicing
      <4> QED  BY <4>2, IsTopicingOf DEF Topicings
    <3> QED  BY <2>3, <3>2, <3>3, <3>4, <3>5 DEF SweepResamples
  <2> QED  BY <2>4, <2>5
<1> QED  BY <1>4, <1>5, <1>6, <1>7, <1>8 DEF Next

(***************************************************************************)
(* Outside of stream mode every behaviour of the pipeline is one of the    *)
(* sweep: a document gets new topics once in an iteration that resamples,  *)
(* and is written once, after that and in the order it was read.           *)
(***************************************************************************)
THEOREM SweepImplemented == Spec /\ mode # "stream" => ImplementsSweep
<1>1. Init /\ Inv /\ mode # "stream" => Swept!Init
  <2> SUFFICES ASSUME Init, Inv, mode # "stream" PROVE Swept!Init
    OBVIOUS
  <2> QED  BY SweepStarts DEF Swept!Init, assignment, resampled, written, Topicings
<1>2. /\ mode # "stream" /\ (Inv /\ mode \in Modes /\ SweepInv)
      /\ (Inv /\ mode \in Modes /\ SweepInv)' /\ [Next]_vars
      => [Swept!Next]_(Swept!vars)
  <2> SUFFICES ASSUME mode # "stream", Inv, mode \in Modes, SweepInv, Inv', SweepInv', [Next]_vars
               PROVE  [Swept!Next]_(Swept!vars)
    OBVIOUS
  <2>1. CASE SweepResamples
    <3>1. PICK k \in Docs : Swept!Resample(k)
      BY <2>1 DEF SweepResamples, Swept!Resample, assignment, resampled, written, Topicings, Resampling
    <3> QED  BY <3>1, DocsAre DEF Swept!Next
  <2>2. CASE SweepWrites
    <3>1. PICK k \in 1..Len(Body) :
             /\ k = Len(written) + 1 /\ (Resampling => k \in resampled)
             /\ written' = Append(written, assignment[k])
             /\ assignment' = assignment /\ resampled' = resampled
             /\ Resampling' = Resampling
      BY <2>2, DocsAre DEF SweepWrites
    <3>2. k <= Len(Body)
      BY <3>1, DocsAre
    <3>3. Swept!Write
      BY <3>1, <3>2 DEF Swept!Write, assignment, resampled, written, Resampling
    <3> QED  BY <3>3 DEF Swept!Next
  <2>3. CASE SweepEnds
    <3>1. Swept!NextSweep
      BY <2>3 DEF SweepEnds, Swept!NextSweep, assignment, resampled, written, Resampling
    <3> QED  BY <3>1 DEF Swept!Next
  <2>4. CASE UNCHANGED sweepVars
    BY <2>4 DEF sweepVars, assignment, resampled, written, Resampling, Swept!vars
  <2> QED  BY <2>1, <2>2, <2>3, <2>4, SweepSteps
<1>3. mode # "stream" /\ [Next]_vars => (mode # "stream")'
  BY ModeStays
<1>4. /\ mode # "stream" /\ [][Next]_vars /\ [](Inv /\ mode \in Modes /\ SweepInv)
      => [][Swept!Next]_(Swept!vars)
  BY <1>2, <1>3, PTL
<1>5. /\ mode # "stream" /\ Init /\ [](Inv /\ mode \in Modes /\ SweepInv)
      => Swept!Init
  BY <1>1, PTL
<1>6. Spec /\ mode # "stream" => Swept!Spec
  BY <1>4, <1>5, SweepInvHolds, PTL DEF Spec, Swept!Spec
<1> QED  BY <1>6 DEF ImplementsSweep
=============================================================================
