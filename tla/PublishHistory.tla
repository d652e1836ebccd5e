--------------------------- MODULE PublishHistory ---------------------------
(* PublishPipeline with a history variable: the published surfaces, the    *)
(* visible pages together with the settings, the database held one after   *)
(* the other.                                                              *)
EXTENDS PublishPipeline

VARIABLE seen

Surface == [pages |-> PagesSnapshot(rows), settings |-> settings]

Remember == seen' = IF Surface' = Surface THEN seen ELSE Append(seen, Surface')

HistorySpec ==
  /\ Init /\ seen = <<Surface>>
  /\ [][Next /\ Remember]_<<vars, seen>>

\* "Atomically captures the current published state (pages + settings)": what
\* a publish records was, at some moment, the published state of the site.
CaptureIsAtomic ==
  \A i \in DOMAIN revisions :
    revisions[i].rolledBackFrom = 0 =>
      \E n \in DOMAIN seen :
        seen[n] = [pages |-> revisions[i].pages, settings |-> revisions[i].settings]

\* The pages and the settings were published, the settings not before the
\* pages: what two statements that read one after the other can promise.
ReadInOrder(pages, set) ==
  \E m, n \in DOMAIN seen :
    m <= n /\ seen[m].pages = pages /\ seen[n].settings = set

\* What captureSnapshot does promise: the pages of a publish were all live
\* together at some moment, its settings at the same moment or a later one,
\* whatever editors and restores committed between the two reads.
CaptureIsOrdered ==
  \A i \in DOMAIN revisions :
    revisions[i].rolledBackFrom = 0 =>
      ReadInOrder(revisions[i].pages, revisions[i].settings)

=============================================================================
