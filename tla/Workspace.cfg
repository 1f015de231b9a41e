\* Two overlapping pulls of four meetings of two providers; two backfills of two outcomes; two requests on one product; runs of one notebook; readings and views of every short ledger of chosen rows.
SPECIFICATION OneSpec
INVARIANTS
  TranscriptsStand
  ArtifactsStand
  ReadingsStand
  ViewsAgree

  
CHECK_DEADLOCK FALSE
