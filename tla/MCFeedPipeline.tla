--------------------------- MODULE MCFeedPipeline ---------------------------
EXTENDS FeedPipeline
=============================================================================
