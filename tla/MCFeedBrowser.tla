--------------------------- MODULE MCFeedBrowser ---------------------------
EXTENDS FeedBrowser

MCArticle == {"a", "b", "c"}
=============================================================================
