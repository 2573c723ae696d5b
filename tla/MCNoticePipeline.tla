-------------------------- MODULE MCNoticePipeline --------------------------
EXTENDS NoticePipeline, TLC
=============================================================================
