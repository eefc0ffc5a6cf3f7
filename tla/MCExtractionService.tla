------------------------- MODULE MCExtractionService -------------------------
EXTENDS ExtractionService
=============================================================================
