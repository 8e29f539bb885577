------------------------ MODULE MCCatalogProjection ------------------------
EXTENDS CatalogProjection
=============================================================================
