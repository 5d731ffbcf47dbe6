SPECIFICATION Spec
PROPERTY FlipNeedsPress
